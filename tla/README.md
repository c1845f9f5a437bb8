# TLA+ models of the builtin actors

This directory holds TLA+ specifications of parts of the Filecoin builtin
actors in this repository, the TLC configurations that check them, and
`PROJECT.json`, which lists the components, the runs, the mutants that show
each property can fail, the map from definitions to source lines, the findings
and the hazards. Everything is checked with TLC (`tlc -config X.cfg M`).

## 1. The system

The builtin actors are the on-chain programs of the network. An actor has a
state and methods; a message invokes one method; a method may call methods of
other actors synchronously and gets their result or their error back. A message
is atomic: if the method returns an error, every state change made on its
behalf, in any actor, is discarded. There are no threads. What makes the code
hard is *re-entrancy* (a called actor calls back before it returns), *partial
failure* (a method that goes on after a callee failed) and long sequences of
legal messages.

| Component | Source | State | Operations |
|---|---|---|---|
| Storage power actor | `src/actors/power/src/lib.rs` | claims per miner, committed and consensus totals, total pledge, the values frozen for the epoch, miner counts, cron event queue and `first_cron_epoch` | Constructor, CreateMiner, UpdateClaimedPower, EnrollCronEvent, UpdatePledgeTotal, OnEpochTickEnd, six read-only methods |
| Multisig state | `src/actors/multisig/src/state.rs` | signers, threshold, vesting lock (`initial_balance`, `start_epoch`, `unlock_duration`), pending transactions | `set_locked`, `amount_locked`, `check_available`, `purge_approvals`, `is_signer` |
| Init actor invariants | `src/actors/init/src/testing.rs` | address map, `next_id` | `check_state_invariants` |
| Verified registry | only its tests, `src/actors/verifreg/tests/verifreg_actor_test.rs` | verifiers and their allowances, allocations per client, claims per provider, `next_allocation_id`; its datacap balance is held by the datacap actor | AddVerifier, RemoveVerifier, AddVerifiedClient, the datacap receiver hook, ClaimAllocations, ExtendClaimTerms, GetClaims, RemoveExpiredAllocations, RemoveExpiredClaims |
| Miner sector activation | only its tests, `src/actors/miner/tests/prove_replica_test.rs`, `src/integration_tests/src/tests/replica_update3_test.rs` | sectors, deadlines, power | ProveCommitSectors3, ProveReplicaUpdates3 |
| Test VM | `src/test_vm/tests/suite/test_vm_test.rs` | actors, state tree, checkpoints | execute message, checkpoint, rollback |
| Reward, cron, market, datacap | none | | called by the above |

How they interact:

* The cron actor sends `OnEpochTickEnd` to the power actor at the end of every
  epoch. The power actor asks the reward actor for `ThisEpochReward`, hands
  the due cron events to their miners (`OnDeferredCronEvent`), removes the
  miners whose callback failed, freezes the totals, and reports the raw power
  to the reward actor (`UpdateNetworkKPI`).
* A miner calls `UpdateClaimedPower`, `UpdatePledgeTotal` and
  `EnrollCronEvent` on the power actor, from its own messages and from inside
  its cron callback.
* `CreateMiner` calls the init actor's `Exec`, which creates the miner actor
  and returns its address.
* Sector activation (miner) calls the verified registry to claim allocations,
  the market to activate deals, and the power actor to add the power.
* A client sends datacap to the verified registry; the datacap actor calls
  the registry's receiver hook, which turns the datacap into allocations and
  claim extensions. The registry burns the datacap of what is claimed or
  extended and returns the datacap of expired allocations to their client.

Behaviours that are hard to test, and that the models aim at:

* the miner re-entering the power actor from its callback, after the tick
  emptied the queue and moved `first_cron_epoch`;
* a callback failing in the middle of a tick, and the tick going on;
* the tick aborting at its last step, after callbacks ran;
* ticks missed or aborted, so that several epochs are due at once;
* claims crossing the consensus minimum, and the network switching between
  committed and consensus totals;
* several failed callbacks of one miner in one tick;
* a batch of claims in which one sector group fails after some of its claims
  passed, or in which two groups name the same allocation;
* the epoch at which an allocation or a claim expires, where the provider's
  claim, the client's extension and anyone's sweep are all allowed or all
  refused by one comparison;
* datacap that enters the registry for an allocation and must leave it
  exactly once, by claim or by expiry.

`PROJECT.json` lists them under `hazards`, each at its line.

## 2. Plan

Modules, in the order they are written. The power actor comes first because
it is the only actor whose implementation (not only its tests) is among the
sources, and the one every other component reports to. The claim registry
comes second: `spec.md` gives it and the activation pipeline that calls it
most of the system, and its test suite is the largest source.

1. `Power` (done): the storage power actor. `MCPower` instantiates it.
2. `Verifreg` (done): allocations,
   claims and the receiver hook, modelled from `spec.md` and pinned to the
   expectations of `verifreg_actor_test.rs`. `MCVerifreg` instantiates it.
3. `Multisig` (done): the vesting lock and the pending transactions of
   `multisig/src/state.rs`. `MCMultisig` instantiates it.
4. `InitActor` (done): `check_state_invariants` of `init/src/testing.rs`
   over every state within the bounds. `MCInitActor` instantiates it.
5. `AllocationLifecycle` (done): the abstract life of an allocation ID,
   which `Verifreg` implements (`INSTANCE ... WITH`).
6. `Activation` (done): the activation pipeline of `spec.md` section 4.1
   for ProveCommitSectors3 and ProveReplicaUpdates3, as the tests of
   `prove_replica_test.rs` and `replica_update3_test.rs` pin it, composed
   with `Verifreg` (ClaimAllocations with the all-or-nothing flag) and
   with `Power` (UpdateClaimedPower). `MCActivation` instantiates it.
7. `Verifiers` (done): verifier and client management of the verified
   registry (the root key, allowances, the datacap of the clients),
   composed with `Verifreg`. `MCVerifiers` instantiates it.
8. `DeferredCron` (done): what the power actor promises the miners about
   cron events, with the tick as one step; `Power` implements it
   (`INSTANCE ... WITH`).

## 3. Module `Power`

`Power.tla` models `src/actors/power/src/lib.rs`.

### State

| Variable | Code |
|---|---|
| `st` | the actor's `State`: `claims`, `total_bytes_committed`, `total_qa_bytes_committed` (all claims), `total_raw_byte_power`, `total_quality_adj_power`, `miner_above_min_power_count` (claims at or above the consensus minimum), `total_pledge_collateral`, `this_epoch_*` (frozen copies), `miner_count`, `first_cron_epoch`, `cron_event_queue` |
| `epoch` | `rt.curr_epoch()` |
| `created` | the actors of type Miner, which pass `validate_immediate_caller_type` |
| `tick` | the locals of a running `OnEpochTickEnd`: `cron_events` still to send, `failed_miner_crons`, and whether the running callback called this actor |
| `checkpoint` | what the running tick discards if it aborts |
| `enrolled`, `attempted`, `frozen` | history variables for the properties: events enrolled, events sent (a bag), miners whose failed callback a tick committed |

The data is abstracted: addresses are model values, power is a small natural
number, payloads are opaque model values, the HAMT/AMT containers are
functions and sequences. The smoothed estimate of quality-adjusted power is
left out; nothing branches on it.

### Actions

| Action | Code | Notes |
|---|---|---|
| `Init` | `constructor` | |
| `CreateMiner(m, p)` | `create_miner` | the init actor's `Exec` is the choice of a fresh `m`; if it fails the message aborts and nothing happens |
| `UpdateClaimedPower(m, d)` | `update_claimed_power` | aborts when `add_to_claim` fails |
| `EnrollCronEvent(m, e, p)` | `enroll_cron_event` | `e` ranges from -1, so the check `event_epoch < 0` is exercised; each (miner, payload) is enrolled once, a bound that gives an event its identity, where the code accepts repeats |
| `UpdatePledgeTotal(m, d)` | `update_pledge_total` | aborts without a claim or on a negative total |
| `ProcessDeferredCronEvents` | `on_epoch_tick_end` up to the end of the first transaction of `process_deferred_cron_events` | takes the checkpoint; `DueEvents` are the events of the scanned epochs, `EventsOfClaimants` those the tick sends, `ScannedQueue` and `CursorAfterScan` what the transaction leaves |
| `RewardQueryFails` | `ThisEpochReward` fails | the tick aborts before it did anything |
| `CallbackReturns`, `CallbackFails` | one iteration of the loop over `cron_events` | between the start of an iteration and its end the called miner may take miner actions |
| `OnEpochTickEnd` | the second transaction, the freeze and a successful `UpdateNetworkKPI` | commits |
| `UpdateKpiFails` | `UpdateNetworkKPI` fails | restores the checkpoint |

A message that aborts leaves no trace, so an aborting message that makes no
call is a step that does not exist (its guard is false). The tick is the one
method that calls out while it holds intermediate state, so it is the one
method modelled in several steps. While it runs, only the miner being called
can act (`MinerCalls`): execution is single-threaded. A callback that fails
discards what the miner did in it; the model lets a callback fail only if it
made no call (`~tick.nested`), which is the same set of outcomes.

The helpers of `state.rs` (`add_to_claim`, `delete_claim`,
`current_total_power`, `append_cron_event`,
`miner_nominal_power_meets_consensus_minimum`,
`update_stats_for_new_miner`) are not among the sources. They are modelled
from how `lib.rs` uses them and from their documented behaviour, and marked
`spec_modelled` in the map. Two assumptions matter:

* `delete_claim` returns `Ok` for a miner without a claim (finding below);
* a claim that is at or above its minimum when deleted leaves
  `miner_above_min_power_count` only by falling below the minimum. With a
  proof type whose minimum is zero a claim never falls below it, and the
  count would stay up after the claim is deleted. No policy has a zero
  minimum, and `MCPower` gives every proof type a minimum of 2.

### Runs

| Run | Configuration | Bounds | Result |
|---|---|---|---|
| `power_accounting` | `Power_accounting.cfg` | 2 miners, 1 payload, epochs 0..1, power deltas (+2,+3) (+1,+1) (-1,-1), claims up to 3, pledge 0..1 | passes, 1.2 million states |
| `power_cron` | `Power_cron.cfg` | 2 miners, 2 payloads, epochs 0..2, one power delta | passes, 69 thousand states |
| `power_liveness` | `Power_liveness.cfg` | 2 miners, 1 payload, epochs 0..2, `FairSpec`, no symmetry | passes |
| `power_miner_count` | `Power_minercount.cfg` | as `power_cron` | `MinerCountIsClaimCount` violated |

Why the bounds are enough. The minimum is 2 and claims reach 3: a claim gets
to the minimum in one step and in two, goes beyond it, and falls below it
again; the quality-adjusted delta differs from the raw one, so a total mixed
up with the other shows. With `CONSENSUS_MINER_MIN_MINERS = 1` and two miners
the network is below, at and above the threshold of `current_total_power`.
Two payloads give a miner two events in one tick. Three epochs allow an event
ahead of the clock, one at it and one behind it, and a tick that aborts
followed by one that commits. The clock stops at `MaxEpoch` and ticks keep
running there, so no run ends in a deadlock, and deadlock is checked.
Miners and payloads are symmetric in the safety runs.

### Properties

* `TypeOK`: the shape of the state; it fails when an aborted message
  leaves a negative pledge or a negative cron epoch behind.
* `AggregatesMatchClaims`: the four totals are the sums over the claims
  table, for all claims and for the claims at or above the minimum.
* `EligiblePowerIsNetworkPower`: the network's raw power is the raw power of
  exactly the miners `MinerRawPower` reports as meeting the consensus
  minimum; `MinerConsensusCount` counts the claims at or above it.
* `FrozenDuringEpoch` (action property): what `CurrentTotalPower` and
  `NetworkRawPower` return changes only in the step that ends a tick.
* `FrozenPowerIsPowerAfterCron` (action property): a committing tick freezes
  the totals as they are after the failed miners were removed.
* `NoEventBehindCursor`: no queued event lies before `first_cron_epoch`.
* `AttemptedAtMostOnce`: no event is sent twice by ticks that commit.
* `FrozenMinerNotCalled`: a miner whose callback failed in a committed tick
  is never called again.
* `DeferredCronSpec` (refinement): what the ticks commit is a behaviour of
  `DeferredCron`, see below.
* `EnrolledEventIsAttempted` (liveness): an event enrolled by a committed
  message is eventually sent by a tick that commits, or its miner has no
  claim.
* `MinerCountIsClaimCount`: `MinerCount` is the number of claims. Violated.

### Refinement: the tick as one step

`DeferredCron.tla` is the actor seen from outside a message. Its state is
the clock, the miners that hold a claim, the events that wait (each with
the epoch it was enrolled for) and the events that were handed to their
miner. A miner is admitted, an event is enrolled, and the epoch ends with
a `Tick` or with a `Skip`, the tick that aborted. `Tick` is a predicate
on the next state: every due event leaves the queue, the due events of
the miners with a claim are sent and none of them was sent before, only
due events leave, and only a miner that was called may have lost its
claim or enrolled an event.

`Power` runs a tick in several steps (the scan, one step for each
callback, the second transaction and the call to the reward actor) and
lets the called miner act in between. The mapping shows the state the last
finished message left:

| `DeferredCron` | `Power` |
|---|---|
| `now` | `epoch` |
| `holders` | the miners with a claim in `Committed.st` |
| `pending` | the events of `Committed.st.cron_event_queue`, with their epochs |
| `sent` | the events of `Committed.attempted` |

`Committed` is the checkpoint while a tick runs and the state itself
otherwise. The steps inside a tick are then stuttering steps,
`OnEpochTickEnd` is the abstract `Tick`, `UpdateKpiFails` and
`RewardQueryFails` are `Skip`. `DeferredCronSpec` is the abstract
specification under this mapping, checked as a property of `power_cron`
(69,480 states). It says of the code what none of the invariants does
alone: that the tick, with its two transactions and the calls between
them, looks atomic, and that an aborted tick has handed nothing to
anybody. It fails when the scan sends the events of miners without a
claim (`EventsOfClaimants`): the tick has then handed an event to a miner
the actor holds no claim for.

### Fairness

`FairSpec` assumes weak fairness of `ProcessDeferredCronEvents` (the cron
actor sends the tick at every epoch: "cron is invoked every epoch",
`lib.rs:221`), weak fairness of the end of a callback (a synchronous call
returns or fails) and strong fairness of `OnEpochTickEnd`: the reward actor
may refuse `UpdateNetworkKPI` any number of times, but not for ever. Strong
fairness is needed because the commit is enabled only at the end of each
tick, not continuously. Nothing is assumed about the miners' own messages.

### Finding

`power_miner_count`: a miner with two events due in one tick whose callbacks
both fail is pushed on `failed_miner_crons` twice (`lib.rs:418`). The second
transaction deletes its claim and counts `miner_count` down for the first
entry, and counts down again for the second, for which `delete_claim` finds
no claim and returns `Ok` (`lib.rs:427-436`). With one miner created,
`miner_count` ends at -1. The trace has 8 states: CreateMiner, two
EnrollCronEvent, ProcessDeferredCronEvents, two CallbackFails,
OnEpochTickEnd.

## 4. Module `Verifreg`

`Verifreg.tla` models the claim registry and the datacap receiver hook of
the verified registry actor (`spec.md` 4.2 and 4.3). The actor's code is not
among the sources; its test suite, `verifreg_actor_test.rs`, is. Each
definition is written from the section of `spec.md` that describes the
operation and from the test that pins it, and the map names the lines of
that test. Where `spec.md` and the test disagree the model follows the test,
which runs against the code, and the disagreement is a finding.

### State

| Variable | Code |
|---|---|
| `allocations` | the allocations, a function from id to `Allocation` (the actor keys them by client and id; the client is a field here, and a lookup under another client finds nothing) |
| `claims` | the claims, from id to `Claim` (keyed by provider and id in the actor) |
| `next_allocation_id` | `State.next_allocation_id` |
| `epoch` | `rt.curr_epoch()` |
| `balance` | the datacap the datacap actor holds for the registry: what the hook received, less what the registry burnt or sent back |
| `ret` | what the last call returned: the method, the caller, the exit code of the call, the exit codes of its batch, the claimed space per sector or the datacap recovered |

Clients, providers and piece CIDs are model values; sizes and terms are small
naturals. A claim made of allocation `id` keeps `id`, as in the actor.

### Actions

| Action | Method | Notes |
|---|---|---|
| `UniversalReceiverHook(by_datacap, to_self, from, allocs, extensions, amount)` | the hook | refuses a caller that is not the datacap actor (Forbidden) and a transfer that is not to the registry (IllegalArgument), told by two booleans (`HookCallCode`); then strict: one request refused, or an amount that is not the sum of the allocation sizes and of the sizes of the claims extended, aborts the call; otherwise the allocations get consecutive ids and the claims their new `term_max`, the datacap of the allocations stays and that of the extensions is burnt |
| `ClaimAllocations(provider, sectors, all_or_nothing)` | ClaimAllocations | the sector groups are folded in order over the tables as the groups before left them (`ClaimSector`); a group with a failing claim changes nothing and yields its first failure; a group that names an allocation twice aborts the call; with `all_or_nothing` any failing group aborts the call |
| `ExtendClaimTerms(caller, terms)` | ExtendClaimTerms | term by term, each on the claims as the terms before left them; never aborts |
| `RemoveExpiredAllocations(client, ids)` | RemoveExpiredAllocations | ids given, or every expired allocation of the client; the datacap recovered leaves the registry |
| `RemoveExpiredClaims(provider, ids)` | RemoveExpiredClaims | as above, for claims; nothing is recovered |
| `Tick` | the chain | an epoch passes |

`GetClaims` reads only, and is an operator. A call that aborts changes `ret`
and nothing else (`Aborts`). There is one caller at a time, so every action is
one step; what is hard is the order of calls of clients, providers and
sweepers around the expiry epochs, and the bookkeeping inside a batch.

### Run, bounds and inputs

| Run | Configuration | Result |
|---|---|---|
| `verifreg_registry` | `Verifreg_registry.cfg` | passes, 35 thousand states, depth 11 |
| `verifreg_extension_strict` | `Verifreg_strict.cfg` | `ExtensionIsStrict` violated |
| `verifreg_owner_extends` | `Verifreg_owner.cfg` | `OnlyOwnerExtends` violated |

Two clients, two providers, two pieces. The policy of the model: sizes from
1, terms from 1 to 3, an allocation expires at most 2 epochs after it is
made. Epochs 0 to 3 (`MaxEpoch`), at most 2 allocations ever (`MaxId`), at
most 2 ids in a sweep (`MaxBatch`) and 2 terms in an extension (`MaxTerms`).

The parameters of the calls are sets chosen in `MCVerifreg`, not every
sequence over every record, which TLC cannot enumerate in a useful time:

* allocation requests: two good ones that differ in provider, piece, size,
  terms and expiration, and one that fails each check of the policy (size,
  `term_min > term_max`, expiration, a provider that is not a miner);
* hook payloads: one and two allocations with the right and a wrong amount;
  every claim term as a lone extension, paid with 1 and with 2; an
  allocation and an extension together, paid in full and paid for the
  allocation only;
* every payload is also delivered by a caller that is not the datacap
  actor, and for a transfer that is not to the registry;
* claim batches: one group and two; a group of two claims; an allocation
  named twice in one group and in two groups; a claim under the wrong
  client, with the wrong piece, with a sector that lives too long; a second
  group valid only if the first one failed;
* claim terms: a term equal to the claim's, longer, longer than the policy
  admits at the claim's start but not after it expired, shorter, under the
  wrong provider.

With 4 epochs an allocation made at epoch 0 or 1 is met before, at and after
its expiration (1 or 2), and a claim of term 1 or 2 before, at and after its
end. Both providers and both clients may issue every call, so every wrong
owner is tried. The clock stops at `MaxEpoch` and the calls stay enabled:
deadlock is checked. The input sets are not symmetric, so no symmetry is
used.

### Properties

* `TypeOK`: the shape of the state, and every allocation held is one the
  policy admits (`term_min <= term_max` included).
* `DatacapBacksAllocations`: the registry's datacap is the sum of the sizes
  of its allocations, always. It relates the hook's amount check, the burn
  of extensions, the burn of claimed space (of the sector groups that
  succeeded only) and the sweep's refund.
* `ClaimReturnMatchesEffects` (action property): after ClaimAllocations the
  claims made are exactly the allocations removed, each a copy of its
  allocation for the calling provider starting now; the call returns one
  claimed space per successful group and their sum is the size of the claims
  made. A group that fails after some of its claims passed leaves nothing.
* `ClaimTermOnlyGrows` (action property): a claim changes in its `term_max`
  only, and it only grows.
* `AllocationLeavesByClaimOrExpiry` (action property): an allocation leaves
  as a claim of its own provider made no later than its expiration, or swept
  no earlier than its expiration with its datacap leaving the registry.
* `ClaimEndsWithinPolicy`: no claim ends later than the maximum term from
  now; an extension is limited by the epoch, not only by the claim's start.
* `LifecycleSpec` (refinement): `Verifreg` implements
  `AllocationLifecycle`, see below.

### Refinement: the life of an allocation ID

`AllocationLifecycle.tla` is what `spec.md` 3 promises about an allocation,
with the records left out: an ID is `unused`, then `allocated` ("created by
the Receiver Hook"), then either `claimed` ("destroyed on claim, converted
into a Claim") and later `removed`, or `removed` at once ("or on expiration
sweep"). IDs are given in order, a step moves any set of IDs the same way,
and nothing leaves `removed`.

`Verifreg` instantiates it with `stage <- StageOf`: an ID is `allocated` if
the allocations table has it, else `claimed` if the claims table has it,
else `removed` if it is below `next_allocation_id`, else `unused`.
`LifecycleSpec` is the abstract specification under this mapping, checked
as a property of the run `verifreg_registry`. It holds because `NewIds`
counts from `next_allocation_id`, which only grows, and not from what the
tables hold: the mutant that numbers new allocations after the size of the
table gives the ID of a live claim to a new allocation, and TLC reports the
step from `claimed` to `allocated`.

At the epoch equal to an allocation's expiration both ways out are open: the
provider may still claim it (`epoch <= expiration`) and anyone may sweep it
(`expiration <= epoch`); whoever comes first wins and the other gets
`USR_NOT_FOUND`. The same holds for a claim at `term_start + term_max`: it
may be swept, and the hook still extends it. The model has both orders.

### Findings

* `verifreg_extension_strict`. `spec.md` 4.2 requires the new `term_max` to
  be strictly greater than the claim's, and section 8 says equal values fail
  with IllegalArgument. The test `extend_claims_edge_cases`
  (`verifreg_actor_test.rs:962-972`) expects `OK` for an extension to the
  same `term_max`. Only the hook is strict (lines 1570-1580). Trace: an
  allocation is made and claimed, then ExtendClaimTerms with the claim's
  own `term_max` returns `OK` and changes nothing.
* `verifreg_owner_extends`. `spec.md` 3 says a claim's `term_max` is changed
  only by the client that owns it, and 4.3 that the hook forwards extension
  requests to the logic of ExtendClaimTerms, which refuses another caller
  with Forbidden. The test `receive_tokens_extend_claims`
  (`verifreg_actor_test.rs:1279`) has CLIENT1 extend the claim of CLIENT2
  through the hook. Trace: `c1`'s allocation is claimed, `c2` sends
  datacap with an extension of that claim, and its `term_max` grows.
* Not a run: `spec.md` 7 says a failure of one item never aborts a call that
  is not all-or-nothing. ClaimAllocations without all-or-nothing aborts with
  IllegalArgument when one group names an allocation twice
  (`verifreg_actor_test.rs:731-745`); the model follows the test
  (`clash` in `ClaimSector`).

### Where the model admits more than the tests show

* `ExtensionLimit`: for a claim that has expired the limit is counted
  from the current epoch, `epoch - term_start + maximum`, as `spec.md`
  4.2 says. The tests show the maximum plus one refused for a live claim
  and exactly the maximum accepted after expiry
  (`verifreg_actor_test.rs:995-1036`), and nothing between.
* `AllocationValid` has no lower bound on the expiration: the hook makes
  an allocation that has expired already. The tests pin the upper bound
  only (`verifreg_actor_test.rs:1422-1508`).

Both add behaviours, and every property holds with them.

## 5. Module `Multisig`

`Multisig.tla` models `src/actors/multisig/src/state.rs`, the state of a
wallet that several signers control and whose balance may be locked and
released linearly over time.

### State

| Variable | Code |
|---|---|
| `st` | `State`: `signers`, `num_approvals_threshold`, `next_tx_id`, `initial_balance`, `start_epoch`, `unlock_duration`, and `pending_txs` as a function from transaction ID to `[value, approved]` |
| `balance` | `rt.current_balance()` |
| `epoch` | `rt.curr_epoch()` |

### The methods of `State`

Each is an operator on a state, written from `state.rs`:

* `AmountLocked(s, elapsed_epoch)`: nothing once `elapsed_epoch >=
  unlock_duration` (the first test, so a state without a lock locks
  nothing), all of `initial_balance` when `elapsed_epoch <= 0`, else
  `initial_balance * remaining / unlock_duration` rounded up (`DivCeil`).
* `CheckAvailable(s, current_balance, amount_to_spend, curr_epoch)`: the
  four tests in the order of the code; the elapsed time it passes to
  `AmountLocked` is `curr_epoch - s.start_epoch`. It returns an exit code.
* `PurgeApprovals(s, addr)`: collects the transactions `addr` approved
  (`TxnIdsToPurge`), takes `addr` out of each (`Retain`), writes back the
  ones that keep an approval and deletes the others.
* `SetLocked`, `IsSigner`.

The errors of the block store (`load`, `set`, `delete`, `flush`) abort the
message and are left out.

### The actor

The actor's methods are in `lib.rs`, which is not among the sources. To
reach the states in which the methods above matter the module has the least
machine that calls them as their doc comments describe: `Propose` (a signer
adds a transaction with its own approval), `Approve`, both followed by the
execution of a transaction that has `num_approvals_threshold` approvals,
which sends `value` if `CheckAvailable` returns `OK` and aborts the message
otherwise; `AddSigner`; `RemoveSigner`, which calls `PurgeApprovals`;
`LockBalance`, which calls `SetLocked` once; `Receive` and `Tick` for the
runtime. A message that aborts changes nothing and is no step. These
definitions are marked `spec_modelled` in the map. `Cancel`, `SwapSigner`
and `ChangeNumApprovalsThreshold` call no method of `State` that the others
do not and are left out.

### Run `multisig_wallet`

Three addresses (symmetric), values -1, 0, 1, 2, deposits 1 and 3, a lock of
2 or 4 (and -1, refused) over 1 or 3 epochs (and 0, refused) starting at
epoch 0 or 2, at most 2 transactions, a balance up to 5, epochs 0 to 5.
A lock of 4 over 3 epochs makes the division inexact (4/3, 8/3), a start at
epoch 2 makes the elapsed time negative, and 5 epochs run past the end of
every lock. Three signers allow a threshold of 2 with a signer to remove.
TLC finds 177,876 states, depth 18. Deadlock is checked: when the clock, the
balance and the transactions are at their bounds a signer can still be added
or removed.

### Properties

* `TypeOK`: the shape of the state; a pending transaction has at least one
  approval, and the threshold is between 1 and the number of signers.
* `ApprovalsAreBySigners`: the approvals of a pending transaction are by
  current signers, each once. It fails if `PurgeApprovals` looks at the
  proposer only.
* `AmountLockedIsExact`: for every elapsed time from `-MaxEpoch` to
  `MaxEpoch`, `AmountLocked` is the amount `IsLockedAmount` describes
  without a division, and it does not grow with time. It fails if the
  division rounds down.
* `LockedFundsStay` (action property): after a step that lowers the balance
  the balance is at least what is locked at this epoch. It relates the
  balance, the epoch and the lock across `LockBalance`, deposits, ticks and
  executions, and fails if `CheckAvailable` passes the epoch instead of the
  elapsed time.

A transfer of value 0 passes `CheckAvailable` whatever is locked, and a lock
larger than the balance can be set: the wallet then holds less than is
locked, and nothing positive can be spent until enough has vested. That is
why the property speaks of steps that lower the balance, not of all states.

## 6. Module `InitActor`

`InitActor.tla` models `check_state_invariants` of
`src/actors/init/src/testing.rs`, the checker that tests and state audits
run on the init actor's state: the network name is not empty, `next_id` and
every ID of the address map are not below `FIRST_NON_SINGLETON_ADDR`, no key
is an ID address, and no two keys of a kind (delegated, or any other) map to
one ID. An actor may have one address of each kind.

`CheckStateInvariants(s, fault, visited)` is the function: `StartOfWalk`
for the checks before the walk, `Visit` for the closure given to `for_each`,
folded over `visited`, the entries in the order the map yielded them;
`Inserted` for `HashMap::insert` with its answer whether the ID was there;
`FaultMessages` for a map that does not load (nothing is visited) or whose
iteration fails (only a part is visited). A message is its wording and its
subject; the accumulator is a set, so the message that the arm of an ID
address adds a second time is counted once.

The init actor's methods are not among the sources, and the checker is meant
for states that are wrong. The specification therefore enumerates: its steps
(`SetNetworkName`, `SetNextId`, `Put`) write one field or one entry, and
every state within the bounds is reachable.

### Run `init_checker`

One ID address, two stable and two delegated addresses (each pair
symmetric), `FIRST_NON_SINGLETON_ADDR = 2` and IDs 0 to 3: two singleton
IDs and two others, so that two entries can share an ID, of one kind or of
two, next to an entry with a singleton's ID. 9,000 states up to symmetry.
For each state the properties quantify over every order of its entries (up
to 120) and, for a failing iteration, every proper prefix of every order.

* `CheckerIsExact`: the accumulator is empty exactly when the state is
  `Sound` and the store did not fail. `Sound` is stated with sets and
  cardinalities, without a walk. It fails if the checker keeps one map for
  both kinds.
* `SummaryIsTheState`: the summary is the address map and `next_id`, also
  for a state with messages. It fails if the entry of an ID address is left
  out of the summary.

The checker does not compare the IDs of the map with `next_id`: a state in
which an address has an ID that is still to be handed out is accepted.
The checker makes no claim about it and the actor's methods that advance
`next_id` are not among the sources, so nothing is checked against it.

## 7. Module `Activation`

The miner's ProveCommitSectors3 and ProveReplicaUpdates3, composed with
the verified registry and the power actor. The miner's code is not among
the sources; the operation is written from `spec.md` 4.1, which describes
one pipeline for sectors proven for the first time and for sectors
updated in place, and from the tests under `src/` that pin it. Where the two
disagree the tests are followed, and the disagreement is a finding.

### State

| Variable | Code |
|---|---|
| `allocations`, `claims`, `next_allocation_id`, `epoch`, `balance`, `ret` | the registry: the variables of `Verifreg`, which `Activation` instantiates (`Registry == INSTANCE Verifreg WITH ...`) |
| `sectors` | `SectorOnChainInfo` of the proven sectors, by sector number: expiration, unverified and verified space (`verify_weights`), `daily_fee`. A sector of `SectorExpirations` that is not in it is precommitted |
| `deadline_fee` | `deadline.daily_fee` |
| `expiration_queue` | `fee_deduction` of the partition's expiration queue, by quantized epoch |
| `st` | the power actor's `State`: the variable of `Power`, which `Activation` instantiates (`Ledger == INSTANCE Power WITH ...`) with the miner as its one miner actor and the cron idle (the other variables of `Power` are given their idle values) |
| `market` | the deals the market has taken from `SectorContentChanged`, with their sectors |
| `result` | the return value of the last call, with its method and the sectors it was asked for |

A piece is its size, its data, the allocation it names (or none) and the
payloads it notifies; a manifest of either method is a sector number, its
pieces, and whether it is well formed and its proof verifies.

### Actions

`ProveCommitSectors3(sector_activations, require_activation_success)` and
`ProveReplicaUpdates3(sector_updates, require_activation_success)` are
`ActivateSectors` for their method: the whole message, in the order of
`spec.md` 4.1 and of the calls `replica_update3_test.rs` expects:

1. `ValidationCode`: the manifest, the proof, the capacity, and the
   sector one the method is for: precommitted and not proven for a
   commit, proven and empty for an update. `Surviving` are the manifests
   that pass.
2. `ClaimGroups`: one group per surviving sector, also for a sector
   without allocations, in the order of the batch.
3. `Registry!ClaimAllocations(Miner, groups, require_activation_success)`:
   the registry's own action, a conjunct of the miner's step.
4. `ActivationResults`: a sector that passed validation and whose group
   the registry accepted is activated, the others carry IllegalArgument.
5. `WithActivated`: the space and the fee of each activated sector
   (`Updated`, of what the sector was before, `Prior`); `FeeDelta` moves
   the deadline's fee and the bucket of the expiration queue;
   `Ledger!UpdateClaimedPower(Miner, PowerDelta(method, activated))`, the
   power actor's own action, adds the raw power of the sectors a commit
   proved and nine times the verified space to the miner's claim.
6. The market takes the deals of `Notifications` when it accepts; when it
   aborts or rejects only the deals are missing.

`MustAbort` is the other disjunct: success is required and a sector fails
validation or claim, or the registry aborts the call (a repeated claim).
An aborting message changes `result` and nothing else.

Between the miner's messages a client allocates (`Allocate`, the receiver
hook), anybody sweeps expired allocations or claims (`SweepAllocations`,
`SweepClaims`), and the clock advances (`Tick`).

The fee follows the two tests that pin it: a sector that has a fee keeps
it in proportion to its power (`update_batch`: ten times for verified
data, whatever the circulating supply), a sector onboarded without a fee
takes the fee of its power (`update_fee`), and so does a sector that is
proven. `REFERENCE_FEE` is the fee of a sector full of verified data at
the supply of the model.

A sector that fails carries IllegalArgument whatever the reason; the
properties tell OK from not OK and nothing finer.

### Run `activation_updates`

`MCActivation`, `Activation_updates.cfg`: 45,750 states, depth 13.

| Bound | Value | Why it is enough |
|---|---|---|
| sectors | 1 (expires at 2, precommitted) and 2 (expires at 4, proven without data when the supply was zero, so without a fee) | a batch with one dropped and one activated sector, two sectors naming one allocation, two buckets of the queue, both branches of the fee: sector 1 gets its fee when it is proven and has it scaled when it is updated |
| `SECTOR_SIZE` | 2 | a piece fills a sector or half of it; three half pieces do not fit |
| `QUANT` | 2 | the sectors expire in different buckets |
| `MaxEpoch` | 3 | an allocation made at 0 expires, a claim made at 0 is swept at 3, while sector 2 lives |
| terms | minimum 1, maximum 2, expiration at most 2 epochs ahead | sector 1 can claim at epochs 0 and 1, sector 2 only at epoch 2: a claim refused for its term is one Tick from one accepted |
| `MaxId` | 2 | allocations 1 and 2, for the miner or for another provider |
| `CONSENSUS_MINER_MIN_POWER` | 4 | the raw power of the two sectors: the miner starts below the minimum and reaches it when sector 1 is proven, and its power counts for the network from then on |
| `ActivationBatches` | 4 | sector 1 without pieces (as `replica_update3_test.rs` proves its sectors); with a piece and a deal that fill it; with allocation 1; and a batch that names sector 2, which is proven, before sector 1 |
| `UpdateBatches` | 8 | unverified data; no pieces; allocation and deal in both sectors; one allocation in two sectors; one allocation twice in a sector; a refused manifest; a refused proof; pieces beyond the capacity |

Deadlock is checked: the miner can always send a batch.

### Properties

* `TypeOK`: the shape of the miner's state, and with it that no sector
  holds more than its capacity.
* `FeesAddUp`: the deadline's fee and every bucket of the expiration queue
  are the sums of their sectors' fees.
* `PowerIsTheSectors`: the claim the power actor holds for the miner
  (raw and quality-adjusted) and the network's quality-adjusted power are
  the power of the miner's proven sectors. The claim is read the way
  another actor reads it, through `MinerPower` (`Ledger!MinerPowerReturn`). The miner sends deltas and the power
  actor keeps sums, so one wrong delta is never corrected.
* `VerifiedSpaceIsClaimed`: for a sector that has not expired, the verified
  space the miner counts is the size of the claims the registry holds for
  it, and the registry holds none for a sector that is not proven. It takes the messages of three actors to break: a client allocates,
  the miner claims for a sector that outlives the term, the clock runs, a
  sweep removes the claim.
* `ResultMatchesEffects` (action property): what a message returns is what
  it did, sector by sector, and an aborted message did nothing. A sector
  with the code OK was precommitted (for a commit) or proven and empty
  (for an update); every other sector is as it was, proven or not.

### Finding

`activation_failed_claim` (`Activation_step6.cfg`) checks
`FailedClaimCountsAsUnverified`, the parenthesis of `spec.md` 4.1 step 6:
outside all-or-nothing mode the pieces of a failed claim still occupy the
sector as unverified data. TLC finds the first message that names an
allocation the registry does not hold: the sector is dropped, as
`invalid_claim_dropped` expects (IllegalArgument, weights 0 and 0).

### Choices where the sources leave room

* The tests prove their sectors with ProveCommitSectors3 and look at the
  update only. The commit is modelled as the same pipeline because
  `spec.md` 4.1 describes it as one operation; what is particular to it
  (the sector is new, it brings raw power, it has no fee to scale) is in
  `Prior`, `ValidationCode` and `PowerDelta`. Precommitting, and a
  precommit that expires before it is proven, are left out.
* The refusal of a manifest whose pieces exceed the capacity is from
  `spec.md` 4.1 step 1. The tests show pieces that fill a sector exactly
  and none that exceed it.
* `require_notification_success` is left out. `spec.md` 4.1 (step 5) and 7 say a
  notification failure never escalates; the tests set the flag only where
  the market accepts, and refer to a file that is not among the sources
  for the calls that require success.
* The fee formula of `spec.md` 8 (occupied bytes, verified ten times)
  gives an empty sector no fee; `update_batch` expects a sector full of
  unverified data to keep the fee it had when empty. The model follows
  the test: the fee is proportional to the quality-adjusted power
  `SECTOR_SIZE + 9 * verified_space`. For a full sector the two agree.

## 8. Module `Verifiers`

The part of the verified registry that decides who has datacap. The root
key gives verifiers an allowance, a verifier turns allowance into the
datacap of a client, and the client sends datacap to the registry to make
allocations. The actor's code is not among the sources: the three methods
are written from the tests of the modules `verifiers` and `clients` of
`verifreg_actor_test.rs`, and the map names their lines. `spec.md` does
not speak of verifiers.

### State

The six variables of `Verifreg`, on which the module instantiates it
(`Registry == INSTANCE Verifreg WITH Clients <- ActorIDs, ...`), and

| Variable | Code |
|---|---|
| `verifiers` | the `verifiers` map of the state: ID address to the allowance left |
| `datacap` | the balance of each actor at the datacap actor |
| `granted` | history: the sum of the allowances the root key gave |
| `minted` | history: the datacap the verifiers gave each actor |

Addresses are ID addresses (`Root`, `Accounts`) and key addresses; the
constant `Resolution` gives the ID of the key addresses that have one.
`Resolve` is `resolve_to_actor_id`, not the identity: in the run one key
names the root key, one names an account, one names nobody.

### Actions

| Action | Code |
|---|---|
| `AddVerifier` | forbidden to all but the root key; refuses an allowance below the minimum, an address that does not resolve, the root key and an actor that holds datacap; otherwise puts the allowance, in the place of one the verifier had |
| `RemoveVerifier` | forbidden to all but the root key; refuses an address that is no verifier's |
| `AddVerifiedClient` | `ClientCode` gives the exit code; on success the verifier's allowance goes down by `NewVerifierCap` and the datacap actor mints to the client |
| `Allocate` | the client's transfer to the registry: `Registry!UniversalReceiverHook` with an amount the client has; what the registry keeps leaves the client's balance, an aborted hook takes nothing |
| `CallHook` | an actor calls the hook itself: the caller is not the datacap actor, no tokens moved |
| `Claim` | `Registry!ClaimAllocations`: the datacap of what is claimed is burnt |
| `SweepAllocations` | `Registry!RemoveExpiredAllocations`: what is recovered is transferred back to the client |
| `Tick` | the clock |

The tests fix each rejection of AddVerifiedClient by itself, and so not
the order of the checks when two apply; `ClientCode` takes the order
parameters, caller, state. The properties do not tell the codes of two
rejections apart.

### Run `verifiers_datacap`

| Bound | Value | Why it is enough |
|---|---|---|
| `Accounts` | 2 | one can be verifier and the other client, and each can change roles |
| `KeyAddresses` | 3 | a key of the root key, a key of an account, a key of nobody |
| `Allowances` | 0, 1, 2 | below the minimum, the minimum, and twice that: a verifier can give all or a part |
| `MaxGranted` | 4 | the root key gives allowances three or four times: a verifier is added, removed, added again |
| `HookPayloads` | amounts 1 and 2 for a request of size 1 | a transfer that matches and one the hook refuses |
| `MaxId`, `MaxEpoch` | 2, 2 | two allocations; one can expire (at epoch 1) and be swept |

72,902 distinct states. Within them claims are made, a verifier
is left with allowance zero, a verifier is removed, and a sweep returns
datacap.

### Properties

* `TypeOK`: the shape of the state; its content is that no allowance goes
  below zero, which is the cap check of AddVerifiedClient.
* `DatacapIsGranted`: the datacap of the clients, the balance of the
  registry and the allowances left are together at most what the root key
  granted. It relates four variables over the steps of five kinds of
  actors.
* `ClientSpaceIsMinted`: what an actor holds as datacap, as allocations
  and as claims made of its allocations is together at most what the
  verifiers minted to it. It follows the datacap of each client from the
  mint through the hook to the claim or the sweep: the hook is the second
  half of a transfer, and were it to act for a caller that made none, or
  a sweep to return datacap to somebody else, an actor would have
  verified space nobody gave it. Where `DatacapBacksAllocations` of
  `Verifreg` counts what the registry holds, this counts what each client
  was given.
* `RootHoldsNoRole`: the root key is no verifier and has no datacap, under
  whatever address it is named.
* `VerifierDatacapIsRefund` (action property): an actor holds no datacap
  in the step that makes it a verifier, and the datacap of a verifier
  grows only in a step of RemoveExpiredAllocations. It is what the two
  rejections of `add_verifier_rejects_client` and
  `rejects_verifier_as_client` amount to over time.

### A verifier with datacap

AddVerifier refuses a client (an actor with datacap) and AddVerifiedClient
refuses a verifier, but each looks at the moment of the call. A client
that put all its datacap into an allocation has a balance of zero and is
accepted as a verifier; when the allocation expires and is swept, the
datacap comes back and the actor is verifier and client at once
(AddVerifier, AddVerifiedClient, the hook, AddVerifier, a tick,
RemoveExpiredAllocations). No source says that the roles stay apart, so
the state is not checked against; `VerifierDatacapIsRefund` checks that
this refund is the only way into it.

## 9. Not modelled

* The smoothed estimates and the ramp parameters returned by
  `CurrentTotalPower`: numeric filters, no control depends on them.
* Of the verified registry: the restriction of the callers of the
  unexported method numbers to built-in actors, the events, and a mint or
  a transfer the datacap actor refuses (the tests expect each to succeed).
* Serialisation, HAMT/AMT layout, exit codes' wording, logging.
* Gas and message value transfer.
* A send of the multisig actor that fails after `check_available` has
  passed.
* The multisig actor's `Cancel`, `SwapSigner` and
  `ChangeNumApprovalsThreshold`, the constructor's lock, and what a
  transaction sends (destination, method, parameters).
* The init actor's methods (`Exec`, `Exec4`): not among the sources.
* Of the miner: everything but the two activation messages. Precommits
  and their expiry, the reward and pledge queries of an activation, a
  circulating supply that changes between messages, window PoSt, faults
  and the expiry of sectors have no source here and no description in
  `spec.md`.
* The test VM (`test_vm_test.rs`): a harness that executes messages with
  checkpoint and rollback. It holds no protocol logic of its own; the
  atomicity it provides is what `Power` models with `checkpoint` and
  `Activation` with the aborting disjunct of a message.
* The components listed as `not_modelled` in `PROJECT.json`, with the reason
  for each.
