------------------------------- MODULE Power -------------------------------
(***************************************************************************)
(* The storage power actor (actors/power/src/lib.rs).                      *)
(*                                                                         *)
(* The actor keeps one power claim per miner, the network totals derived   *)
(* from the claims, the total pledge, the values frozen for the running    *)
(* epoch, and a queue of cron events that miners enrol and that the        *)
(* end-of-epoch tick hands back to them.                                   *)
(*                                                                         *)
(* Messages are executed one at a time, and a message is atomic: when it   *)
(* aborts, nothing it did persists.  The handlers that make no cross-actor *)
(* call are therefore one step each.  OnEpochTickEnd calls other actors in *)
(* the middle of its work: the reward actor twice, and every miner with a  *)
(* due event.  A miner runs inside that call and may call back into this   *)
(* actor before it returns, so the tick is modelled as several steps with  *)
(* its local variables in  tick , and the state at its start is kept in    *)
(* checkpoint  so that an abort can discard all of it.                     *)
(*                                                                         *)
(* state.rs and policy.rs are not part of the sources at hand; the         *)
(* operators that stand for their functions are marked as such.            *)
(***************************************************************************)
EXTENDS Integers, Sequences, FiniteSets, SequencesExt

CONSTANTS
  Miners,       \* ID addresses the init actor assigns to new miner actors
  ProofTypes,   \* window PoSt proof types a miner can be created with
  MinPower,     \* [ProofTypes -> Nat], policy: consensus_miner_min_power
  CONSENSUS_MINER_MIN_MINERS,
                \* miners above the minimum needed before the minimum counts
  Payloads,     \* opaque callback payloads of cron events
  PowerDeltas,  \* <<raw_byte_delta, quality_adjusted_delta>> pairs of
                \* UpdateClaimedPower
  PledgeDeltas, \* pledge_delta values of UpdatePledgeTotal
  MaxEpoch,     \* bound: the clock stops advancing here
  MaxPower,     \* bound: largest raw and quality-adjusted power of a claim
  MaxPledge     \* bound: largest total pledge

ASSUME /\ MinPower \in [ProofTypes -> Nat]
       /\ CONSENSUS_MINER_MIN_MINERS \in Nat
       /\ PowerDeltas \subseteq Int \X Int
       /\ PledgeDeltas \subseteq Int
       /\ MaxEpoch \in Nat /\ MaxPower \in Nat /\ MaxPledge \in Nat

VARIABLES
  st,          \* the actor's State
  epoch,       \* rt.curr_epoch()
  created,     \* the actors of type Miner (created through the init actor)
  tick,        \* locals of the running OnEpochTickEnd
  checkpoint,  \* <<>>, or <<what the running tick discards if it aborts>>
  enrolled,    \* history: every cron event a committed message enrolled
  attempted,   \* history: bag of the cron events sent to their miner
  frozen       \* history: the miners whose failed callback a tick committed

vars == <<st, epoch, created, tick, checkpoint, enrolled, attempted, frozen>>

Epochs == 0 .. MaxEpoch

CronEvents == [miner_addr : Miners, callback_payload : Payloads]

-----------------------------------------------------------------------------
(* State and its helpers (state.rs)                                        *)

\* State::new: no claims, no events, all totals zero.
NewState ==
  [ total_raw_byte_power         |-> 0,
    total_bytes_committed        |-> 0,
    total_quality_adj_power      |-> 0,
    total_qa_bytes_committed     |-> 0,
    total_pledge_collateral      |-> 0,
    this_epoch_raw_byte_power    |-> 0,
    this_epoch_quality_adj_power |-> 0,
    this_epoch_pledge_collateral |-> 0,
    miner_count                  |-> 0,
    miner_above_min_power_count  |-> 0,
    first_cron_epoch             |-> 0,
    cron_event_queue             |-> [e \in Epochs |-> <<>>],
    claims                       |-> [m \in {} |-> m] ]

HasClaim(s, miner) == miner \in DOMAIN s.claims

\* A claim counts towards the consensus totals when its raw power has
\* reached the minimum of its proof type.
AboveMin(claim) ==
  claim.raw_byte_power >= MinPower[claim.window_post_proof_type]

CountedPower(claim, field) == IF AboveMin(claim) THEN claim[field] ELSE 0

SetClaim(s, miner, claim) ==
  [s EXCEPT !.claims =
     [m \in DOMAIN @ \cup {miner} |-> IF m = miner THEN claim ELSE @[m]]]

MovedClaim(claim, power, qa_power) ==
  [claim EXCEPT !.raw_byte_power = @ + power,
                !.quality_adj_power = @ + qa_power]

\* add_to_claim returns an error: no claim, or a negative result.
AddToClaimFails(s, miner, power, qa_power) ==
  \/ ~HasClaim(s, miner)
  \/ MovedClaim(s.claims[miner], power, qa_power).raw_byte_power < 0
  \/ MovedClaim(s.claims[miner], power, qa_power).quality_adj_power < 0

\* add_to_claim: the committed totals move by the delta; the consensus
\* totals and the count move by what the claim counted for before and
\* counts for now (it may cross the minimum in either direction).
AddToClaim(s, miner, power, qa_power) ==
  LET old == s.claims[miner]
      new == MovedClaim(old, power, qa_power)
      Moved(field) == CountedPower(new, field) - CountedPower(old, field)
  IN [SetClaim(s, miner, new) EXCEPT
        !.total_bytes_committed       = @ + power,
        !.total_qa_bytes_committed    = @ + qa_power,
        !.total_raw_byte_power        = @ + Moved("raw_byte_power"),
        !.total_quality_adj_power     = @ + Moved("quality_adj_power"),
        !.miner_above_min_power_count =
            @ + (IF AboveMin(new) THEN 1 ELSE 0) - (IF AboveMin(old) THEN 1 ELSE 0)]

\* delete_claim: nothing to do without a claim; otherwise the claim's
\* power is subtracted and the claim removed.
DeleteClaim(s, miner) ==
  IF ~HasClaim(s, miner) THEN s
  ELSE LET claim == s.claims[miner]
           zeroed == AddToClaim(s, miner, -claim.raw_byte_power,
                                -claim.quality_adj_power)
       IN [zeroed EXCEPT !.claims = Restrict(@, DOMAIN @ \ {miner})]

\* update_stats_for_new_miner: a miner whose proof type has no minimum
\* is above it from the start.
UpdateStatsForNewMiner(s, proof) ==
  IF MinPower[proof] > 0 THEN s
  ELSE [s EXCEPT !.miner_above_min_power_count = @ + 1]

\* current_total_power: until enough miners are above the minimum, all
\* committed power counts.
CurrentTotalPower(s) ==
  IF s.miner_above_min_power_count < CONSENSUS_MINER_MIN_MINERS
  THEN [raw |-> s.total_bytes_committed, qa |-> s.total_qa_bytes_committed]
  ELSE [raw |-> s.total_raw_byte_power, qa |-> s.total_quality_adj_power]

\* miner_nominal_power_meets_consensus_minimum: a claim at or above the
\* minimum always does; below it, any power does while too few miners are
\* above the minimum.
MinerNominalPowerMeetsConsensusMinimum(s, miner) ==
  \/ AboveMin(s.claims[miner])
  \/ /\ s.miner_above_min_power_count < CONSENSUS_MINER_MIN_MINERS
     /\ s.claims[miner].raw_byte_power > 0

\* append_cron_event: an event in the past moves first_cron_epoch back so
\* that the next tick finds it.
AppendCronEvent(s, event_epoch, event) ==
  [s EXCEPT !.first_cron_epoch = IF event_epoch < @ THEN event_epoch ELSE @,
            !.cron_event_queue[event_epoch] = Append(@, event)]

-----------------------------------------------------------------------------
(* Messages                                                                *)

IdleTick ==
  [pc |-> "idle", cron_events |-> <<>>, failed_miner_crons |-> <<>>,
   nested |-> FALSE]

\* The clock of the model stops at MaxEpoch; ticks keep running there.
NextEpoch == IF epoch < MaxEpoch THEN epoch + 1 ELSE epoch

\* The miner whose OnDeferredCronEvent is executing, if any.
Running ==
  IF tick.pc = "callbacks" /\ tick.cron_events # <<>>
  THEN {Head(tick.cron_events).miner_addr} ELSE {}

\* validate_immediate_caller_type(Miner): the caller is a miner actor,
\* sending a message of its own or calling from its cron callback.
MinerCalls(miner) ==
  /\ miner \in created
  /\ tick.pc = "idle" \/ miner \in Running

\* A call from inside a callback is remembered: it is discarded with the
\* callback if the callback fails.
Called == tick' = [tick EXCEPT !.nested = @ \/ tick.pc = "callbacks"]

\* Constructor.
Init ==
  /\ st = NewState
  /\ epoch = 0
  /\ created = {}
  /\ tick = IdleTick
  /\ checkpoint = <<>>
  /\ enrolled = {}
  /\ attempted = EmptyBag
  /\ frozen = {}

\* The transaction of create_miner: the miner gets an empty claim and is
\* counted.
WithNewMiner(s, miner, proof) ==
  UpdateStatsForNewMiner(
    [SetClaim(s, miner, [window_post_proof_type |-> proof, raw_byte_power |-> 0,
                         quality_adj_power |-> 0])
     EXCEPT !.miner_count = @ + 1], proof)

\* CreateMiner: the init actor creates the miner actor and returns its new
\* ID address (the message aborts if it cannot).
CreateMiner(miner, proof) ==
  /\ tick.pc = "idle"
  /\ miner \in Miners \ created
  /\ created' = created \cup {miner}
  /\ st' = WithNewMiner(st, miner, proof)
  /\ UNCHANGED <<epoch, tick, checkpoint, enrolled, attempted, frozen>>

UpdateClaimedPowerRefreshes(miner, delta) ==
  /\ MinerCalls(miner)
  /\ ~AddToClaimFails(st, miner, delta[1], delta[2])
  /\ LET s == AddToClaim(st, miner, delta[1], delta[2])
     IN /\ s.claims[miner].raw_byte_power <= MaxPower
        /\ s.claims[miner].quality_adj_power <= MaxPower
        /\ st' = [s EXCEPT !.this_epoch_raw_byte_power = CurrentTotalPower(s).raw]
  /\ Called
  /\ UNCHANGED <<epoch, created, checkpoint, enrolled, attempted, frozen>>

\* UpdateClaimedPower: adds the deltas to the calling miner's claim.
UpdateClaimedPower(miner, delta) ==
  /\ MinerCalls(miner)
  /\ ~AddToClaimFails(st, miner, delta[1], delta[2])
  /\ st' = AddToClaim(st, miner, delta[1], delta[2])
  /\ st'.claims[miner].raw_byte_power <= MaxPower
  /\ st'.claims[miner].quality_adj_power <= MaxPower
  /\ Called
  /\ UNCHANGED <<epoch, created, checkpoint, enrolled, attempted, frozen>>

\* EnrollCronEvent: queues a callback to the calling miner at event_epoch,
\* which may lie in the past but not below zero.  The miner need not have
\* a claim.  (Payloads are opaque to the actor; the model gives every event
\* of a miner a payload of its own so that events can be told apart.)
EnrollCronEvent(miner, event_epoch, payload) ==
  LET miner_event == [miner_addr |-> miner, callback_payload |-> payload]
  IN /\ MinerCalls(miner)
     /\ event_epoch >= 0
     /\ miner_event \notin enrolled
     /\ st' = AppendCronEvent(st, event_epoch, miner_event)
     /\ enrolled' = enrolled \cup {miner_event}
     /\ Called
     /\ UNCHANGED <<epoch, created, checkpoint, attempted, frozen>>

UpdatePledgeTotalUnchecked(miner, pledge_delta) ==
  /\ MinerCalls(miner)
  /\ HasClaim(st, miner)
  /\ st.total_pledge_collateral + pledge_delta <= MaxPledge
  /\ st' = [st EXCEPT !.total_pledge_collateral = @ + pledge_delta]
  /\ Called
  /\ UNCHANGED <<epoch, created, checkpoint, enrolled, attempted, frozen>>

\* UpdatePledgeTotal: only for a miner with a claim; a delta that would
\* make the total negative aborts the message.
UpdatePledgeTotal(miner, pledge_delta) ==
  /\ MinerCalls(miner)
  /\ HasClaim(st, miner)
  /\ st.total_pledge_collateral + pledge_delta >= 0
  /\ st.total_pledge_collateral + pledge_delta <= MaxPledge
  /\ st' = [st EXCEPT !.total_pledge_collateral = @ + pledge_delta]
  /\ Called
  /\ UNCHANGED <<epoch, created, checkpoint, enrolled, attempted, frozen>>

-----------------------------------------------------------------------------
(* Queries: what the read-only methods return in the current state.  Any   *)
(* actor may call them at any time, a miner from its cron callback too.    *)

CurrentTotalPowerReturn ==
  [raw_byte_power    |-> st.this_epoch_raw_byte_power,
   quality_adj_power |-> st.this_epoch_quality_adj_power,
   pledge_collateral |-> st.this_epoch_pledge_collateral]

NetworkRawPowerReturn == st.this_epoch_raw_byte_power

MinerRawPowerReturnWithoutFloor(miner) ==
  [raw_byte_power |-> st.claims[miner].raw_byte_power,
   meets_consensus_minimum |-> AboveMin(st.claims[miner])]

\* MinerRawPower: fails for a miner without a claim.
MinerRawPowerReturn(miner) ==
  [raw_byte_power |-> st.claims[miner].raw_byte_power,
   meets_consensus_minimum |-> MinerNominalPowerMeetsConsensusMinimum(st, miner)]

MinerCountReturn == st.miner_count

MinerConsensusCountReturn == st.miner_above_min_power_count

\* MinerPower: "miner not found" for a miner without a claim.
MinerPowerReturn(miner) ==
  [raw_byte_power    |-> st.claims[miner].raw_byte_power,
   quality_adj_power |-> st.claims[miner].quality_adj_power]

-----------------------------------------------------------------------------
(* OnEpochTickEnd                                                          *)

DueEpochsExclusive == st.first_cron_epoch .. (epoch - 1)

\* The epochs the tick scans: from the first that may hold events up to
\* and including the current one.
DueEpochs == st.first_cron_epoch .. epoch

\* The events of the scanned epochs, in queue order.
DueEvents ==
  FlattenSeq([i \in 1 .. Cardinality(DueEpochs) |->
                st.cron_event_queue[st.first_cron_epoch + i - 1]])

AllDueEvents == DueEvents

\* The events the tick sends: those of the miners that hold a claim.
EventsOfClaimants == SelectSeq(DueEvents, LAMBDA evt : HasClaim(st, evt.miner_addr))

QueueKept == st.cron_event_queue

\* The queue without the scanned epochs.
ScannedQueue ==
  [e \in Epochs |-> IF e \in DueEpochs THEN <<>> ELSE st.cron_event_queue[e]]

CursorSkipsAhead == epoch + 2

\* Where the next scan starts.
CursorAfterScan == epoch + 1

\* The tick starts: the reward actor answers ThisEpochReward, and the first
\* transaction of process_deferred_cron_events takes the due events out of
\* the queue.  Events of miners without a claim are dropped on the way.
ProcessDeferredCronEvents ==
  /\ tick.pc = "idle"
  /\ checkpoint' = <<[st |-> st, enrolled |-> enrolled, attempted |-> attempted]>>
  /\ tick' = [IdleTick EXCEPT !.pc = "callbacks", !.cron_events = EventsOfClaimants]
  /\ st' = [st EXCEPT !.cron_event_queue = ScannedQueue,
                      !.first_cron_epoch = CursorAfterScan]
  /\ UNCHANGED <<epoch, created, enrolled, attempted, frozen>>

\* The reward actor fails ThisEpochReward: the tick aborts before it did
\* anything, and the epoch passes.
RewardQueryFails ==
  /\ tick.pc = "idle"
  /\ epoch < MaxEpoch
  /\ epoch' = epoch + 1
  /\ UNCHANGED <<st, created, tick, checkpoint, enrolled, attempted, frozen>>

\* The miner's OnDeferredCronEvent returns; what it did in between (the
\* calls it made to this actor) stands.
CallbackReturns ==
  /\ tick.pc = "callbacks" /\ tick.cron_events # <<>>
  /\ attempted' = attempted (+) SetToBag({Head(tick.cron_events)})
  /\ tick' = [tick EXCEPT !.cron_events = Tail(@), !.nested = FALSE]
  /\ UNCHANGED <<st, epoch, created, checkpoint, enrolled, frozen>>

\* The miner's OnDeferredCronEvent fails: what it did is discarded (so it
\* is a callback that called nothing), and the miner is noted as failed.
CallbackFails ==
  /\ tick.pc = "callbacks" /\ tick.cron_events # <<>>
  /\ ~tick.nested
  /\ attempted' = attempted (+) SetToBag({Head(tick.cron_events)})
  /\ tick' = [tick EXCEPT
       !.cron_events = Tail(@),
       !.failed_miner_crons = Append(@, Head(tick.cron_events).miner_addr)]
  /\ UNCHANGED <<st, epoch, created, checkpoint, enrolled, frozen>>

RemoveFailedKeepsPower(s, failed_miner_crons) ==
  FoldLeft(LAMBDA acc, miner :
             [acc EXCEPT !.claims = Restrict(@, DOMAIN @ \ {miner}),
                         !.miner_count = @ - 1],
           s, failed_miner_crons)

\* The second transaction of process_deferred_cron_events: every miner on
\* the failed list loses its claim, and is counted out unless delete_claim
\* reports an error (it reports none for a miner without a claim).
RemoveFailed(s, failed_miner_crons) ==
  FoldLeft(LAMBDA acc, miner :
             [DeleteClaim(acc, miner) EXCEPT !.miner_count = @ - 1],
           s, failed_miner_crons)

\* The values CurrentTotalPower returns during the next epoch.
Freeze(s) ==
  [s EXCEPT !.this_epoch_pledge_collateral = s.total_pledge_collateral,
            !.this_epoch_quality_adj_power = CurrentTotalPower(s).qa,
            !.this_epoch_raw_byte_power    = CurrentTotalPower(s).raw]

FinishedTickFreezesFirst == RemoveFailed(Freeze(st), tick.failed_miner_crons)

FinishedTickKeepsClaims ==
  Freeze([st EXCEPT !.miner_count = @ - Len(tick.failed_miner_crons)])

\* The state the tick leaves: failed miners removed, then totals frozen.
FinishedTick == Freeze(RemoveFailed(st, tick.failed_miner_crons))

\* All callbacks are done; the tick removes the failed miners, freezes the
\* totals, reports the raw power to the reward actor and commits.
OnEpochTickEnd ==
  /\ tick.pc = "callbacks" /\ tick.cron_events = <<>>
  /\ st' = FinishedTick
  /\ epoch' = NextEpoch
  /\ tick' = IdleTick
  /\ checkpoint' = <<>>
  /\ frozen' = frozen \cup ToSet(tick.failed_miner_crons)
  /\ UNCHANGED <<created, enrolled, attempted>>

\* The reward actor fails UpdateNetworkKPI: the whole tick aborts, and
\* with it everything the miners did in their callbacks.
UpdateKpiFails ==
  /\ tick.pc = "callbacks" /\ tick.cron_events = <<>>
  /\ st' = checkpoint[1].st
  /\ enrolled' = checkpoint[1].enrolled
  /\ attempted' = checkpoint[1].attempted
  /\ epoch' = NextEpoch
  /\ tick' = IdleTick
  /\ checkpoint' = <<>>
  /\ UNCHANGED <<created, frozen>>

-----------------------------------------------------------------------------

Next ==
  \/ \E m \in Miners, p \in ProofTypes : CreateMiner(m, p)
  \/ \E m \in Miners, d \in PowerDeltas : UpdateClaimedPower(m, d)
  \/ \E m \in Miners, e \in -1 .. MaxEpoch, p \in Payloads : EnrollCronEvent(m, e, p)
  \/ \E m \in Miners, d \in PledgeDeltas : UpdatePledgeTotal(m, d)
  \/ ProcessDeferredCronEvents
  \/ RewardQueryFails
  \/ CallbackReturns
  \/ CallbackFails
  \/ OnEpochTickEnd
  \/ UpdateKpiFails

Spec == Init /\ [][Next]_vars

\* Cron invokes the tick at every epoch and a call to a miner returns or
\* fails; the reward actor does not refuse UpdateNetworkKPI for ever.
Fairness ==
  /\ WF_vars(ProcessDeferredCronEvents)
  /\ WF_vars(CallbackReturns \/ CallbackFails)
  /\ SF_vars(OnEpochTickEnd)

FairSpec == Spec /\ Fairness

-----------------------------------------------------------------------------
(* Properties                                                              *)

Claims == [window_post_proof_type : ProofTypes,
           raw_byte_power : 0 .. MaxPower, quality_adj_power : 0 .. MaxPower]

States ==
  [ total_raw_byte_power         : Nat,
    total_bytes_committed        : Nat,
    total_quality_adj_power      : Nat,
    total_qa_bytes_committed     : Nat,
    total_pledge_collateral      : 0 .. MaxPledge,
    this_epoch_raw_byte_power    : Nat,
    this_epoch_quality_adj_power : Nat,
    this_epoch_pledge_collateral : 0 .. MaxPledge,
    miner_count                  : Int,
    miner_above_min_power_count  : Nat,
    first_cron_epoch             : 0 .. MaxEpoch + 1,
    cron_event_queue             : [Epochs -> Seq(CronEvents)],
    claims                       : UNION {[D -> Claims] : D \in SUBSET Miners} ]

\* The variables have the shape of the actor's state and of the tick's
\* locals.
TypeOK ==
  /\ st \in States
  /\ epoch \in Epochs
  /\ created \subseteq Miners
  /\ tick \in [pc : {"idle", "callbacks"}, cron_events : Seq(CronEvents),
               failed_miner_crons : Seq(Miners), nested : BOOLEAN]
  /\ checkpoint = <<>> <=> tick.pc = "idle"
  /\ enrolled \subseteq CronEvents
  /\ IsABag(attempted)
  /\ frozen \subseteq created

SumOver(field, counted) ==
  LET Part(m) == IF counted THEN CountedPower(st.claims[m], field)
                 ELSE st.claims[m][field]
  IN FoldSet(LAMBDA m, sum : sum + Part(m), 0, DOMAIN st.claims)

\* The totals are the sums over the claims table: the committed totals over
\* every claim, the consensus totals over the claims at or above the minimum
\* of their proof type.  It relates the running sums kept by create_miner,
\* update_claimed_power and the removal of failed miners in
\* process_deferred_cron_events to the table they summarise, across claims
\* crossing the minimum in both directions.
AggregatesMatchClaims ==
  /\ st.total_bytes_committed    = SumOver("raw_byte_power", FALSE)
  /\ st.total_qa_bytes_committed = SumOver("quality_adj_power", FALSE)
  /\ st.total_raw_byte_power     = SumOver("raw_byte_power", TRUE)
  /\ st.total_quality_adj_power  = SumOver("quality_adj_power", TRUE)

\* The two views of consensus power agree: the network's raw power (what
\* the next tick will freeze and report to the reward actor) is the raw
\* power of exactly the miners that MinerRawPower reports as meeting the
\* consensus minimum, and MinerConsensusCount counts the claims at or above
\* it.  It relates current_total_power's switch on
\* miner_above_min_power_count to the one in miner_raw_power.
EligiblePowerIsNetworkPower ==
  LET eligible == {m \in DOMAIN st.claims :
                     MinerRawPowerReturn(m).meets_consensus_minimum}
  IN /\ CurrentTotalPower(st).raw =
          FoldSet(LAMBDA m, sum : sum + MinerRawPowerReturn(m).raw_byte_power,
                  0, eligible)
     /\ MinerConsensusCountReturn =
          Cardinality({m \in DOMAIN st.claims : AboveMin(st.claims[m])})

\* No queued event lies behind first_cron_epoch: the scan of
\* process_deferred_cron_events starts there, so an event behind it would
\* never be handed to its miner.  It must survive enrolments in the past
\* (also from inside a callback, after the tick moved the cursor) and ticks
\* that abort.
NoEventBehindCursor ==
  \A e \in Epochs : st.cron_event_queue[e] # <<>> => e >= st.first_cron_epoch

\* An enrolled event is sent to its miner at most once by what commits:
\* process_deferred_cron_events removes what it scans, a failed callback is
\* not tried again, and an aborted tick takes back both the removal and the
\* sending.
AttemptedAtMostOnce ==
  \A evt \in BagToSet(attempted) : CopiesIn(evt, attempted) = 1

\* The values CurrentTotalPower, NetworkRawPower and the reward actor see
\* stay frozen while the messages of an epoch execute: only a tick that
\* commits changes them (lib.rs, doc comments of current_total_power and
\* network_raw_power).
FrozenDuringEpoch ==
  [][ \/ /\ CurrentTotalPowerReturn' = CurrentTotalPowerReturn
         /\ NetworkRawPowerReturn' = NetworkRawPowerReturn
      \/ tick.pc = "callbacks" /\ tick'.pc = "idle" ]_vars

\* What a committing tick freezes is the total power after the tick's own
\* work: the claims of the miners whose callback failed are already gone
\* from it, and what the callbacks changed is in it (on_epoch_tick_end runs
\* process_deferred_cron_events before it reads current_total_power).
FrozenPowerIsPowerAfterCron ==
  [][ OnEpochTickEnd
      => CurrentTotalPowerReturn' =
           [raw_byte_power    |-> CurrentTotalPower(st').raw,
            quality_adj_power |-> CurrentTotalPower(st').qa,
            pledge_collateral |-> st'.total_pledge_collateral] ]_vars

\* An event is never sent to a miner whose callback failed in an earlier
\* tick: the tick that saw the failure removed the miner's claim ("failures
\* ... will result in removal of miner power"), and the scan of
\* process_deferred_cron_events drops the events of a miner without one,
\* whenever they were enrolled.
FrozenMinerNotCalled ==
  \A i \in DOMAIN tick.cron_events : tick.cron_events[i].miner_addr \notin frozen

\* Every enrolled event is eventually sent to its miner by a tick that
\* commits, unless the miner has lost its claim: ticks that abort, and
\* enrolments behind the cursor, delay an event but do not lose it.
EnrolledEventIsAttempted ==
  \A evt \in CronEvents :
    (evt \in enrolled /\ tick.pc = "idle")
      ~> (tick.pc = "idle" /\
          (BagIn(evt, attempted) \/ ~HasClaim(st, evt.miner_addr)))

\* What has committed: during a tick, the state the tick started from.
Committed ==
  IF checkpoint = <<>>
  THEN [st |-> st, enrolled |-> enrolled, attempted |-> attempted]
  ELSE checkpoint[1]

\* The events of a queue, each with its epoch.
QueueEntries(queue) ==
  UNION {{[event |-> queue[e][i], epoch |-> e] : i \in DOMAIN queue[e]} : e \in Epochs}

Cron == INSTANCE DeferredCron
  WITH now <- epoch, holders <- DOMAIN Committed.st.claims,
       pending <- QueueEntries(Committed.st.cron_event_queue),
       sent <- BagToSet(Committed.attempted)

\* Seen from outside a message the actor is DeferredCron: OnEpochTickEnd,
\* which runs as two transactions with the miners' callbacks and their
\* calls back into the actor in between and a call to the reward actor
\* after them, is one step that takes exactly the due events out of the
\* queue and has sent exactly those of the miners that held a claim when it
\* started, none for the second time; when UpdateNetworkKPI fails it is a
\* step that did nothing.  No other message sends or removes an event.
DeferredCronSpec == Cron!Spec

\* MinerCount returns the number of miners that hold a claim: create_miner
\* adds a claim and counts one up, the removal of a failed miner in
\* process_deferred_cron_events deletes the claim and counts one down
\* (miner_count: "Returns the total number of miners created").
MinerCountIsClaimCount == MinerCountReturn = Cardinality(DOMAIN st.claims)

=============================================================================
