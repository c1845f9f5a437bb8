----------------------------- MODULE Activation -----------------------------
(***************************************************************************)
(* The miner's ProveCommitSectors3 and ProveReplicaUpdates3: a batch of    *)
(* precommitted sectors is proven, with or without data, and a batch of    *)
(* sectors proven without data receives data.  The miner validates each    *)
(* manifest, claims the verified allocations of the surviving sectors from *)
(* the verified registry in one call, activates the sectors whose claims   *)
(* were made, reports the power it gained to the power actor and notifies  *)
(* the market of the deals.                                                *)
(*                                                                         *)
(* The miner's code is not among the sources: the operation is written     *)
(* from spec.md 4.1, which describes it for both methods, and from the     *)
(* tests that pin the update                                               *)
(* (miner/tests/prove_replica_test.rs and                                  *)
(* integration_tests/src/tests/replica_update3_test.rs).  The verified     *)
(* registry is the module Verifreg and the power actor the module Power,   *)
(* instantiated on this module's variables: a step of the miner that       *)
(* commits contains a step ClaimAllocations of the registry and a step     *)
(* UpdateClaimedPower of the power actor, and the registry's clients and   *)
(* sweepers act between the miner's messages.  A message is atomic: one    *)
(* that aborts leaves every actor as it was.                               *)
(***************************************************************************)
EXTENDS Integers, Sequences, FiniteSets, SequencesExt

CONSTANTS
  Miner,               \* the miner actor, a provider
  Clients, Providers, Data,
  MINIMUM_VERIFIED_ALLOCATION_SIZE,
  MINIMUM_VERIFIED_ALLOCATION_TERM,
  MAXIMUM_VERIFIED_ALLOCATION_TERM,
  MAXIMUM_VERIFIED_ALLOCATION_EXPIRATION,
  AllocationRequests,  \* the allocation requests of the clients
  HookPayloads,        \* the transfers the registry's hook receives
  SectorExpirations,   \* sector number -> expiration of the precommitted sector
  OnboardingFees,      \* the sectors proven before the first message, without
                       \* data -> the daily fee each was onboarded with
  SECTOR_SIZE,         \* the capacity of a sector
  ProofType,           \* the miner's window PoSt proof type
  CONSENSUS_MINER_MIN_POWER,  \* the power actor's minimum for that type
  REFERENCE_FEE,       \* the daily fee of a sector full of verified data
  QUANT,               \* the unit of the partition's expiration queue
  ActivationBatches,   \* the sector_activations parameters of the miner
  UpdateBatches,       \* the sector_updates parameters of the miner
  MaxId,               \* bound: allocation ids handed out
  MaxEpoch             \* bound: the clock stops here

VARIABLES
  allocations, claims, next_allocation_id, epoch, balance, ret,  \* the registry
  sectors,           \* number of a proven sector -> SectorOnChainInfo
  deadline_fee,      \* deadline.daily_fee
  expiration_queue,  \* quantized epoch -> fee_deduction of the partition
  st,                \* the State of the power actor
  market,            \* the deals the market has activated, with their sector
  result             \* what the miner's last message returned

registry_vars == <<allocations, claims, next_allocation_id, epoch, balance, ret>>
miner_vars == <<sectors, deadline_fee, expiration_queue, st, market, result>>
vars == <<registry_vars, miner_vars>>

Registry == INSTANCE Verifreg
  WITH ClaimTerms <- {}, ClaimBatches <- {}, MaxBatch <- MaxId, MaxTerms <- 0

\* The power actor between two ticks of its cron, with the miner as the
\* one miner actor: of its methods the miner's messages call
\* UpdateClaimedPower.
Ledger == INSTANCE Power
  WITH Miners <- {Miner}, ProofTypes <- {ProofType},
       MinPower <- [proof \in {ProofType} |-> CONSENSUS_MINER_MIN_POWER],
       CONSENSUS_MINER_MIN_MINERS <- 1, Payloads <- {}, PowerDeltas <- {},
       PledgeDeltas <- {}, MaxPledge <- 0,
       MaxPower <- Cardinality(DOMAIN SectorExpirations) * 10 * SECTOR_SIZE,
       created <- {Miner}, checkpoint <- <<>>, enrolled <- {}, attempted <- <<>>,
       frozen <- {},
       tick <- [pc |-> "idle", cron_events |-> <<>>, failed_miner_crons |-> <<>>,
                nested |-> FALSE]

ASSUME /\ Miner \in Providers
       /\ DOMAIN OnboardingFees \subseteq DOMAIN SectorExpirations
       /\ \A manifests \in ActivationBatches \cup UpdateBatches :
            \A i, j \in DOMAIN manifests :
              manifests[i].sector = manifests[j].sector => i = j

OK == "OK"
USR_ILLEGAL_ARGUMENT == "USR_ILLEGAL_ARGUMENT"

SectorNumbers == DOMAIN SectorExpirations
NoAllocation == 0

Accepted == "accepted"
Rejected == "rejected"
Aborted == "aborted"
MarketAnswers == {Accepted, Rejected, Aborted}

-----------------------------------------------------------------------------
(* Sectors, fees and power                                                 *)

\* The sizes of the pieces that carry an allocation (TRUE) or none.
PieceSpace(pieces, verified) ==
  FoldLeft(LAMBDA sum, piece : sum + piece.size, 0,
           SelectSeq(pieces, LAMBDA piece : (piece.allocation_id # NoAllocation) = verified))

\* Verified space counts ten times.
QAPower(verified_space) == SECTOR_SIZE + 9 * verified_space

\* daily_proof_fee at the circulating supply of the model: a tenth of the
\* reference fee for a sector without verified data.
DailyFee(verified_space) ==
  (REFERENCE_FEE * QAPower(verified_space)) \div QAPower(SECTOR_SIZE)

QuantizeUp(e) == ((e + QUANT - 1) \div QUANT) * QUANT

\* A sector onboarded without data.
EmptySector(expiration, daily_fee) ==
  [expiration |-> expiration, unverified_space |-> 0, verified_space |-> 0,
   daily_fee |-> daily_fee]

IsEmpty(sector) == sector.unverified_space + sector.verified_space = 0

\* The sector with the pieces of an update.  Its fee grows with its
\* power, whatever the circulating supply has become; a sector onboarded
\* without a fee gets the fee of its power at today's supply.
Updated(sector, update) ==
  LET verified_space == PieceSpace(update.pieces, TRUE)
  IN [sector EXCEPT
        !.unverified_space = PieceSpace(update.pieces, FALSE),
        !.verified_space = verified_space,
        !.daily_fee = IF sector.daily_fee = 0 THEN DailyFee(verified_space)
                      ELSE (sector.daily_fee * QAPower(verified_space))
                             \div QAPower(sector.verified_space)]

-----------------------------------------------------------------------------
(* ProveCommitSectors3 and ProveReplicaUpdates3                            *)

ProveCommit == "ProveCommitSectors3"
ProveReplica == "ProveReplicaUpdates3"

\* What a sector is before the message: a precommitted sector has its
\* expiration, and neither data nor fee.
Prior(number) ==
  IF number \in DOMAIN sectors THEN sectors[number]
  ELSE EmptySector(SectorExpirations[number], 0)

ValidationCodeAnySize(method, manifest) ==
  IF /\ manifest.valid
     /\ manifest.proven
     /\ \/ method = ProveCommit /\ manifest.sector \notin DOMAIN sectors
        \/ method = ProveReplica /\ manifest.sector \in DOMAIN sectors
             /\ IsEmpty(sectors[manifest.sector])
    THEN OK ELSE USR_ILLEGAL_ARGUMENT

\* Steps 1 and 2: the manifest is well formed, its pieces fit the sector,
\* the proof verifies, and the sector is one the method is for: a
\* precommitted sector that is not proven yet, or a proven sector that
\* holds no data.
ValidationCode(method, manifest) ==
  IF /\ manifest.valid
     /\ manifest.proven
     /\ PieceSpace(manifest.pieces, TRUE) + PieceSpace(manifest.pieces, FALSE) <= SECTOR_SIZE
     /\ \/ method = ProveCommit /\ manifest.sector \notin DOMAIN sectors
        \/ method = ProveReplica /\ manifest.sector \in DOMAIN sectors
             /\ IsEmpty(sectors[manifest.sector])
    THEN OK ELSE USR_ILLEGAL_ARGUMENT

Surviving(method, manifests) ==
  SelectSeq(manifests, LAMBDA manifest : ValidationCode(method, manifest) = OK)

\* The claims of one sector, in the order of its pieces; a sector without
\* allocations has a group without claims.
ClaimGroup(manifest) ==
  LET verified == SelectSeq(manifest.pieces, LAMBDA piece : piece.allocation_id # NoAllocation)
  IN [sector |-> manifest.sector,
      expiry |-> Prior(manifest.sector).expiration,
      claims |-> [i \in DOMAIN verified |->
                    [client |-> verified[i].client,
                     allocation_id |-> verified[i].allocation_id,
                     data |-> verified[i].data,
                     size |-> verified[i].size]]]

ClaimGroups(surviving) == [i \in DOMAIN surviving |-> ClaimGroup(surviving[i])]

ActivationResultsIgnoreClaims(validation, claim_codes) == validation

\* The code of each sector of the batch: a sector that was refused, or
\* whose claims the registry refused, is dropped with IllegalArgument.
\* The registry answers for the surviving sectors, in their order.
ActivationResults(validation, claim_codes) ==
  [i \in DOMAIN validation |->
     IF /\ validation[i] = OK
        /\ claim_codes[Len(SelectSeq(SubSeq(validation, 1, i), LAMBDA code : code = OK))] = OK
       THEN OK ELSE USR_ILLEGAL_ARGUMENT]

\* The manifests that take effect.
Activated(manifests, activation_results) ==
  {manifests[i] : i \in {i \in DOMAIN manifests : activation_results[i] = OK}}

\* The notifications of one sector: one entry for each payload of each
\* piece, in the order of the pieces.
SectorChanges(manifest) ==
  [sector |-> manifest.sector,
   minimum_commitment_epoch |-> Prior(manifest.sector).expiration,
   added |-> FlattenSeq([i \in DOMAIN manifest.pieces |->
               [j \in DOMAIN manifest.pieces[i].notify |->
                  [data |-> manifest.pieces[i].data, size |-> manifest.pieces[i].size,
                   payload |-> manifest.pieces[i].notify[j]]]])]

\* The sectors activated that have something to notify, in the order of
\* the batch.
Notifications(manifests, activation_results) ==
  LET changes == [i \in DOMAIN manifests |-> SectorChanges(manifests[i])]
  IN SelectSeq(changes, LAMBDA change :
       /\ change.added # <<>>
       /\ \E manifest \in Activated(manifests, activation_results) :
            manifest.sector = change.sector)

\* The deals of the notifications, each with its sector.
Deals(notifications) ==
  UNION {{<<change.sector, added.payload>> : added \in ToSet(change.added)} :
           change \in ToSet(notifications)}

FeeDeltaOfNewFee(activated, bucket) ==
  FoldSet(LAMBDA manifest, sum : sum + Updated(Prior(manifest.sector), manifest).daily_fee,
          0, {manifest \in activated : QuantizeUp(Prior(manifest.sector).expiration) \in bucket})

\* Step 7: what the fees of the activated sectors that expire in one of
\* the buckets change by.
FeeDelta(activated, bucket) ==
  FoldSet(LAMBDA manifest, sum :
            sum + Updated(Prior(manifest.sector), manifest).daily_fee
                - Prior(manifest.sector).daily_fee,
          0, {manifest \in activated : QuantizeUp(Prior(manifest.sector).expiration) \in bucket})

PowerDeltaOfAllPieces(method, activated) ==
  LET raw == IF method = ProveCommit THEN Cardinality(activated) * SECTOR_SIZE ELSE 0
  IN <<raw, raw + FoldSet(LAMBDA manifest, sum :
                            sum + 9 * (PieceSpace(manifest.pieces, TRUE)
                                         + PieceSpace(manifest.pieces, FALSE)),
                          0, activated)>>

\* Step 8: the raw and the quality-adjusted power gained.  A sector that
\* is proven brings its raw power, one that is updated had it; verified
\* space adds nine times its size to the quality-adjusted power.
PowerDelta(method, activated) ==
  LET raw == IF method = ProveCommit THEN Cardinality(activated) * SECTOR_SIZE ELSE 0
  IN <<raw, raw + FoldSet(LAMBDA manifest, sum : sum + 9 * PieceSpace(manifest.pieces, TRUE),
                          0, activated)>>

\* What the call returns, with the sectors it was asked for.
Return(method, code, manifests, activation_results) ==
  [method |-> method, code |-> code,
   requested |-> [i \in DOMAIN manifests |-> manifests[i].sector],
   activation_results |-> activation_results]

\* Whether the message aborts: success is required and a sector fails,
\* or the registry aborts the claim call.
MustAbort(validation, staged, require_activation_success) ==
  \/ require_activation_success /\ \E i \in DOMAIN validation : validation[i] # OK
  \/ staged.clash
  \/ require_activation_success /\ Registry!FirstFailure(staged.codes) # OK

\* The sectors with the activated manifests applied.
WithActivated(activated) ==
  [number \in DOMAIN sectors \cup {manifest.sector : manifest \in activated} |->
     IF \E manifest \in activated : manifest.sector = number
       THEN Updated(Prior(number), CHOOSE manifest \in activated : manifest.sector = number)
       ELSE sectors[number]]

\* The message of either method.  The market answers the notification; a
\* market that aborts or rejects is tolerated: the sectors stay activated
\* and their claims made, and only the deals are not.
ActivateSectors(method, manifests, require_activation_success) ==
  LET validation == [i \in DOMAIN manifests |-> ValidationCode(method, manifests[i])]
      groups == ClaimGroups(Surviving(method, manifests))
      staged == Registry!ClaimsStaged(Miner, groups)
      activation_results == ActivationResults(validation, staged.codes)
      activated == Activated(manifests, activation_results)
      buckets == DOMAIN expiration_queue
  IN \/ /\ MustAbort(validation, staged, require_activation_success)
        /\ result' = Return(method, USR_ILLEGAL_ARGUMENT, <<>>, <<>>)
        /\ UNCHANGED <<registry_vars, sectors, deadline_fee, expiration_queue, st, market>>
     \/ /\ ~MustAbort(validation, staged, require_activation_success)
        /\ Registry!ClaimAllocations(Miner, groups, require_activation_success)
        /\ sectors' = WithActivated(activated)
        /\ deadline_fee' = deadline_fee + FeeDelta(activated, buckets)
        /\ expiration_queue' = [bucket \in buckets |->
                                  expiration_queue[bucket] + FeeDelta(activated, {bucket})]
        /\ Ledger!UpdateClaimedPower(Miner, PowerDelta(method, activated))
        /\ \E answer \in MarketAnswers :
             market' = IF answer = Accepted
                         THEN market \cup Deals(Notifications(manifests, activation_results))
                         ELSE market
        /\ result' = Return(method, OK, manifests, activation_results)

\* ProveCommitSectors3: precommitted sectors are proven, with or without
\* data.
ProveCommitSectors3(sector_activations, require_activation_success) ==
  ActivateSectors(ProveCommit, sector_activations, require_activation_success)

\* ProveReplicaUpdates3: sectors proven without data receive data.
ProveReplicaUpdates3(sector_updates, require_activation_success) ==
  ActivateSectors(ProveReplica, sector_updates, require_activation_success)

-----------------------------------------------------------------------------
(* The registry's other callers, and the clock                             *)

\* A client sends datacap with allocation requests.
Allocate(client, payload) ==
  /\ Registry!UniversalReceiverHook(TRUE, TRUE, client, payload.allocs,
                                    payload.extensions, payload.amount)
  /\ UNCHANGED miner_vars

\* Somebody sweeps the expired allocations of a client or the expired
\* claims of the miner.
SweepAllocations(client) ==
  /\ Registry!RemoveExpiredAllocations(client, <<>>)
  /\ UNCHANGED miner_vars

SweepClaims ==
  /\ Registry!RemoveExpiredClaims(Miner, <<>>)
  /\ UNCHANGED miner_vars

Tick ==
  /\ Registry!Tick
  /\ UNCHANGED miner_vars

\* Some sectors are proven, without data, and the others precommitted; the
\* deadline and the queue of the partition hold the fees of the proven
\* sectors, and the power actor the miner's claim with their power.
Init ==
  LET FeesIn(numbers) ==
        FoldSet(LAMBDA number, sum : sum + OnboardingFees[number], 0,
                numbers \cap DOMAIN OnboardingFees)
  IN /\ Registry!Init
     /\ sectors = [number \in DOMAIN OnboardingFees |->
                     EmptySector(SectorExpirations[number], OnboardingFees[number])]
     /\ deadline_fee = FeesIn(SectorNumbers)
     /\ expiration_queue =
          [bucket \in {QuantizeUp(SectorExpirations[number]) : number \in SectorNumbers} |->
             FeesIn({number \in SectorNumbers : QuantizeUp(SectorExpirations[number]) = bucket})]
     /\ st = Ledger!AddToClaim(Ledger!WithNewMiner(Ledger!NewState, Miner, ProofType), Miner,
                               Cardinality(DOMAIN OnboardingFees) * SECTOR_SIZE,
                               Cardinality(DOMAIN OnboardingFees) * QAPower(0))
     /\ market = {}
     /\ result = Return(ProveCommit, OK, <<>>, <<>>)

Next ==
  \/ \E sector_activations \in ActivationBatches, require_activation_success \in BOOLEAN :
       ProveCommitSectors3(sector_activations, require_activation_success)
  \/ \E sector_updates \in UpdateBatches, require_activation_success \in BOOLEAN :
       ProveReplicaUpdates3(sector_updates, require_activation_success)
  \/ \E client \in Clients, payload \in HookPayloads : Allocate(client, payload)
  \/ \E client \in Clients : SweepAllocations(client)
  \/ SweepClaims
  \/ Tick

Spec == Init /\ [][Next]_vars

-----------------------------------------------------------------------------
(* Properties                                                              *)

\* The proven sectors whose fee is in a bucket of the expiration queue.
ExpiringAt(bucket) ==
  {number \in DOMAIN sectors : QuantizeUp(sectors[number].expiration) = bucket}

FeesOf(numbers) == FoldSet(LAMBDA number, sum : sum + sectors[number].daily_fee, 0, numbers)

\* The claims the registry holds for a sector of the miner.
ClaimsOf(number) ==
  {id \in DOMAIN claims : claims[id].provider = Miner /\ claims[id].sector = number}

\* The miner's state has its shape: a sector holds no more than its
\* capacity, because a manifest whose pieces do not fit is refused.
TypeOK ==
  /\ Registry!TypeOK
  /\ DOMAIN sectors \subseteq SectorNumbers
  /\ \A number \in DOMAIN sectors :
       /\ sectors[number].expiration = SectorExpirations[number]
       /\ sectors[number].unverified_space \in 0 .. SECTOR_SIZE
       /\ sectors[number].verified_space \in 0 .. SECTOR_SIZE
       /\ sectors[number].unverified_space + sectors[number].verified_space <= SECTOR_SIZE
       /\ sectors[number].daily_fee \in 0 .. REFERENCE_FEE
  /\ deadline_fee \in Nat
  /\ \A bucket \in DOMAIN expiration_queue : expiration_queue[bucket] \in Nat
  /\ Ledger!TypeOK
  /\ market \subseteq SectorNumbers \X Nat
  /\ result.method \in {ProveCommit, ProveReplica}
  /\ result.code \in {OK, USR_ILLEGAL_ARGUMENT}
  /\ result.activation_results \in Seq({OK, USR_ILLEGAL_ARGUMENT})

\* The deadline's daily fee is the sum of its sectors' fees, and the fee
\* deduction of each bucket of the partition's expiration queue is the sum
\* of the fees of the sectors that expire in it: a sector that is proven
\* brings its fee, and ProveReplicaUpdates3 moves both by the difference
\* between a sector's new fee and its old one, for the sectors that are
\* activated and no others.
FeesAddUp ==
  /\ deadline_fee = FeesOf(DOMAIN sectors)
  /\ \A bucket \in DOMAIN expiration_queue :
       expiration_queue[bucket] = FeesOf(ExpiringAt(bucket))

\* The power MinerPower reports for the miner, and the network's
\* quality-adjusted power the actor derives from it, are the power of the
\* miner's proven sectors: ProveCommitSectors3 sends UpdateClaimedPower the raw
\* power of the sectors it activated, and both methods nine times their
\* verified space, whatever else the batch held; add_to_claim moves the
\* totals with the claim, also when the claim crosses the consensus
\* minimum.
PowerIsTheSectors ==
  LET qa_power == FoldSet(LAMBDA number, sum : sum + QAPower(sectors[number].verified_space),
                          0, DOMAIN sectors)
  IN /\ Ledger!MinerPowerReturn(Miner)
          = [raw_byte_power |-> Cardinality(DOMAIN sectors) * SECTOR_SIZE,
             quality_adj_power |-> qa_power]
     /\ Ledger!CurrentTotalPower(st).qa = qa_power

\* The verified space of a sector that has not expired is the size of the
\* claims the registry holds for it, and there is no claim for a sector
\* that is not proven.  It relates the miner to the registry over many
\* messages: a sector is activated only with the claims that were made for
\* it, two sectors of a batch cannot both count an allocation, a batch
\* that aborts leaves neither claims nor space, and no claim can be swept
\* while its sector lives, because ClaimAllocations refuses a sector that
\* outlives the allocation's maximum term.
VerifiedSpaceIsClaimed ==
  \A number \in SectorNumbers :
    epoch < SectorExpirations[number] =>
      Registry!SizeOf(claims, ClaimsOf(number))
        = IF number \in DOMAIN sectors THEN sectors[number].verified_space ELSE 0

\* The claims a step has made for a sector.
ClaimsMadeFor(number) ==
  {id \in DOMAIN claims' \ DOMAIN claims : claims'[id].sector = number}

\* A step leaves a sector as it was: proven or not, and with what it held.
Untouched(number) ==
  /\ number \in DOMAIN sectors' <=> number \in DOMAIN sectors
  /\ number \in DOMAIN sectors => sectors'[number] = sectors[number]

\* ProveCommitSectors3 and ProveReplicaUpdates3 return what they did.
\* When the message aborts nothing changes, in the miner, the registry or
\* the power actor.  When it returns, a sector whose code is OK was
\* precommitted (for a commit) or proven and empty (for an update) and
\* holds as verified space exactly the claims made for it in this message,
\* a sector whose code is not OK is untouched and has no claim made for
\* it, and so is every sector that was not in the batch.
ResultMatchesEffects ==
  [][ result' # result =>
        /\ result'.code # OK =>
             UNCHANGED <<allocations, claims, balance, sectors, deadline_fee,
                         expiration_queue, st, market>>
        /\ result'.code = OK =>
             /\ \A i \in DOMAIN result'.requested :
                  LET number == result'.requested[i]
                  IN IF result'.activation_results[i] = OK
                       THEN /\ number \in DOMAIN sectors <=> result'.method = ProveReplica
                            /\ IsEmpty(Prior(number))
                            /\ sectors'[number].verified_space
                                 = Registry!SizeOf(claims', ClaimsMadeFor(number))
                       ELSE /\ Untouched(number)
                            /\ ClaimsMadeFor(number) = {}
             /\ \A number \in SectorNumbers \ ToSet(result'.requested) :
                  Untouched(number) ]_vars

\* spec.md 4.1, step 6, of a message that does not require success: the
\* pieces of a sector whose claims the registry refused still occupy the
\* sector and count as unverified, so every update that passed validation
\* fills its sector.  The test invalid_claim_dropped expects the sector to
\* be dropped instead, with IllegalArgument and no weight.
FailedClaimCountsAsUnverified ==
  [][\A updates \in UpdateBatches :
       ProveReplicaUpdates3(updates, FALSE) /\ result'.code = OK =>
         \A update \in ToSet(Surviving(ProveReplica, updates)) :
           sectors'[update.sector].unverified_space + sectors'[update.sector].verified_space
             = PieceSpace(update.pieces, TRUE) + PieceSpace(update.pieces, FALSE)]_vars

=============================================================================
