------------------------------ MODULE Verifreg ------------------------------
(***************************************************************************)
(* The verified registry's allocations and claims: the claim registry and  *)
(* the datacap receiver hook of spec.md (4.2, 4.3).                        *)
(*                                                                         *)
(* A client turns datacap into allocations by sending it to the registry   *)
(* (the hook); the provider named in an allocation redeems it for a claim  *)
(* when it proves a sector (ClaimAllocations); the client may extend a     *)
(* claim's term; expired allocations and claims are swept.                 *)
(*                                                                         *)
(* The actor's code is not among the sources.  Each operation is modelled  *)
(* from spec.md and from the test of verifreg_actor_test.rs that pins its  *)
(* behaviour; where the two disagree the model follows the test, which     *)
(* runs against the code.  A call is atomic: one that aborts changes       *)
(* nothing but  ret , the result its caller sees.                          *)
(***************************************************************************)
EXTENDS Integers, Sequences, FiniteSets, SequencesExt

CONSTANTS
  Clients,             \* actors that hold datacap
  Providers,           \* miner actors
  Data,                \* piece CIDs
  MINIMUM_VERIFIED_ALLOCATION_SIZE,
  MINIMUM_VERIFIED_ALLOCATION_TERM,
  MAXIMUM_VERIFIED_ALLOCATION_TERM,
  MAXIMUM_VERIFIED_ALLOCATION_EXPIRATION,
  AllocationRequests,  \* the allocation requests a hook payload is made of
  HookPayloads,        \* the transfers the hook receives
  ClaimTerms,          \* the entries of ExtendClaimTerms and of the hook
  ClaimBatches,        \* the `sectors` parameters of ClaimAllocations
  MaxBatch,            \* bound: ids in one batch
  MaxTerms,            \* bound: claim terms in one batch
  MaxId,               \* bound: allocation ids handed out
  MaxEpoch             \* bound: the clock stops here

VARIABLES
  allocations,         \* id -> Allocation (the code keys them by client, id)
  claims,              \* id -> Claim (the code keys them by provider, id)
  next_allocation_id,
  epoch,               \* rt.curr_epoch()
  balance,             \* the registry's datacap, held by the datacap actor
  ret                  \* what the last call returned to its caller

state == <<allocations, claims, next_allocation_id, balance>>
vars == <<allocations, claims, next_allocation_id, epoch, balance, ret>>

OK == "OK"
USR_ILLEGAL_ARGUMENT == "USR_ILLEGAL_ARGUMENT"
USR_NOT_FOUND == "USR_NOT_FOUND"
USR_FORBIDDEN == "USR_FORBIDDEN"

Ids == 1 .. MaxId

\* The sum of the sizes of the entries ids of a table of allocations or
\* claims.
SizeOf(table, ids) == FoldSet(LAMBDA id, sum : sum + table[id].size, 0, ids)

\* The call returns: its batch codes, and the claimed space per sector.
Returns(method, from, codes, spaces) ==
  ret' = [method |-> method, from |-> from, code |-> OK, codes |-> codes,
          spaces |-> spaces]

\* The call aborts: nothing it staged persists.
Aborts(method, from, code) ==
  /\ ret' = [method |-> method, from |-> from, code |-> code, codes |-> <<>>,
             spaces |-> <<>>]
  /\ UNCHANGED <<state, epoch>>

\* The code of a batch entry is that of the first check it fails.
FirstFailure(codes) ==
  IF \A i \in DOMAIN codes : codes[i] = OK THEN OK
  ELSE codes[SelectInSeq(codes, LAMBDA c : c # OK)]

-----------------------------------------------------------------------------
(* The datacap receiver hook                                               *)

\* validate_new_allocation: the bounds of the policy, and a provider that
\* is a miner actor.
AllocationValidAnyTerms(req) ==
  /\ req.provider \in Providers
  /\ req.size >= MINIMUM_VERIFIED_ALLOCATION_SIZE
  /\ req.term_min >= MINIMUM_VERIFIED_ALLOCATION_TERM
  /\ req.term_max <= MAXIMUM_VERIFIED_ALLOCATION_TERM
  /\ req.expiration <= epoch + MAXIMUM_VERIFIED_ALLOCATION_EXPIRATION

AllocationValid(req) ==
  /\ req.provider \in Providers
  /\ req.size >= MINIMUM_VERIFIED_ALLOCATION_SIZE
  /\ req.term_min >= MINIMUM_VERIFIED_ALLOCATION_TERM
  /\ req.term_max <= MAXIMUM_VERIFIED_ALLOCATION_TERM
  /\ req.term_min <= req.term_max
  /\ req.expiration <= epoch + MAXIMUM_VERIFIED_ALLOCATION_EXPIRATION

\* A claim is found under its own provider only.
HasClaim(table, provider, id) ==
  id \in DOMAIN table /\ table[id].provider = provider

TermLimitIgnoresStart(claim) == epoch + MAXIMUM_VERIFIED_ALLOCATION_TERM

\* The longest term_max a claim may be given now.
TermLimit(claim) == epoch - claim.term_start + MAXIMUM_VERIFIED_ALLOCATION_TERM

\* The hook's check of an extension request: the claim has not expired and
\* its term really grows.  Whose claim it is does not matter: the datacap
\* spent on it is the sender's.
HookExtensionCode(table, req) ==
  LET claim == table[req.claim_id]
  IN CASE ~HasClaim(table, req.provider, req.claim_id) -> USR_NOT_FOUND
       [] epoch > claim.term_start + claim.term_max -> USR_FORBIDDEN
       [] req.term_max <= claim.term_max -> USR_ILLEGAL_ARGUMENT
       [] req.term_max > TermLimit(claim) -> USR_ILLEGAL_ARGUMENT
       [] OTHER -> OK

Extended(table, req) == [table EXCEPT ![req.claim_id].term_max = req.term_max]

NewAllocation(from, req) ==
  [client |-> from, provider |-> req.provider, data |-> req.data,
   size |-> req.size, term_min |-> req.term_min, term_max |-> req.term_max,
   expiration |-> req.expiration]

NewIdsAfterTheTable(allocs) ==
  [i \in DOMAIN allocs |-> Cardinality(DOMAIN allocations) + i]

\* The IDs of the allocations of a payload: the next ones, in the order of
\* the requests.
NewIds(allocs) == [i \in DOMAIN allocs |-> next_allocation_id + i - 1]

DatacapRequiredForAllocations(allocs, extensions) ==
  FoldLeft(LAMBDA sum, req : sum + req.size, 0, allocs)

\* The datacap a payload must carry: the sizes of the new allocations and
\* of the claims it extends.
DatacapRequired(allocs, extensions) ==
  FoldLeft(LAMBDA sum, req : sum + req.size, 0, allocs)
    + FoldLeft(LAMBDA sum, req : sum + claims[req.claim_id].size, 0, extensions)

HookCallCodeOfAnyCaller(by_datacap, to_self) ==
  IF to_self THEN OK ELSE USR_ILLEGAL_ARGUMENT

\* Who may call the hook, and for which transfer: the datacap actor, for a
\* transfer to the registry itself.
HookCallCode(by_datacap, to_self) ==
  CASE ~by_datacap -> USR_FORBIDDEN
    [] ~to_self -> USR_ILLEGAL_ARGUMENT
    [] OTHER -> OK

\* The tokens are in the registry's account when the datacap actor calls
\* the hook for a transfer it has made; a call of anybody else brings none.
Received(by_datacap, amount) == IF by_datacap THEN amount ELSE 0

\* UniversalReceiverHook: datacap arrives from a client with allocation and
\* extension requests.  The hook is strict: one bad request, or an amount
\* that is not exactly what the requests need, aborts it.  The datacap of
\* the allocations stays with the registry, that of the extensions is
\* burnt.
UniversalReceiverHook(by_datacap, to_self, from, allocs, extensions, amount) ==
  LET method == "UniversalReceiverHook"
      call == HookCallCode(by_datacap, to_self)
      checks == [i \in DOMAIN allocs |->
                   IF AllocationValid(allocs[i]) THEN OK ELSE USR_ILLEGAL_ARGUMENT]
                \o [i \in DOMAIN extensions |-> HookExtensionCode(claims, extensions[i])]
      new_ids == NewIds(allocs)
  IN \/ /\ call # OK
        /\ Aborts(method, from, call)
     \/ /\ call = OK
        /\ FirstFailure(checks) # OK
        /\ Aborts(method, from, FirstFailure(checks))
     \/ /\ call = OK
        /\ FirstFailure(checks) = OK
        /\ amount # DatacapRequired(allocs, extensions)
        /\ Aborts(method, from, USR_ILLEGAL_ARGUMENT)
     \/ /\ call = OK
        /\ FirstFailure(checks) = OK
        /\ amount = DatacapRequired(allocs, extensions)
        /\ next_allocation_id + Len(allocs) <= MaxId + 1
        /\ allocations' =
             [id \in DOMAIN allocations \cup Range(new_ids) |->
                IF id \in DOMAIN allocations THEN allocations[id]
                ELSE NewAllocation(from, allocs[CHOOSE i \in DOMAIN allocs : new_ids[i] = id])]
        /\ claims' = FoldLeft(Extended, claims, extensions)
        /\ next_allocation_id' = next_allocation_id + Len(allocs)
        /\ balance' = balance + Received(by_datacap, amount)
                         - FoldLeft(LAMBDA sum, req : sum + claims[req.claim_id].size,
                                    0, extensions)
        /\ Returns(method, from, checks, <<>>)
        /\ UNCHANGED epoch

-----------------------------------------------------------------------------
(* ClaimAllocations                                                        *)

CanClaimAllocAfterExpiry(alloc, provider, sector, claim) ==
  /\ alloc.provider = provider
  /\ alloc.data = claim.data
  /\ alloc.size = claim.size
  /\ sector.expiry - epoch >= alloc.term_min
  /\ sector.expiry - epoch <= alloc.term_max

CanClaimAllocPastTermMax(alloc, provider, sector, claim) ==
  /\ alloc.provider = provider
  /\ alloc.data = claim.data
  /\ alloc.size = claim.size
  /\ epoch <= alloc.expiration
  /\ sector.expiry - epoch >= alloc.term_min

\* can_claim_alloc: the provider, the data and the size are the
\* allocation's, it has not expired, and the sector lives for a time within
\* the allocation's term.
CanClaimAlloc(alloc, provider, sector, claim) ==
  /\ alloc.provider = provider
  /\ alloc.data = claim.data
  /\ alloc.size = claim.size
  /\ epoch <= alloc.expiration
  /\ sector.expiry - epoch >= alloc.term_min
  /\ sector.expiry - epoch <= alloc.term_max

\* An allocation is looked up under its client: one of another client is
\* not found, one of another provider is found and refused.
ClaimCode(table, provider, sector, claim) ==
  CASE \/ claim.allocation_id \notin DOMAIN table
       \/ table[claim.allocation_id].client # claim.client -> USR_NOT_FOUND
    [] ~CanClaimAlloc(table[claim.allocation_id], provider, sector, claim) -> USR_FORBIDDEN
    [] OTHER -> OK

NewClaim(alloc, provider, sector) ==
  [provider |-> provider, client |-> alloc.client, data |-> alloc.data,
   size |-> alloc.size, term_min |-> alloc.term_min, term_max |-> alloc.term_max,
   term_start |-> epoch, sector |-> sector.sector]

\* The claims of a group before its first failing one.
Passing(table, provider, sector) ==
  LET codes == [i \in DOMAIN sector.claims |->
                  ClaimCode(table, provider, sector, sector.claims[i])]
  IN IF FirstFailure(codes) = OK THEN sector.claims
     ELSE SubSeq(sector.claims, 1, SelectInSeq(codes, LAMBDA c : c # OK) - 1)

ClaimSectorKeepsPartial(provider, acc, sector) ==
    LET passing == Passing(acc.allocations, provider, sector)
        ids == {claim.allocation_id : claim \in ToSet(passing)}
    IN IF Cardinality(ids) # Len(passing) \/ ids \cap DOMAIN acc.claims # {}
         THEN [acc EXCEPT !.clash = TRUE]
       ELSE [acc EXCEPT
               !.allocations = Restrict(@, (DOMAIN @) \ ids),
               !.claims = [id \in (DOMAIN @) \cup ids |->
                             IF id \in ids THEN NewClaim(acc.allocations[id], provider, sector)
                             ELSE @[id]],
               !.codes = Append(@, IF passing = sector.claims THEN OK ELSE USR_FORBIDDEN),
               !.spaces = IF passing = sector.claims
                          THEN Append(@, SizeOf(acc.allocations, ids)) ELSE @]

\* One sector group against the tables as the groups before it left them.
\* The group's claims are checked first, then made: a group with a failing
\* claim changes nothing, and one that names an allocation twice passes the
\* checks and fails at the second insertion of the claim, which is an error
\* of the call (`clash`), not of the group.
ClaimSector(provider, acc, sector) ==
    LET code == FirstFailure([i \in DOMAIN sector.claims |->
                   ClaimCode(acc.allocations, provider, sector, sector.claims[i])])
        ids == {claim.allocation_id : claim \in ToSet(sector.claims)}
    IN IF code # OK THEN [acc EXCEPT !.codes = Append(@, code)]
       ELSE IF Cardinality(ids) # Len(sector.claims) \/ ids \cap DOMAIN acc.claims # {}
         THEN [acc EXCEPT !.clash = TRUE]
       ELSE [acc EXCEPT
               !.allocations = Restrict(@, (DOMAIN @) \ ids),
               !.claims = [id \in (DOMAIN @) \cup ids |->
                             IF id \in ids THEN NewClaim(acc.allocations[id], provider, sector)
                             ELSE @[id]],
               !.codes = Append(@, OK),
               !.spaces = Append(@, SizeOf(acc.allocations, ids))]

\* The sector groups of a call, one after the other: the tables as the
\* call would leave them, the code of each group, the space claimed by each
\* group that succeeded.
ClaimsStaged(provider, sectors) ==
  FoldLeft(LAMBDA acc, sector : ClaimSector(provider, acc, sector),
           [allocations |-> allocations, claims |-> claims,
            codes |-> <<>>, spaces |-> <<>>, clash |-> FALSE],
           sectors)

\* ClaimAllocations: a provider redeems allocations for the sectors it
\* proves.  The datacap of the claimed allocations is burnt.
ClaimAllocations(provider, sectors, all_or_nothing) ==
  LET method == "ClaimAllocations"
      staged == ClaimsStaged(provider, sectors)
  IN \/ /\ staged.clash \/ (all_or_nothing /\ FirstFailure(staged.codes) # OK)
        /\ Aborts(method, provider, USR_ILLEGAL_ARGUMENT)
     \/ /\ ~staged.clash
        /\ all_or_nothing => FirstFailure(staged.codes) = OK
        /\ allocations' = staged.allocations
        /\ claims' = staged.claims
        /\ balance' = balance - FoldLeft(LAMBDA sum, space : sum + space, 0, staged.spaces)
        /\ Returns(method, provider, staged.codes, staged.spaces)
        /\ UNCHANGED <<next_allocation_id, epoch>>

-----------------------------------------------------------------------------
(* ExtendClaimTerms, GetClaims                                             *)

ClaimExpired(claim) == claim.term_start + claim.term_max <= epoch

\* The longest term_max ExtendClaimTerms gives a claim: the policy's maximum
\* from the claim's start or, for a claim that has expired, from now.
ExtensionLimit(claim) ==
  IF ClaimExpired(claim) THEN TermLimit(claim) ELSE MAXIMUM_VERIFIED_ALLOCATION_TERM

ExtensionCodeAnyTerm(table, caller, term) ==
  LET claim == table[term.claim_id]
  IN CASE ~HasClaim(table, term.provider, term.claim_id) -> USR_NOT_FOUND
       [] claim.client # caller -> USR_FORBIDDEN
       [] term.term_max > ExtensionLimit(claim) -> USR_ILLEGAL_ARGUMENT
       [] OTHER -> OK

\* The check of one term of ExtendClaimTerms: the claim is the caller's,
\* its term does not shrink and does not pass the policy's maximum.
ExtensionCode(table, caller, term) ==
  LET claim == table[term.claim_id]
  IN CASE ~HasClaim(table, term.provider, term.claim_id) -> USR_NOT_FOUND
       [] claim.client # caller -> USR_FORBIDDEN
       [] term.term_max < claim.term_max -> USR_ILLEGAL_ARGUMENT
       [] term.term_max > ExtensionLimit(claim) -> USR_ILLEGAL_ARGUMENT
       [] OTHER -> OK

\* ExtendClaimTerms: each term on its own, in order; a term that fails
\* leaves its claim alone and the call goes on.
ExtendClaimTerms(caller, terms) ==
  LET staged == FoldLeft(LAMBDA acc, term :
                   LET code == ExtensionCode(acc.claims, caller, term)
                   IN [claims |-> IF code = OK THEN Extended(acc.claims, term) ELSE acc.claims,
                       codes |-> Append(acc.codes, code)],
                   [claims |-> claims, codes |-> <<>>], terms)
  IN /\ claims' = staged.claims
     /\ Returns("ExtendClaimTerms", caller, staged.codes, <<>>)
     /\ UNCHANGED <<allocations, next_allocation_id, balance, epoch>>

\* GetClaims: what a provider reads of its claims; another provider's claim
\* is not found.
GetClaims(provider, ids) ==
  [i \in DOMAIN ids |-> IF HasClaim(claims, provider, ids[i]) THEN OK ELSE USR_NOT_FOUND]

-----------------------------------------------------------------------------
(* The expiration sweeps                                                   *)

AllocationExpired(alloc) == alloc.expiration <= epoch

\* The ids a sweep considers: the ones it is given or, given none, every
\* expired entry of the owner.  `owned` and `expired` are the ids of the
\* table that are the owner's, and that have expired.
Considered(ids, owned, expired) ==
  IF ids # <<>> THEN ids
  ELSE SetToSortSeq(owned \cap expired, LAMBDA a, b : a < b)

\* One id after the other: an entry of the owner that has expired is
\* removed, and its size counted as recovered.
Sweep(table, ids, owned, expired) ==
  FoldLeft(LAMBDA acc, id :
             LET code == CASE id \notin DOMAIN acc.table \cap owned -> USR_NOT_FOUND
                           [] id \notin expired -> USR_FORBIDDEN
                           [] OTHER -> OK
             IN IF code # OK THEN [acc EXCEPT !.codes = Append(@, code)]
                ELSE [table |-> Restrict(acc.table, DOMAIN acc.table \ {id}),
                      codes |-> Append(acc.codes, OK),
                      recovered |-> acc.recovered + acc.table[id].size],
           [table |-> table, codes |-> <<>>, recovered |-> 0],
           Considered(ids, owned, expired))

\* RemoveExpiredAllocations: anyone sweeps a client's expired allocations;
\* their datacap goes back to the client.
RemoveExpiredAllocations(client, ids) ==
  LET swept == Sweep(allocations, ids,
                     {id \in DOMAIN allocations : allocations[id].client = client},
                     {id \in DOMAIN allocations : AllocationExpired(allocations[id])})
  IN /\ allocations' = swept.table
     /\ balance' = balance - swept.recovered
     /\ Returns("RemoveExpiredAllocations", client, swept.codes, <<swept.recovered>>)
     /\ UNCHANGED <<claims, next_allocation_id, epoch>>

\* RemoveExpiredClaims: anyone sweeps a provider's expired claims.
RemoveExpiredClaims(provider, ids) ==
  LET swept == Sweep(claims, ids,
                     {id \in DOMAIN claims : claims[id].provider = provider},
                     {id \in DOMAIN claims : ClaimExpired(claims[id])})
  IN /\ claims' = swept.table
     /\ Returns("RemoveExpiredClaims", provider, swept.codes, <<>>)
     /\ UNCHANGED <<allocations, next_allocation_id, balance, epoch>>

-----------------------------------------------------------------------------

\* An epoch passes.
Tick ==
  /\ epoch < MaxEpoch
  /\ epoch' = epoch + 1
  /\ UNCHANGED <<state, ret>>

Init ==
  /\ allocations = <<>>
  /\ claims = <<>>
  /\ next_allocation_id = 1
  /\ epoch = 0
  /\ balance = 0
  /\ ret = [method |-> "Constructor", from |-> CHOOSE c \in Clients : TRUE,
            code |-> OK, codes |-> <<>>, spaces |-> <<>>]

HookStep ==
  \E by_datacap, to_self \in BOOLEAN, from \in Clients, payload \in HookPayloads :
    UniversalReceiverHook(by_datacap, to_self, from, payload.allocs, payload.extensions,
                          payload.amount)

ClaimStep ==
  \E provider \in Providers, sectors \in ClaimBatches, all_or_nothing \in BOOLEAN :
    ClaimAllocations(provider, sectors, all_or_nothing)

ExtendStep ==
  \E caller \in Clients, terms \in BoundedSeq(ClaimTerms, MaxTerms) :
    ExtendClaimTerms(caller, terms)

SweepStep ==
  \E ids \in BoundedSeq(Ids, MaxBatch) :
    \/ \E client \in Clients : RemoveExpiredAllocations(client, ids)
    \/ \E provider \in Providers : RemoveExpiredClaims(provider, ids)

Next == Tick \/ HookStep \/ ClaimStep \/ ExtendStep \/ SweepStep

Spec == Init /\ [][Next]_vars

-----------------------------------------------------------------------------
(* Properties                                                              *)

Terms == 1 .. MAXIMUM_VERIFIED_ALLOCATION_TERM

\* The allocations the policy admits.
Allocations ==
  {alloc \in [client : Clients, provider : Providers, data : Data,
              size : {req.size : req \in AllocationRequests},
              term_min : Terms, term_max : Terms,
              expiration : 0 .. MaxEpoch + MAXIMUM_VERIFIED_ALLOCATION_EXPIRATION] :
     /\ alloc.size >= MINIMUM_VERIFIED_ALLOCATION_SIZE
     /\ alloc.term_min >= MINIMUM_VERIFIED_ALLOCATION_TERM
     /\ alloc.term_min <= alloc.term_max}

ExitCodes == {OK, USR_ILLEGAL_ARGUMENT, USR_NOT_FOUND, USR_FORBIDDEN}

\* The state has its shape, and every allocation the registry holds is one
\* the policy admits: validate_new_allocation lets no other in.
TypeOK ==
  /\ DOMAIN allocations \subseteq Ids
  /\ \A id \in DOMAIN allocations : allocations[id] \in Allocations
  /\ DOMAIN claims \subseteq Ids
  /\ \A id \in DOMAIN claims :
       /\ DOMAIN claims[id] = {"provider", "client", "data", "size", "term_min",
                               "term_max", "term_start", "sector"}
       /\ claims[id].term_start \in 0 .. MaxEpoch
       /\ claims[id].term_max \in 1 .. MaxEpoch + MAXIMUM_VERIFIED_ALLOCATION_TERM
  /\ next_allocation_id \in 1 .. MaxId + 1
  /\ epoch \in 0 .. MaxEpoch
  /\ balance \in Nat
  /\ ret.code \in ExitCodes
  /\ ret.codes \in Seq(ExitCodes)
  /\ ret.spaces \in Seq(Nat)

\* The datacap the registry holds is the datacap of its allocations: the
\* hook keeps what it turns into allocations and burns what pays for
\* extensions, ClaimAllocations burns what it claims and nothing of a
\* sector group that failed, the sweep returns what it removes.
DatacapBacksAllocations == balance = SizeOf(allocations, DOMAIN allocations)

\* What ClaimAllocations returns is what it did: the claims it made are
\* the allocations it removed, each a copy of its allocation that starts
\* now; there is one claimed space per sector that succeeded, and together
\* they are the size of the claims made.  A sector group with a failing
\* claim leaves no claim behind.
ClaimReturnMatchesEffects ==
  [][ (ret'.method = "ClaimAllocations" /\ epoch' = epoch) =>
        LET made == DOMAIN claims' \ DOMAIN claims
        IN /\ made = DOMAIN allocations \ DOMAIN allocations'
           /\ \A id \in made :
                /\ claims'[id].term_start = epoch
                /\ claims'[id].provider = ret'.from
                /\ \A f \in DOMAIN allocations[id] \ {"expiration"} :
                     claims'[id][f] = allocations[id][f]
           /\ Len(ret'.spaces) = Len(SelectSeq(ret'.codes, LAMBDA c : c = OK))
           /\ FoldLeft(LAMBDA sum, space : sum + space, 0, ret'.spaces)
                = SizeOf(claims', made) ]_vars

\* A claim changes only in its term_max, and its term_max only grows:
\* ExtendClaimTerms and the hook refuse a shorter term, and
\* ClaimAllocations never writes over a claim that exists.
ClaimTermOnlyGrows ==
  [][ \A id \in DOMAIN claims \cap DOMAIN claims' :
        /\ claims'[id].term_max >= claims[id].term_max
        /\ [claims'[id] EXCEPT !.term_max = claims[id].term_max] = claims[id] ]_vars

\* An allocation leaves the registry only as a claim of its provider, made
\* before it expired for a sector that lives for a time within its term,
\* or swept after it expired (RemoveExpiredAllocations refuses one that
\* has not).
AllocationLeavesByClaimOrExpiry ==
  [][ \A id \in DOMAIN allocations \ DOMAIN allocations' :
        \/ /\ id \in DOMAIN claims'
           /\ claims'[id].provider = allocations[id].provider
           /\ epoch <= allocations[id].expiration
        \/ /\ id \notin DOMAIN claims'
           /\ allocations[id].expiration <= epoch
           /\ balance' <= balance - allocations[id].size ]_vars

\* Where an allocation ID is in its life, read off the two tables and the
\* next ID.
StageOf ==
  [id \in Ids |->
     CASE id \in DOMAIN allocations -> "allocated"
       [] id \in DOMAIN claims -> "claimed"
       [] id < next_allocation_id -> "removed"
       [] OTHER -> "unused"]

Lifecycle == INSTANCE AllocationLifecycle WITH Ids <- Ids, stage <- StageOf

\* The registry implements the life of an allocation ID: every message
\* that commits moves IDs as AllocationLifecycle allows.  The hook gives
\* an ID to one allocation only, also after the tables have been emptied
\* by claims and sweeps; a claim is made of the allocation of its ID; and
\* no sweep brings back what ClaimAllocations or an earlier sweep took.
LifecycleSpec == Lifecycle!Spec

\* No claim ends later than the longest term from now: a claim starts with
\* a term the policy admits, and an extension is measured from the current
\* epoch, not from the claim's start.
ClaimEndsWithinPolicy ==
  \A id \in DOMAIN claims :
    claims[id].term_start + claims[id].term_max
      <= epoch + MAXIMUM_VERIFIED_ALLOCATION_TERM

\* spec.md 4.2: ExtendClaimTerms requires the new term_max to be strictly
\* greater than the claim's.  So a call of ExtendClaimTerms whose terms
\* were all accepted has changed a claim.
ExtensionIsStrict ==
  [][ (ret'.method = "ExtendClaimTerms" /\ epoch' = epoch /\ ret'.codes # <<>>
         /\ FirstFailure(ret'.codes) = OK)
        => claims' # claims ]_vars

\* spec.md 3: a claim's term_max is changed only by the client that owns
\* the claim; 4.3: the hook forwards extension requests to the logic of
\* ExtendClaimTerms, which refuses a caller who is not the claim's client.
OnlyOwnerExtends ==
  [][ \A id \in DOMAIN claims \cap DOMAIN claims' :
        claims'[id].term_max # claims[id].term_max => ret'.from = claims[id].client ]_vars

=============================================================================
