------------------------------ MODULE Verifiers ------------------------------
(***************************************************************************)
(* The verified registry's verifiers and clients, and the way of the       *)
(* datacap from the root key to an allocation.                             *)
(*                                                                         *)
(* The root key gives a verifier an allowance (AddVerifier) and takes the  *)
(* verifier away (RemoveVerifier); a verifier turns allowance into the     *)
(* datacap of a client (AddVerifiedClient), which the datacap actor mints. *)
(* A client sends datacap to the registry to make allocations; the         *)
(* datacap of an allocation that expires goes back to the client, that of  *)
(* one that is claimed is burnt.  These last steps are the module          *)
(* Verifreg, instantiated on this module's variables.                      *)
(*                                                                         *)
(* The three methods are modelled from the tests of the modules            *)
(* `verifiers` and `clients` of verifreg_actor_test.rs.                    *)
(***************************************************************************)
EXTENDS Integers, Sequences, FiniteSets, SequencesExt

CONSTANTS
  Root,                \* the root key's actor
  Accounts,            \* the other actors, by ID address
  KeyAddresses,        \* public key addresses
  Resolution,          \* the ID address of each key address that has one
  Providers, Data,
  MINIMUM_VERIFIED_ALLOCATION_SIZE,
  MINIMUM_VERIFIED_ALLOCATION_TERM,
  MAXIMUM_VERIFIED_ALLOCATION_TERM,
  MAXIMUM_VERIFIED_ALLOCATION_EXPIRATION,
  AllocationRequests,  \* the allocation requests of the clients
  HookPayloads,        \* the transfers the registry's hook receives
  ClaimBatches,        \* the `sectors` parameters of ClaimAllocations
  Allowances,          \* the allowances the callers ask for
  MaxGranted,          \* bound: the allowances the root key gives, in all
  MaxId,               \* bound: allocation ids handed out
  MaxEpoch             \* bound: the clock stops here

VARIABLES
  allocations, claims, next_allocation_id, epoch, balance, ret,  \* Verifreg
  verifiers,  \* ID address of a verifier -> the allowance it has left
  datacap,    \* ID address -> its balance at the datacap actor
  granted,    \* the allowances the root key has given, in all
  minted      \* ID address -> the datacap the verifiers have given it, in all

ActorIDs == {Root} \cup Accounts

ASSUME /\ Root \notin Accounts
       /\ KeyAddresses \cap ActorIDs = {}
       /\ DOMAIN Resolution \subseteq KeyAddresses
       /\ \A key \in DOMAIN Resolution : Resolution[key] \in ActorIDs

Registry == INSTANCE Verifreg
  WITH Clients <- ActorIDs, ClaimTerms <- {}, MaxBatch <- MaxId, MaxTerms <- 0

registry == <<allocations, claims, next_allocation_id, balance>>
roles == <<verifiers, datacap, granted, minted>>
vars == <<registry, epoch, ret, roles>>

OK == "OK"
USR_ILLEGAL_ARGUMENT == "USR_ILLEGAL_ARGUMENT"
USR_NOT_FOUND == "USR_NOT_FOUND"
USR_FORBIDDEN == "USR_FORBIDDEN"

Addresses == ActorIDs \cup KeyAddresses

-----------------------------------------------------------------------------
(* Addresses                                                               *)

\* resolve_to_actor_id: an ID address is its own, a key address has the
\* ID of its account or none.
Resolvable(address) == address \in ActorIDs \cup DOMAIN Resolution

Resolve(address) == IF address \in ActorIDs THEN address ELSE Resolution[address]

-----------------------------------------------------------------------------
(* AddVerifier, RemoveVerifier                                             *)

VerifierAdmittedAsGiven(address, allowance) ==
  /\ allowance >= MINIMUM_VERIFIED_ALLOCATION_SIZE
  /\ Resolvable(address)
  /\ address # Root
  /\ datacap[Resolve(address)] = 0

VerifierAdmittedWithDatacap(address, allowance) ==
  /\ allowance >= MINIMUM_VERIFIED_ALLOCATION_SIZE
  /\ Resolvable(address)
  /\ Resolve(address) # Root

\* What AddVerifier asks of its parameters: an allowance of the minimum
\* size, and an address that resolves to an actor that is not the root key
\* and holds no datacap.
VerifierAdmitted(address, allowance) ==
  /\ allowance >= MINIMUM_VERIFIED_ALLOCATION_SIZE
  /\ Resolvable(address)
  /\ Resolve(address) # Root
  /\ datacap[Resolve(address)] = 0

\* AddVerifier: the root key gives an actor an allowance.  A verifier that
\* has one gets the new one in its place.
AddVerifier(caller, address, allowance) ==
  LET method == "AddVerifier"
  IN \/ /\ caller # Root
        /\ Registry!Aborts(method, caller, USR_FORBIDDEN)
        /\ UNCHANGED roles
     \/ /\ caller = Root
        /\ ~VerifierAdmitted(address, allowance)
        /\ Registry!Aborts(method, caller, USR_ILLEGAL_ARGUMENT)
        /\ UNCHANGED roles
     \/ /\ caller = Root
        /\ VerifierAdmitted(address, allowance)
        /\ granted + allowance <= MaxGranted
        /\ verifiers' = (Resolve(address) :> allowance) @@ verifiers
        /\ granted' = granted + allowance
        /\ Registry!Returns(method, caller, <<>>, <<>>)
        /\ UNCHANGED <<registry, epoch, datacap, minted>>

\* RemoveVerifier: the root key takes a verifier away, with what is left
\* of its allowance.
RemoveVerifier(caller, address) ==
  LET method == "RemoveVerifier"
      known == Resolvable(address) /\ Resolve(address) \in DOMAIN verifiers
  IN \/ /\ caller # Root
        /\ Registry!Aborts(method, caller, USR_FORBIDDEN)
        /\ UNCHANGED roles
     \/ /\ caller = Root
        /\ ~known
        /\ Registry!Aborts(method, caller, USR_ILLEGAL_ARGUMENT)
        /\ UNCHANGED roles
     \/ /\ caller = Root
        /\ known
        /\ verifiers' = Restrict(verifiers, DOMAIN verifiers \ {Resolve(address)})
        /\ Registry!Returns(method, caller, <<>>, <<>>)
        /\ UNCHANGED <<registry, epoch, datacap, granted, minted>>

-----------------------------------------------------------------------------
(* AddVerifiedClient                                                       *)

ClientCodeAnyCap(caller, address, allowance) ==
  CASE allowance < MINIMUM_VERIFIED_ALLOCATION_SIZE -> USR_ILLEGAL_ARGUMENT
    [] ~Resolvable(address) -> USR_ILLEGAL_ARGUMENT
    [] Resolve(address) = Root -> USR_ILLEGAL_ARGUMENT
    [] caller \notin DOMAIN verifiers -> USR_NOT_FOUND
    [] Resolve(address) \in DOMAIN verifiers -> USR_ILLEGAL_ARGUMENT
    [] OTHER -> OK

\* The checks of AddVerifiedClient: an allowance of the minimum size, a
\* client that resolves and is neither the root key nor a verifier, a
\* caller that is a verifier and has the allowance left.
ClientCode(caller, address, allowance) ==
  CASE allowance < MINIMUM_VERIFIED_ALLOCATION_SIZE -> USR_ILLEGAL_ARGUMENT
    [] ~Resolvable(address) -> USR_ILLEGAL_ARGUMENT
    [] Resolve(address) = Root -> USR_ILLEGAL_ARGUMENT
    [] caller \notin DOMAIN verifiers -> USR_NOT_FOUND
    [] Resolve(address) \in DOMAIN verifiers -> USR_ILLEGAL_ARGUMENT
    [] allowance > verifiers[caller] -> USR_ILLEGAL_ARGUMENT
    [] OTHER -> OK

NewVerifierCapKept(cap, allowance) == cap

\* What a verifier has left after it gave an allowance.
NewVerifierCap(cap, allowance) == cap - allowance

\* AddVerifiedClient: a verifier gives a client datacap out of its
\* allowance; the datacap actor mints it to the client, who may have some.
\* A verifier whose allowance is used up stays a verifier.
AddVerifiedClient(caller, address, allowance) ==
  LET method == "AddVerifiedClient"
      code == ClientCode(caller, address, allowance)
  IN \/ /\ code # OK
        /\ Registry!Aborts(method, caller, code)
        /\ UNCHANGED roles
     \/ /\ code = OK
        /\ verifiers' = [verifiers EXCEPT ![caller] = NewVerifierCap(@, allowance)]
        /\ datacap' = [datacap EXCEPT ![Resolve(address)] = @ + allowance]
        /\ minted' = [minted EXCEPT ![Resolve(address)] = @ + allowance]
        /\ Registry!Returns(method, caller, <<>>, <<>>)
        /\ UNCHANGED <<registry, epoch, granted>>

-----------------------------------------------------------------------------
(* The datacap of the clients                                              *)

\* A client sends datacap it has to the registry, with allocation
\* requests.  When the hook aborts the transfer is undone.
Allocate(client, payload) ==
  /\ payload.amount <= datacap[client]
  /\ Registry!UniversalReceiverHook(TRUE, TRUE, client, payload.allocs,
                                    payload.extensions, payload.amount)
  /\ datacap' = [datacap EXCEPT ![client] = @ - (balance' - balance)]
  /\ UNCHANGED <<verifiers, granted, minted>>

\* An actor calls the hook itself, with no transfer behind the call.
CallHook(actor, payload) ==
  /\ Registry!UniversalReceiverHook(FALSE, TRUE, actor, payload.allocs,
                                    payload.extensions, payload.amount)
  /\ UNCHANGED roles

\* A provider claims allocations: their datacap is burnt.
Claim(provider, sectors) ==
  /\ Registry!ClaimAllocations(provider, sectors, FALSE)
  /\ UNCHANGED roles

\* The expired allocations of a client are swept: the datacap recovered is
\* transferred to the client.
SweepAllocations(client) ==
  /\ Registry!RemoveExpiredAllocations(client, <<>>)
  /\ datacap' = [datacap EXCEPT ![client] = @ + (balance - balance')]
  /\ UNCHANGED <<verifiers, granted, minted>>

Tick ==
  /\ Registry!Tick
  /\ UNCHANGED roles

-----------------------------------------------------------------------------
Init ==
  /\ Registry!Init
  /\ verifiers = <<>>
  /\ datacap = [actor \in ActorIDs |-> 0]
  /\ granted = 0
  /\ minted = [actor \in ActorIDs |-> 0]

Next ==
  \/ \E caller \in ActorIDs, address \in Addresses, allowance \in Allowances :
       \/ AddVerifier(caller, address, allowance)
       \/ AddVerifiedClient(caller, address, allowance)
  \/ \E caller \in ActorIDs, address \in Addresses : RemoveVerifier(caller, address)
  \/ \E client \in ActorIDs, payload \in HookPayloads :
       Allocate(client, payload) \/ CallHook(client, payload)
  \/ \E provider \in Providers, sectors \in ClaimBatches : Claim(provider, sectors)
  \/ \E client \in ActorIDs : SweepAllocations(client)
  \/ Tick

Spec == Init /\ [][Next]_vars

-----------------------------------------------------------------------------
(* Properties                                                              *)

\* The sum of a function of amounts.
Total(amounts) == FoldSet(LAMBDA key, sum : sum + amounts[key], 0, DOMAIN amounts)

\* The state has its shape: no verifier has a negative allowance, because
\* AddVerifiedClient refuses an allowance the verifier has not left.
TypeOK ==
  /\ Registry!TypeOK
  /\ DOMAIN verifiers \subseteq ActorIDs
  /\ \A verifier \in DOMAIN verifiers : verifiers[verifier] \in 0 .. MaxGranted
  /\ datacap \in [ActorIDs -> 0 .. MaxGranted]
  /\ granted \in 0 .. MaxGranted
  /\ minted \in [ActorIDs -> 0 .. MaxGranted]

\* The datacap that exists is datacap the root key granted: what the
\* clients hold, what the registry holds for their allocations and what
\* the verifiers may still give is never more than the allowances the root
\* key gave.  It holds over the messages of the root key, the verifiers,
\* the clients, the providers and the sweepers: a verifier pays for what it
\* gives, a hook that aborts takes nothing, a sweep returns what it
\* recovered and no more.
DatacapIsGranted ==
  Total(datacap) + balance + Total(verifiers) <= granted

\* What an actor has of verified space: the datacap it holds, the
\* allocations it has made and the claims made of them.
ClientSpace(client) ==
  LET Own(table) == {id \in DOMAIN table : table[id].client = client}
  IN datacap[client] + Registry!SizeOf(allocations, Own(allocations))
                     + Registry!SizeOf(claims, Own(claims))

\* No actor has more verified space than the verifiers have given it:
\* its datacap, its allocations and the claims made of them are together
\* at most what AddVerifiedClient minted to it.  Datacap becomes an
\* allocation in the hook, an allocation a claim in ClaimAllocations or
\* datacap again in RemoveExpiredAllocations, each of them once and for
\* the client that paid: the hook acts for the datacap actor only, which
\* has moved the client's tokens before it calls, a claim takes its
\* allocation away, and a sweep returns the datacap to the client of the
\* allocation and not to the one that asks for it.
ClientSpaceIsMinted ==
  \A client \in ActorIDs : ClientSpace(client) <= minted[client]

\* The two roles are granted apart, and the only datacap a verifier comes
\* to hold is a refund: AddVerifier makes no holder of datacap a verifier,
\* AddVerifiedClient mints nothing to a verifier, and a verifier's balance
\* grows only when RemoveExpiredAllocations returns the datacap of an
\* allocation it made while it was a client.  (Both checks look at the
\* state of the call: the datacap a client has put into an allocation is
\* not seen by AddVerifier, so a verifier that holds datacap is reachable,
\* by this way and no other.)
VerifierDatacapIsRefund ==
  [][\A actor \in ActorIDs :
       /\ actor \in DOMAIN verifiers' \ DOMAIN verifiers => datacap'[actor] = 0
       /\ actor \in DOMAIN verifiers /\ datacap'[actor] > datacap[actor]
            => ret'.method = "RemoveExpiredAllocations"]_vars

\* The root key is no verifier and holds no datacap, under whatever
\* address it is named: AddVerifier and AddVerifiedClient compare the
\* resolved address with the root key.
RootHoldsNoRole ==
  /\ Root \notin DOMAIN verifiers
  /\ datacap[Root] = 0

=============================================================================
