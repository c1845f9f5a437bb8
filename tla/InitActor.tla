----------------------------- MODULE InitActor ------------------------------
(***************************************************************************)
(* The checker of the init actor's state (actors/init/src/testing.rs).     *)
(*                                                                         *)
(* The init actor hands out actor IDs and remembers which address got      *)
(* which.  check_state_invariants walks the address map and reports what   *)
(* is wrong with it.  It is modelled as an operator: the walk entry by     *)
(* entry, in the order the map yields them, with the two maps from ID to   *)
(* address it builds on the way and the faults of the store it walks.      *)
(*                                                                         *)
(* The checker is meant for any state, sound or not.  The specification    *)
(* therefore does not follow the actor: its steps write the state one      *)
(* field or one entry at a time, so that every state within the bounds is  *)
(* reached, and the properties compare what the checker says of it with    *)
(* what a sound state is.                                                  *)
(***************************************************************************)
EXTENDS Integers, FiniteSets, Sequences, SequencesExt

CONSTANTS
  IdAddresses,               \* addresses of protocol ID
  StableAddresses,           \* addresses of the protocols secp, BLS and actor
  DelegatedAddresses,        \* addresses of protocol delegated
  FIRST_NON_SINGLETON_ADDR,  \* the first ID that is not a singleton's
  MaxId                      \* bound: the largest ID of a state

ASSUME /\ FIRST_NON_SINGLETON_ADDR \in 1 .. MaxId
       /\ IdAddresses \cap StableAddresses = {}
       /\ IdAddresses \cap DelegatedAddresses = {}
       /\ StableAddresses \cap DelegatedAddresses = {}

VARIABLE state  \* the State under the checker

vars == <<state>>

Addresses == IdAddresses \cup StableAddresses \cup DelegatedAddresses
ActorIDs == 0 .. MaxId
NetworkNames == {"", "network"}

ID == "ID"
Delegated == "Delegated"
Stable == "Stable"

NoFault == "NoFault"
LoadFault == "LoadFault"        \* AddressMap::load fails
IterateFault == "IterateFault"  \* for_each fails on the way
Faults == {NoFault, LoadFault, IterateFault}

-----------------------------------------------------------------------------
(* check_state_invariants                                                  *)

\* MessageAccumulator::require: the message, unless the predicate holds.
\* A message is its wording and what it is about; the accumulator is the
\* set of the messages.
Require(predicate, message) == IF predicate THEN {} ELSE {message}

ArmOfOneMap(key) == IF key \in IdAddresses THEN ID ELSE Stable

\* The arm of `match key.protocol()` an entry is handled by.
Arm(key) ==
  CASE key \in IdAddresses -> ID
    [] key \in DelegatedAddresses -> Delegated
    [] OTHER -> Stable

\* HashMap::insert into a map from ID to address: the map with the entry,
\* and the message for an entry it had for this ID.
Inserted(address_by_id, actor_id, key) ==
  [map |-> [id \in DOMAIN address_by_id \cup {actor_id} |->
              IF id = actor_id THEN key ELSE address_by_id[id]],
   messages |-> Require(actor_id \notin DOMAIN address_by_id,
                        <<"duplicate mapping to ID", actor_id>>)]

\* The checks before the walk, and the empty summary and maps.
StartOfWalk(s) ==
  [messages |-> Require(s.network_name # "", <<"network name is empty", "">>)
                  \cup Require(s.next_id >= FIRST_NON_SINGLETON_ADDR,
                               <<"next id is too low", s.next_id>>),
   ids_by_address |-> <<>>,
   by_id |-> [arm \in {Stable, Delegated} |-> <<>>]]

VisitLeavesIdKeys(s, walk, key) ==
  LET actor_id == s.address_map[key]
      seen == IF Arm(key) = ID THEN [map |-> <<>>, messages |-> {}]
              ELSE Inserted(walk.by_id[Arm(key)], actor_id, key)
  IN [messages |-> walk.messages \cup seen.messages
        \cup Require(Arm(key) # ID, <<"key is an ID address", key>>)
        \cup Require(actor_id >= FIRST_NON_SINGLETON_ADDR,
                     <<"unexpected singleton ID value", actor_id>>),
      ids_by_address |-> IF Arm(key) = ID THEN walk.ids_by_address
                         ELSE (key :> actor_id) @@ walk.ids_by_address,
      by_id |-> [arm \in DOMAIN walk.by_id |->
                   IF arm = Arm(key) THEN seen.map ELSE walk.by_id[arm]]]

\* The closure of for_each, for one entry: its key is no ID address, its
\* ID is no singleton's, and no key of its arm was seen with its ID; the
\* entry goes into the summary whatever was found.  (The arm of an ID
\* address adds the message the first check has added.)
Visit(s, walk, key) ==
  LET actor_id == s.address_map[key]
      seen == IF Arm(key) = ID THEN [map |-> <<>>, messages |-> {}]
              ELSE Inserted(walk.by_id[Arm(key)], actor_id, key)
  IN [messages |-> walk.messages \cup seen.messages
        \cup Require(Arm(key) # ID, <<"key is an ID address", key>>)
        \cup Require(actor_id >= FIRST_NON_SINGLETON_ADDR,
                     <<"unexpected singleton ID value", actor_id>>),
      ids_by_address |-> (key :> actor_id) @@ walk.ids_by_address,
      by_id |-> [arm \in DOMAIN walk.by_id |->
                   IF arm = Arm(key) THEN seen.map ELSE walk.by_id[arm]]]

\* What the store lets the checker see: nothing when the map does not
\* load, the entries before the failure when the iteration fails.
FaultMessages(fault) ==
  Require(fault # LoadFault, <<"error loading address map", fault>>)
    \cup Require(fault # IterateFault, <<"error iterating address map", fault>>)

\* check_state_invariants, when the map yields the entries of `visited` in
\* this order: the summary, and the messages of the accumulator.
CheckStateInvariants(s, fault, visited) ==
  LET walk == FoldLeft(LAMBDA sofar, key : Visit(s, sofar, key), StartOfWalk(s),
                       IF fault = LoadFault THEN <<>> ELSE visited)
  IN [summary |-> [ids_by_address |-> walk.ids_by_address, next_id |-> s.next_id],
      acc |-> walk.messages \cup FaultMessages(fault)]

-----------------------------------------------------------------------------
(* The states under the checker                                            *)

\* The orders in which a map with these keys may yield them.
Orders(s) == SetToSeqs(DOMAIN s.address_map)

\* What the walk may have visited: every entry in some order, or, when the
\* iteration fails, fewer.
Visits(s, fault) ==
  IF fault = IterateFault
    THEN UNION {Prefixes(order) \ {order} : order \in Orders(s)}
    ELSE Orders(s)

Init == state = [network_name |-> "network", next_id |-> FIRST_NON_SINGLETON_ADDR,
                 address_map |-> <<>>]

SetNetworkName(network_name) ==
  /\ network_name # state.network_name
  /\ state' = [state EXCEPT !.network_name = network_name]

SetNextId(next_id) ==
  /\ next_id # state.next_id
  /\ state' = [state EXCEPT !.next_id = next_id]

Put(key, actor_id) ==
  /\ key \in DOMAIN state.address_map => state.address_map[key] # actor_id
  /\ state' = [state EXCEPT !.address_map = (key :> actor_id) @@ @]

Next ==
  \/ \E network_name \in NetworkNames : SetNetworkName(network_name)
  \/ \E next_id \in ActorIDs : SetNextId(next_id)
  \/ \E key \in Addresses, actor_id \in ActorIDs : Put(key, actor_id)

Spec == Init /\ [][Next]_vars

-----------------------------------------------------------------------------
(* Properties                                                              *)

\* The keys of a kind that the address map sends to an ID.
KeysOf(s, kind, actor_id) ==
  {key \in kind \cap DOMAIN s.address_map : s.address_map[key] = actor_id}

\* What a sound state is, said without a walk: a network name, a next ID
\* and IDs that are no singleton's, no ID address as a key, and at most
\* one stable and one delegated address for an ID.
Sound(s) ==
  /\ s.network_name # ""
  /\ s.next_id >= FIRST_NON_SINGLETON_ADDR
  /\ \A key \in DOMAIN s.address_map :
       /\ key \notin IdAddresses
       /\ s.address_map[key] >= FIRST_NON_SINGLETON_ADDR
  /\ \A actor_id \in ActorIDs, kind \in {StableAddresses, DelegatedAddresses} :
       Cardinality(KeysOf(s, kind, actor_id)) <= 1

\* check_state_invariants returns an empty accumulator exactly when the
\* state is sound and the store let it read all of it, in whatever order
\* the address map yields its entries: the two maps of the walk find a
\* second address of a kind for an ID wherever it comes in the order, and
\* they do not take the stable and the delegated address of one actor for
\* duplicates.
CheckerIsExact ==
  \A fault \in Faults : \A visited \in Visits(state, fault) :
    CheckStateInvariants(state, fault, visited).acc = {}
      <=> Sound(state) /\ fault = NoFault

\* When the store lets it read the map, the summary check_state_invariants
\* returns is the state's address map and next ID, also for a state with
\* messages: an entry the walk complains about is not left out of the
\* summary that other actors' checks are given.
SummaryIsTheState ==
  \A visited \in Visits(state, NoFault) :
    CheckStateInvariants(state, NoFault, visited).summary
      = [ids_by_address |-> state.address_map, next_id |-> state.next_id]

=============================================================================
