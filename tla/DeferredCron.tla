---------------------------- MODULE DeferredCron ----------------------------
(***************************************************************************)
(* What the storage power actor promises the miners about cron events,     *)
(* seen from outside a message: an event a miner enrols waits until its    *)
(* epoch has come, and the tick at the end of an epoch hands every due     *)
(* event to its miner, once, in one step.  A tick that aborts has done     *)
(* nothing.                                                                *)
(*                                                                         *)
(* The tick is an action on the next state and not an assignment to it:    *)
(* what the called miners do in their callbacks (enrol further events,     *)
(* fail and lose their claim) is theirs to choose.                         *)
(***************************************************************************)
EXTENDS Integers

CONSTANTS Miners, Payloads, MaxEpoch

VARIABLES
  now,      \* the current epoch
  holders,  \* the miners that hold a power claim
  pending,  \* the events that wait, each with the epoch it was enrolled for
  sent      \* the events that were handed to their miner

vars == <<now, holders, pending, sent>>

Events == [miner_addr : Miners, callback_payload : Payloads]
Entries == [event : Events, epoch : 0 .. MaxEpoch]

Later == IF now < MaxEpoch THEN now + 1 ELSE now

Init ==
  /\ now = 0
  /\ holders = {}
  /\ pending = {}
  /\ sent = {}

\* A miner is created and holds a claim.
Admit(miner) ==
  /\ miner \notin holders
  /\ holders' = holders \cup {miner}
  /\ UNCHANGED <<now, pending, sent>>

\* A miner enrols an event.
Enroll(entry) ==
  /\ entry \notin pending
  /\ pending' = pending \cup {entry}
  /\ UNCHANGED <<now, holders, sent>>

Due == {entry \in pending : entry.epoch <= now}

\* The events of a tick: the due events of the miners that hold a claim.
Called == {entry.event : entry \in {due \in Due : due.event.miner_addr \in holders}}

\* The epoch ends.  Every due event leaves the queue, and those of the
\* holders of a claim are sent, none of them for the second time.  Only a
\* miner that was called may have lost its claim or enrolled an event.
Tick ==
  LET called_miners == {event.miner_addr : event \in Called}
  IN /\ now' = Later
     /\ Called \cap sent = {}
     /\ sent' = sent \cup Called
     /\ pending' \cap Due = {}
     /\ pending \ Due \subseteq pending'
     /\ \A entry \in pending' \ pending : entry.event.miner_addr \in called_miners
     /\ holders' \subseteq holders
     /\ holders \ holders' \subseteq called_miners

\* The epoch ends with a tick that aborted.
Skip ==
  /\ now' = Later
  /\ UNCHANGED <<holders, pending, sent>>

Next ==
  \/ \E miner \in Miners : Admit(miner)
  \/ \E entry \in Entries : Enroll(entry)
  \/ Tick
  \/ Skip

Spec == Init /\ [][Next]_vars

=============================================================================
