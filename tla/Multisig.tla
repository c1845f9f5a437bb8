------------------------------ MODULE Multisig ------------------------------
(***************************************************************************)
(* The state of the multisig actor (actors/multisig/src/state.rs): the     *)
(* signers, the approval threshold, the pending transactions and the       *)
(* linear vesting lock on the wallet's balance.                            *)
(*                                                                         *)
(* state.rs holds the methods of State.  The actor's methods that call     *)
(* them (lib.rs) are not part of the sources at hand; they are modelled    *)
(* as far as they are needed to drive the state: a signer proposes and     *)
(* approves a transfer, which is executed when it has enough approvals and *)
(* check_available lets its value go; the wallet adds and removes signers  *)
(* and locks its balance once.  A message that fails changes nothing and   *)
(* is no step.                                                             *)
(***************************************************************************)
EXTENDS Integers, Sequences, FiniteSets, SequencesExt

CONSTANTS
  Addresses,       \* the actors that may be signers
  Values,          \* the values of proposed transfers
  Deposits,        \* the amounts the wallet receives
  StartEpochs,     \* start_epoch parameters of LockBalance
  UnlockDurations, \* unlock_duration parameters of LockBalance
  LockedAmounts,   \* amount parameters of LockBalance
  MaxTxns,         \* bound: transactions ever proposed
  MaxBalance,      \* bound: the wallet's balance
  MaxEpoch         \* bound: the clock stops here

ASSUME /\ Values \subseteq Int /\ Deposits \subseteq Nat
       /\ StartEpochs \subseteq Nat /\ UnlockDurations \subseteq Int
       /\ LockedAmounts \subseteq Int
       /\ MaxTxns \in Nat /\ MaxBalance \in Nat /\ MaxEpoch \in Nat

VARIABLES
  st,       \* the actor's State
  balance,  \* rt.current_balance()
  epoch     \* rt.curr_epoch()

vars == <<st, balance, epoch>>

OK == "OK"
USR_ILLEGAL_ARGUMENT == "USR_ILLEGAL_ARGUMENT"
USR_INSUFFICIENT_FUNDS == "USR_INSUFFICIENT_FUNDS"

\* A pending transaction.  Its destination, method and parameters are
\* opaque to the state and left out.
Transaction(value, approved) == [value |-> value, approved |-> approved]

-----------------------------------------------------------------------------
(* state.rs                                                                *)

NewState(signers, num_approvals_threshold) ==
  [signers |-> signers,
   num_approvals_threshold |-> num_approvals_threshold,
   next_tx_id |-> 0,
   initial_balance |-> 0,
   start_epoch |-> 0,
   unlock_duration |-> 0,
   pending_txs |-> <<>>]

IsSigner(s, address) == address \in s.signers

SetLocked(s, start_epoch, unlock_duration, locked_amount) ==
  [s EXCEPT !.start_epoch = start_epoch,
            !.unlock_duration = unlock_duration,
            !.initial_balance = locked_amount]

\* BigInt::div_ceil for a positive denominator.
DivCeil(numerator, denominator) == -((-numerator) \div denominator)

AmountLockedRoundsDown(s, elapsed_epoch) ==
  IF elapsed_epoch >= s.unlock_duration THEN 0
  ELSE IF elapsed_epoch <= 0 THEN s.initial_balance
  ELSE (s.initial_balance * (s.unlock_duration - elapsed_epoch)) \div s.unlock_duration

\* amount_locked: nothing once the lock has run out, everything before it
\* starts, and in between the share of the time that remains, rounded up.
AmountLocked(s, elapsed_epoch) ==
  IF elapsed_epoch >= s.unlock_duration THEN 0
  ELSE IF elapsed_epoch <= 0 THEN s.initial_balance
  ELSE DivCeil(s.initial_balance * (s.unlock_duration - elapsed_epoch),
               s.unlock_duration)

\* The transactions purge_approvals has to update: the ones addr approved.
TxnIdsToPurge(s, addr) ==
  {tx_id \in DOMAIN s.pending_txs : addr \in ToSet(s.pending_txs[tx_id].approved)}

Retain(txn, addr) == [txn EXCEPT !.approved = SelectSeq(@, LAMBDA approver : approver # addr)]

PurgeApprovalsOfProposer(s, addr) ==
  LET purged == {tx_id \in DOMAIN s.pending_txs : s.pending_txs[tx_id].approved[1] = addr}
      emptied == {tx_id \in purged : Retain(s.pending_txs[tx_id], addr).approved = <<>>}
  IN [s EXCEPT !.pending_txs =
        [tx_id \in (DOMAIN @) \ emptied |->
           IF tx_id \in purged THEN Retain(@[tx_id], addr) ELSE @[tx_id]]]

PurgeApprovalsKeepsEmptied(s, addr) ==
  [s EXCEPT !.pending_txs =
     [tx_id \in DOMAIN @ |->
        IF tx_id \in TxnIdsToPurge(s, addr) THEN Retain(@[tx_id], addr) ELSE @[tx_id]]]

\* purge_approvals: addr leaves the approvals of every pending transaction,
\* and a transaction left without an approval is deleted.
PurgeApprovals(s, addr) ==
  LET purged == TxnIdsToPurge(s, addr)
      emptied == {tx_id \in purged : Retain(s.pending_txs[tx_id], addr).approved = <<>>}
  IN [s EXCEPT !.pending_txs =
        [tx_id \in (DOMAIN @) \ emptied |->
           IF tx_id \in purged THEN Retain(@[tx_id], addr) ELSE @[tx_id]]]

CheckAvailableAtEpoch(s, current_balance, amount_to_spend, curr_epoch) ==
  CASE amount_to_spend < 0 -> USR_ILLEGAL_ARGUMENT
    [] current_balance < amount_to_spend -> USR_INSUFFICIENT_FUNDS
    [] amount_to_spend = 0 -> OK
    [] current_balance - amount_to_spend < AmountLocked(s, curr_epoch)
         -> USR_INSUFFICIENT_FUNDS
    [] OTHER -> OK

\* check_available: the amount is not negative and not more than the
\* balance, and what it leaves is at least what is locked now.  A transfer
\* of nothing always passes.
CheckAvailable(s, current_balance, amount_to_spend, curr_epoch) ==
  CASE amount_to_spend < 0 -> USR_ILLEGAL_ARGUMENT
    [] current_balance < amount_to_spend -> USR_INSUFFICIENT_FUNDS
    [] amount_to_spend = 0 -> OK
    [] current_balance - amount_to_spend < AmountLocked(s, curr_epoch - s.start_epoch)
         -> USR_INSUFFICIENT_FUNDS
    [] OTHER -> OK

-----------------------------------------------------------------------------
(* The actor's methods, as far as they drive the state                     *)

\* execute_transaction_if_approved: a transaction with enough approvals is
\* sent if its value is available, and deleted.
ThresholdMet(s, txn) == Len(txn.approved) >= s.num_approvals_threshold

\* The state and the balance after a signer's approval of tx_id was put.
Executed(s, tx_id) ==
  LET txn == s.pending_txs[tx_id]
  IN IF ThresholdMet(s, txn)
       THEN [st |-> [s EXCEPT !.pending_txs = Restrict(@, (DOMAIN @) \ {tx_id})],
             balance |-> balance - txn.value,
             code |-> CheckAvailable(s, balance, txn.value, epoch)]
       ELSE [st |-> s, balance |-> balance, code |-> OK]

Commit(outcome) ==
  /\ outcome.code = OK
  /\ st' = outcome.st
  /\ balance' = outcome.balance
  /\ UNCHANGED epoch

Propose(signer, value) ==
  /\ IsSigner(st, signer)
  /\ value >= 0
  /\ st.next_tx_id < MaxTxns
  /\ Commit(Executed([st EXCEPT !.next_tx_id = @ + 1,
                                !.pending_txs = [tx_id \in (DOMAIN @) \cup {st.next_tx_id} |->
                                                   IF tx_id = st.next_tx_id
                                                   THEN Transaction(value, <<signer>>)
                                                   ELSE @[tx_id]]],
                     st.next_tx_id))

Approve(signer, tx_id) ==
  /\ IsSigner(st, signer)
  /\ tx_id \in DOMAIN st.pending_txs
  /\ signer \notin ToSet(st.pending_txs[tx_id].approved)
  /\ Commit(Executed([st EXCEPT !.pending_txs[tx_id].approved = Append(@, signer)], tx_id))

AddSigner(signer, increase) ==
  /\ ~IsSigner(st, signer)
  /\ st' = [st EXCEPT !.signers = @ \cup {signer},
                      !.num_approvals_threshold = IF increase THEN @ + 1 ELSE @]
  /\ UNCHANGED <<balance, epoch>>

RemoveSigner(signer, decrease) ==
  /\ IsSigner(st, signer)
  /\ Cardinality(st.signers) > 1
  /\ ~decrease => Cardinality(st.signers) - 1 >= st.num_approvals_threshold
  /\ decrease => st.num_approvals_threshold >= 2
  /\ st' = [PurgeApprovals(st, signer) EXCEPT
              !.signers = @ \ {signer},
              !.num_approvals_threshold = IF decrease THEN @ - 1 ELSE @]
  /\ UNCHANGED <<balance, epoch>>

\* The lock is set once.
LockBalance(start_epoch, unlock_duration, amount) ==
  /\ unlock_duration > 0
  /\ amount >= 0
  /\ st.unlock_duration = 0
  /\ st' = SetLocked(st, start_epoch, unlock_duration, amount)
  /\ UNCHANGED <<balance, epoch>>

\* The wallet receives funds.
Receive(amount) ==
  /\ balance + amount <= MaxBalance
  /\ balance' = balance + amount
  /\ UNCHANGED <<st, epoch>>

Tick ==
  /\ epoch < MaxEpoch
  /\ epoch' = epoch + 1
  /\ UNCHANGED <<st, balance>>

Init ==
  /\ \E signers \in SUBSET Addresses, threshold \in 1 .. Cardinality(Addresses) :
       /\ threshold <= Cardinality(signers)
       /\ st = NewState(signers, threshold)
  /\ balance = 0
  /\ epoch = 0

Next ==
  \/ \E signer \in Addresses, value \in Values : Propose(signer, value)
  \/ \E signer \in Addresses, tx_id \in DOMAIN st.pending_txs : Approve(signer, tx_id)
  \/ \E signer \in Addresses, increase \in BOOLEAN : AddSigner(signer, increase)
  \/ \E signer \in Addresses, decrease \in BOOLEAN : RemoveSigner(signer, decrease)
  \/ \E start_epoch \in StartEpochs, unlock_duration \in UnlockDurations,
        amount \in LockedAmounts : LockBalance(start_epoch, unlock_duration, amount)
  \/ \E amount \in Deposits : Receive(amount)
  \/ Tick

Spec == Init /\ [][Next]_vars

-----------------------------------------------------------------------------
(* Properties                                                              *)

TxnIDs == 0 .. MaxTxns - 1

\* The state has its shape; in particular every pending transaction has an
\* approval: purge_approvals deletes the ones it empties.
TypeOK ==
  /\ st.signers \in SUBSET Addresses
  /\ st.num_approvals_threshold \in 1 .. Cardinality(st.signers)
  /\ st.next_tx_id \in 0 .. MaxTxns
  /\ st.initial_balance \in Nat
  /\ st.start_epoch \in Nat
  /\ st.unlock_duration \in Nat
  /\ DOMAIN st.pending_txs \subseteq TxnIDs
  /\ \A tx_id \in DOMAIN st.pending_txs :
       /\ st.pending_txs[tx_id].value \in Values
       /\ st.pending_txs[tx_id].approved \in Seq(Addresses) \ {<<>>}
  /\ balance \in 0 .. MaxBalance
  /\ epoch \in 0 .. MaxEpoch

\* Every approval of a pending transaction is by a signer of the wallet,
\* given once: when a signer is removed purge_approvals takes its approval
\* out of every transaction, whether it proposed it or approved it later,
\* so that a signer added again starts without approvals.
ApprovalsAreBySigners ==
  \A tx_id \in DOMAIN st.pending_txs :
    LET approved == st.pending_txs[tx_id].approved
    IN /\ ToSet(approved) \subseteq st.signers
       /\ Cardinality(ToSet(approved)) = Len(approved)

\* What is locked at an elapsed time, stated without a division: before
\* the lock starts all of it, after it has run out nothing, in between the
\* least amount that is not less than the share of the remaining time.
IsLockedAmount(amount, s, elapsed_epoch) ==
  LET remaining == s.unlock_duration - elapsed_epoch
  IN CASE elapsed_epoch >= s.unlock_duration -> amount = 0
       [] elapsed_epoch <= 0 -> amount = s.initial_balance
       [] OTHER -> /\ amount * s.unlock_duration >= s.initial_balance * remaining
                   /\ (amount - 1) * s.unlock_duration < s.initial_balance * remaining

\* amount_locked computes the locked amount at every elapsed time, the
\* ones before the start and after the end included, and it never grows
\* as time passes.
AmountLockedIsExact ==
  \A elapsed_epoch \in -MaxEpoch .. MaxEpoch :
    /\ IsLockedAmount(AmountLocked(st, elapsed_epoch), st, elapsed_epoch)
    /\ AmountLocked(st, elapsed_epoch + 1) <= AmountLocked(st, elapsed_epoch)

\* No transfer takes locked funds out of the wallet: after a step that
\* lowers the balance, the balance is at least what is locked at this
\* epoch, counted from the start of the lock (check_available is given the
\* current epoch and the lock its elapsed time).
LockedFundsStay ==
  [][ balance' < balance =>
        \E amount \in 0 .. balance' : IsLockedAmount(amount, st', epoch - st'.start_epoch) ]_vars

=============================================================================
