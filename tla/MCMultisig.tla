----------------------------- MODULE MCMultisig -----------------------------
(***************************************************************************)
(* Multisig for TLC: three possible signers, two transactions, a lock of   *)
(* up to 4 over 3 epochs that starts now or at epoch 2.                    *)
(***************************************************************************)
EXTENDS Multisig, TLC

CONSTANTS a1, a2, a3

MCAddresses == {a1, a2, a3}

\* A negative value and a negative amount so that the checks that refuse
\* them are met; 4 over 3 epochs so that the locked share is not whole.
MCValues == {-1, 0, 1, 2}
MCLockedAmounts == {-1, 2, 4}

AddressSymmetry == Permutations(MCAddresses)
=============================================================================
