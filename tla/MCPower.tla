------------------------------ MODULE MCPower ------------------------------
(***************************************************************************)
(* Power instantiated for TLC.  Every proof type has the same consensus    *)
(* minimum, as in the actors' policy; it is two units of raw power, so     *)
(* that a claim reaches it in one step or in two and falls below it again. *)
(* The runs about the cron queue move power in one way only and leave the  *)
(* pledge alone: they spend their states on events and epochs.             *)
(***************************************************************************)
EXTENDS Power

MCMinPower == [p \in ProofTypes |-> 2]

\* Deltas that reach the minimum in one step and in two, leave it again,
\* and carry a quality-adjusted part that differs from the raw part.
MCPowerDeltas == {<<2, 3>>, <<1, 1>>, <<-1, -1>>}

MCPledgeDeltas == {1, -1}

MCCronPowerDeltas == {<<2, 3>>}

MCCronPledgeDeltas == {1}

\* Miners and payloads are interchangeable.
MCSymmetry == Permutations(Miners) \cup Permutations(Payloads)

=============================================================================
