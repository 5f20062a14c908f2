---------------------------- MODULE MCPersistence ---------------------------
(* Model checking what outlives the process: Persistence, with a hot        *)
(* setting and one that waits for the next start, which config.json gives a *)
(* value that is refused; and beside it PoolState, which shares no state    *)
(* with it.  One account is enough there: every operation changes one       *)
(* entry, and what the others do to this one, a save of the whole pool, is  *)
(* JudgeAbsent.                                                             *)
EXTENDS Persistence, PoolState, TLC

CONSTANTS claim, conc, v1, v2, f1, f2, f3, f4, h1, h2

Symmetry == Permutations({h1, h2}) \cup Permutations({f1, f2, f3, f4})

MCConfigured == [f \in Fields |-> IF f = claim THEN v1 ELSE Bad]
MCDefault == [f \in Fields |-> v1]

MCInit == Init /\ PoolInit

\* Each part moves while the other is where it starts.
MCNext ==
  \/ dir = {} /\ PoolInit /\ Next /\ UNCHANGED poolVars
  \/ Init /\ PoolNext /\ UNCHANGED vars

MCSpec == MCInit /\ [][MCNext]_<<vars, poolVars>>
=============================================================================
