------------------------------- MODULE MCPanel -------------------------------
(* Two shows of one tier each, on sale, and two visitors.                  *)
EXTENDS TierDesk, TLC

CONSTANTS c1, c2

MCEventOf == "floor" :> "show" @@ "pit" :> "matinee"
Visitors == Permutations({c1, c2})
=============================================================================
