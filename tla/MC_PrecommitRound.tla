------------------------- MODULE MC_PrecommitRound -------------------------
(***************************************************************************)
(* Two honest validators of power 2 and 1 and a faulty one of power 1:   *)
(* the faulty power is under a third of 4 and the majority is 3, so a     *)
(* hash needs v1's prevote and one more.  With an inclusive threshold of  *)
(* 2, v1 alone or v2 with the faulty prevote would do.                    *)
(***************************************************************************)
EXTENDS PrecommitRoundProofs, TLC

CONSTANTS v1, v2, vb, x, y

MCVoters == {v1, v2, vb}
MCPower == [v \in MCVoters |-> IF v = v1 THEN 2 ELSE 1]
MCHashes == {x, y}
MCSymmetry == Permutations(MCHashes)
=============================================================================
