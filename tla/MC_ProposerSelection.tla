----------------------- MODULE MC_ProposerSelection -----------------------
(***************************************************************************)
(* DefaultProposerSelection over every height of a scaled-down 4-bit word  *)
(* (MaxInt = 7, heights 0..15) and small rounds, for a set of NVals        *)
(* validators.  The height and round are picked once and kept.             *)
(***************************************************************************)
EXTENDS ProposerSelection

CONSTANTS NVals, MaxRoundValue

VARIABLES h, r

Init == h \in 0..(Modulus - 1) /\ r \in 0..MaxRoundValue
Next == UNCHANGED <<h, r>>
Spec == Init /\ [][Next]_<<h, r>>

(***************************************************************************)
(* Spec 8: "for a validator set of size N, for all heights and rounds,     *)
(* selection returns an index in [0, N)".  The code converts the uint64   *)
(* height to int, so a height above MaxInt becomes negative, the           *)
(* remainder is negative and valSet.Validators[proposerIdx] panics.        *)
(***************************************************************************)
SelectionIndexInRange == ProposerIdx(h, r, NVals) \in 0..(NVals - 1)
=============================================================================
