-------------------------- MODULE ProposerSelection --------------------------
(***************************************************************************)
(* DefaultProposerSelection of gserver/internal/gsi/consensusstrategy.go:  *)
(*                                                                         *)
(*     proposerIdx := (int(h) + int(r)) % len(valSet.Validators)           *)
(*     return valSet.Validators[proposerIdx]                               *)
(*                                                                         *)
(* The height is a uint64 and the round a uint32; both are converted to    *)
(* Go's signed int before the addition, and Go's % truncates toward zero.  *)
(* The word is scaled down: MaxInt is the largest signed int of the model  *)
(* (math.MaxInt in the code), so ints live in -(MaxInt+1)..MaxInt and the  *)
(* unsigned height in 0..2*MaxInt+1.                                       *)
(***************************************************************************)
EXTENDS Integers, Sequences, TLAPS

CONSTANT MaxInt

ASSUME MaxIntAssumption == MaxInt \in Nat \ {0}

\* Number of values of a machine word: 2^w.
Modulus == 2 * (MaxInt + 1)

\* int(x) of an unsigned word x: two's complement reinterpretation.
ToInt(x) == IF x > MaxInt THEN x - Modulus ELSE x

\* Signed addition a + b, wrapping on overflow.
AddInt(a, b) == ToInt((a + b) % Modulus)

\* Go's remainder a % n for n > 0: the result has the sign of a.
GoRem(a, n) == IF a >= 0 THEN a % n ELSE -((-a) % n)

\* proposerIdx of DefaultProposerSelection for a set of n validators.
ProposerIdx(h, r, n) == GoRem(AddInt(ToInt(h), ToInt(r)), n)

\* The validator at proposerIdx of the ordered validator list (1-based).
DefaultProposerSelection(h, r, vals) == vals[ProposerIdx(h, r, Len(vals)) + 1]

-----------------------------------------------------------------------------
(***************************************************************************)
(* For every height and round whose sum stays below the signed overflow    *)
(* bound, the index that DefaultProposerSelection computes lies in         *)
(* [0, n), so the slice indexing in the code never panics and the choice   *)
(* is the round-robin (h + r) mod n of the spec.                           *)
(***************************************************************************)
THEOREM ProposerIdxInRange ==
    ASSUME NEW h \in Nat, NEW r \in Nat, NEW n \in Nat \ {0},
           h + r <= MaxInt
    PROVE  /\ ProposerIdx(h, r, n) \in 0..(n - 1)
           /\ ProposerIdx(h, r, n) = (h + r) % n
<1>1. ToInt(h) = h /\ ToInt(r) = r
  BY MaxIntAssumption DEF ToInt
<1>2. (h + r) % Modulus = h + r
  BY MaxIntAssumption DEF Modulus
<1>3. AddInt(ToInt(h), ToInt(r)) = h + r
  BY <1>1, <1>2, MaxIntAssumption DEF AddInt, ToInt
<1>4. QED
  BY <1>3 DEF ProposerIdx, GoRem

\* Adding a multiple of n does not change a remainder modulo n.
LEMMA ModShift ==
    ASSUME NEW n \in Nat \ {0}, NEW a \in 0..(n - 1), NEW m \in Int
    PROVE  (a + n * m) % n = a
<1> DEFINE y == a + n * m
           d == y \div n
           rr == y % n
<1>1. y = n * d + rr /\ rr \in 0..(n - 1) /\ d \in Int
  OBVIOUS
<1>2. n * (m - d) = rr - a
  BY <1>1
<1>3. \A t \in Int : t >= 1 => n * t >= n
  OBVIOUS
<1>4. \A t \in Int : t <= -1 => n * t <= -n
  OBVIOUS
<1>5. m - d = 0
  BY <1>1, <1>2, <1>3, <1>4
<1>6. QED
  BY <1>1, <1>5

(***************************************************************************)
(* Round robin: below the overflow bound, every validator of the list is   *)
(* the proposer of one of any n consecutive rounds of a height, n the     *)
(* size of the set, so a run of rounds as long as the validator set meets  *)
(* every proposer, the honest ones included.                               *)
(***************************************************************************)
THEOREM EveryValidatorProposes ==
    ASSUME NEW S, NEW vals \in Seq(S), Len(vals) > 0,
           NEW h \in Nat, NEW r0 \in Nat, NEW i \in 1..Len(vals),
           h + r0 + Len(vals) - 1 <= MaxInt
    PROVE  \E r \in r0..(r0 + Len(vals) - 1) :
               DefaultProposerSelection(h, r, vals) = vals[i]
<1> DEFINE n == Len(vals)
           x == (i - 1) - (h + r0)
           q == x \div n
           k == x % n
<1>1. n \in Nat \ {0}
  OBVIOUS
<1>2. k \in 0..(n - 1) /\ x = n * q + k /\ q \in Int
  BY <1>1
<1>3. h + (r0 + k) = (i - 1) + n * (-q)
  BY <1>2
<1>4. ((i - 1) + n * (-q)) % n = i - 1
  <2>1. i - 1 \in 0..(n - 1) /\ -q \in Int
    BY <1>2
  <2>2. QED
    BY <1>1, <2>1, ModShift
<1>5. /\ r0 + k \in Nat
      /\ h + (r0 + k) <= MaxInt
  BY <1>1, <1>2, MaxIntAssumption
<1>6. ProposerIdx(h, r0 + k, n) = (h + (r0 + k)) % n
  BY <1>1, <1>5, ProposerIdxInRange
<1>7. ProposerIdx(h, r0 + k, n) = i - 1
  BY <1>3, <1>4, <1>6
<1>8. QED
  BY <1>2, <1>7 DEF DefaultProposerSelection
=============================================================================
