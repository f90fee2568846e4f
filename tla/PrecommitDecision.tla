------------------------- MODULE PrecommitDecision -------------------------
(***************************************************************************)
(* DecidePrecommit of gserver/internal/gsi/consensusstrategy.go (405-416) *)
(* and the Byzantine-majority threshold it compares against.               *)
(*                                                                         *)
(* A vote summary is a record: the available power, the power of all the  *)
(* prevotes received, the prevote power per value (a block hash, or Nil   *)
(* for a nil prevote) and the most-voted value the engine computed.  A Go map lookup of a missing key yields 0, *)
(* so prevotePower is total over the values.                               *)
(***************************************************************************)
EXTENDS Integers, TLAPS

CONSTANT Nil   \* the empty hash "": precommit nil

\* tmconsensus.ByzantineMajority (outside this repository): the least power
\* strictly greater than two thirds of the available power.
ByzantineMajority(avail) == (2 * avail) \div 3 + 1

\* Mutant: the threshold is taken over the power that has prevoted so far
\* instead of the available power.
DecidePrecommitOverPrevoted(vs) ==
    IF vs.prevotePower[vs.mostVoted] >= ByzantineMajority(vs.prevoted)
      THEN vs.mostVoted
      ELSE Nil

\* Lines 409-415: the most-voted prevote value wins when its power reaches
\* the majority; otherwise precommit nil.
DecidePrecommit(vs) ==
    IF vs.prevotePower[vs.mostVoted] >= ByzantineMajority(vs.available)
      THEN vs.mostVoted
      ELSE Nil

-----------------------------------------------------------------------------
(***************************************************************************)
(* Two sets of voters that both reach the Byzantine majority of the same   *)
(* available power share more than a third of it.  With a, b and c the     *)
(* power only in the first set, only in the second and in both, and the    *)
(* three parts within the available power P, the overlap c exceeds P/3.    *)
(* This is why two honest validators cannot both precommit different       *)
(* hashes through DecidePrecommit.                                         *)
(***************************************************************************)
THEOREM MajoritiesOverlap ==
    ASSUME NEW P \in Nat, NEW a \in Nat, NEW b \in Nat, NEW c \in Nat,
           a + b + c <= P,
           a + c >= ByzantineMajority(P),
           b + c >= ByzantineMajority(P)
    PROVE  3 * c > P
<1> DEFINE M == ByzantineMajority(P)
<1>1. 3 * M > 2 * P
  <2>1. 2 * P = 3 * ((2 * P) \div 3) + ((2 * P) % 3)
    OBVIOUS
  <2>2. (2 * P) % 3 \in 0..2
    OBVIOUS
  <2>3. QED
    BY <2>1, <2>2 DEF ByzantineMajority
<1>2. M \in Int
  BY DEF ByzantineMajority
<1>3. QED
  BY <1>1, <1>2

(***************************************************************************)
(* When the faulty validators hold less than a third of the available      *)
(* power, the overlap of two majorities holds more power than all of them *)
(* together: some honest validator is in both.                             *)
(***************************************************************************)
THEOREM MajoritiesShareHonest ==
    ASSUME NEW P \in Nat, NEW a \in Nat, NEW b \in Nat, NEW c \in Nat,
           NEW f \in Nat,
           3 * f < P,
           a + b + c <= P,
           a + c >= ByzantineMajority(P),
           b + c >= ByzantineMajority(P)
    PROVE  c > f
BY MajoritiesOverlap
=============================================================================
