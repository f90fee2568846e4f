------------------------ MODULE PrecommitRoundProofs ------------------------
(***************************************************************************)
(* Agreement of precommits in a round of PrecommitRound, for every         *)
(* validator set, every assignment of powers and every faulty minority.    *)
(* The argument: a hash DecidePrecommit returns has the power of its       *)
(* honest prevotes plus at most all the faulty power behind it, at least  *)
(* a Byzantine majority of the total; honest prevotes for two different   *)
(* hashes come from disjoint sets of validators, so two such hashes would *)
(* need the faulty validators to hold a third of the power.               *)
(***************************************************************************)
EXTENDS PrecommitRound, FiniteSetTheorems, TLAPS

TypeOK ==
    /\ prevote \in [HonestVoters -> Values \cup {NoVote}]
    /\ byzSent \in [HonestVoters -> [ByzVoters -> Values \cup {NoVote}]]
    /\ seen \in [HonestVoters -> SUBSET HonestVoters]
    /\ precommit \in [HonestVoters -> Values \cup {NoVote}]

\* The honest validators whose prevote is x.
HonestFor(x) == {v \in HonestVoters : prevote[v] = x}

(***************************************************************************)
(* Every hash an honest validator precommitted through DecidePrecommit is  *)
(* backed by a Byzantine majority of the total power once all the faulty  *)
(* power is counted for it, whatever each engine had collected when it    *)
(* called the hook: the honest prevotes behind it stay behind it.         *)
(***************************************************************************)
PrecommitBacked ==
    \A n \in HonestVoters :
        precommit[n] \in Hashes =>
            PowerOf(HonestFor(precommit[n])) + PowerOf(ByzVoters)
                >= ByzantineMajority(TotalPower)

\* The inductive invariant of the round.
PInv == TypeOK /\ PrecommitBacked

-----------------------------------------------------------------------------
(***************************************************************************)
(* The power of a set of validators is a natural number: the units they    *)
(* hold form a finite set.                                                 *)
(***************************************************************************)
LEMMA PowerFinite ==
    ASSUME NEW S \in SUBSET Voters
    PROVE  /\ IsFiniteSet(PowerUnits(S))
           /\ PowerOf(S) \in Nat
<1> DEFINE Parts == {{v} \X (1..Power[v]) : v \in S}
<1> DEFINE f == [v \in S |-> {v} \X (1..Power[v])]
<1>1. IsFiniteSet(S)
  BY RoundAssumption, FS_Subset
<1>2. f \in Surjection(S, Parts)
  BY DEF Surjection
<1>3. IsFiniteSet(Parts)
  BY <1>1, <1>2, FS_Surjection
<1>4. \A t \in Parts : IsFiniteSet(t)
  <2> SUFFICES ASSUME NEW v \in S PROVE IsFiniteSet({v} \X (1..Power[v]))
    OBVIOUS
  <2>1. IsFiniteSet({v})
    BY FS_Singleton
  <2>2. IsFiniteSet(1..Power[v])
    BY RoundAssumption, FS_Interval
  <2>3. QED
    BY <2>1, <2>2, FS_Product
<1>5. IsFiniteSet(PowerUnits(S))
  BY <1>3, <1>4, FS_UNION DEF PowerUnits
<1>6. QED
  BY <1>5, FS_CardinalityType DEF PowerOf

(***************************************************************************)
(* Fewer validators hold no more power.                                    *)
(***************************************************************************)
LEMMA PowerMono ==
    ASSUME NEW S \in SUBSET Voters, NEW T \in SUBSET S
    PROVE  PowerOf(T) <= PowerOf(S)
<1>1. PowerUnits(T) \subseteq PowerUnits(S)
  BY DEF PowerUnits
<1>2. QED
  BY <1>1, PowerFinite, FS_Subset DEF PowerOf

(***************************************************************************)
(* The power of a union is at most the sum of the powers, and equal to it  *)
(* when no validator is in both.                                           *)
(***************************************************************************)
LEMMA PowerUnion ==
    ASSUME NEW S \in SUBSET Voters, NEW T \in SUBSET Voters
    PROVE  /\ PowerOf(S \cup T) <= PowerOf(S) + PowerOf(T)
           /\ S \cap T = {} => PowerOf(S \cup T) = PowerOf(S) + PowerOf(T)
<1>1. PowerUnits(S \cup T) = PowerUnits(S) \cup PowerUnits(T)
  BY DEF PowerUnits
<1>2. S \cap T = {} => PowerUnits(S) \cap PowerUnits(T) = {}
  BY DEF PowerUnits
<1>3. /\ IsFiniteSet(PowerUnits(S))
      /\ IsFiniteSet(PowerUnits(T))
      /\ PowerOf(S) \in Nat /\ PowerOf(T) \in Nat
  BY PowerFinite
<1>4. Cardinality(PowerUnits(S) \cup PowerUnits(T))
        = PowerOf(S) + PowerOf(T)
          - Cardinality(PowerUnits(S) \cap PowerUnits(T))
  BY <1>3, FS_Union DEF PowerOf
<1>5. Cardinality(PowerUnits(S) \cap PowerUnits(T)) \in Nat
  BY <1>3, FS_Intersection, FS_CardinalityType
<1>6. S \cap T = {} => Cardinality(PowerUnits(S) \cap PowerUnits(T)) = 0
  BY <1>2, FS_EmptySet
<1>7. PowerOf(S \cup T) = Cardinality(PowerUnits(S) \cup PowerUnits(T))
  BY <1>1 DEF PowerOf
<1>8. QED
  BY <1>3, <1>4, <1>5, <1>6, <1>7
-----------------------------------------------------------------------------
LEMMA PInvInit == Init => PInv
BY RoundAssumption DEF Init, PInv, TypeOK, PrecommitBacked, Values

\* The powers the invariant compares are numbers.
LEMMA PowerTypes ==
    /\ TotalPower \in Nat
    /\ PowerOf(ByzVoters) \in Nat
    /\ ByzantineMajority(TotalPower) \in Nat
    /\ \A x : PowerOf(HonestFor(x)) \in Nat
<1>1. TotalPower \in Nat
  BY PowerFinite DEF TotalPower
<1>2. PowerOf(ByzVoters) \in Nat
  BY RoundAssumption, PowerFinite
<1>3. \A x : HonestFor(x) \in SUBSET Voters
  BY DEF HonestFor, HonestVoters
<1>4. \A x : PowerOf(HonestFor(x)) \in Nat
  BY <1>3, PowerFinite
<1>5. QED
  BY <1>1, <1>2, <1>4 DEF ByzantineMajority

\* The summary DecidePrecommit is handed counts only prevotes for its value.
LEMMA SummaryPower ==
    ASSUME TypeOK, NEW n \in HonestVoters, NEW x \in Values
    PROVE  /\ PrevotePowerAt(n, x) \in Nat
           /\ PrevotePowerAt(n, x) <= PowerOf(HonestFor(x)) + PowerOf(ByzVoters)
<1> DEFINE A == {v \in seen[n] : prevote[v] = x}
           B == {b \in ByzVoters : byzSent[n][b] = x}
<1>1. /\ A \subseteq HonestFor(x) /\ HonestFor(x) \subseteq Voters
      /\ B \subseteq ByzVoters /\ ByzVoters \subseteq Voters
  BY RoundAssumption DEF TypeOK, HonestFor, HonestVoters
<1>2. PrevotePowerAt(n, x) <= PowerOf(A) + PowerOf(B)
  BY <1>1, PowerUnion DEF PrevotePowerAt
<1>3. PowerOf(A) <= PowerOf(HonestFor(x)) /\ PowerOf(B) <= PowerOf(ByzVoters)
  BY <1>1, PowerMono
<1>4. PowerOf(A) \in Nat /\ PowerOf(B) \in Nat
  BY <1>1, PowerFinite
<1>5. PrevotePowerAt(n, x) \in Nat
  BY <1>1, PowerFinite DEF PrevotePowerAt
<1>6. QED
  BY <1>2, <1>3, <1>4, <1>5, PowerTypes

\* The fields of a vote summary the engine hands to DecidePrecommit.
LEMMA SummaryFields ==
    ASSUME NEW n \in HonestVoters, NEW vs \in Summaries(n)
    PROVE  /\ vs.mostVoted \in Values
           /\ vs.available = TotalPower
           /\ vs.prevotePower[vs.mostVoted] = PrevotePowerAt(n, vs.mostVoted)
<1>1. PICK m \in Values :
         vs = [available |-> TotalPower,
               prevoted |-> PowerOf(seen[n] \cup {b \in ByzVoters : byzSent[n][b] # NoVote}),
               prevotePower |-> [x \in Values |-> PrevotePowerAt(n, x)],
               mostVoted |-> m]
  BY Zenon DEF Summaries
<1>2. QED
  BY <1>1

\* A hash that DecidePrecommit returns at n is backed.
LEMMA DecideBacked ==
    ASSUME TypeOK, NEW n \in HonestVoters, NEW vs \in Summaries(n),
           DecidePrecommit(vs) \in Hashes
    PROVE  PowerOf(HonestFor(DecidePrecommit(vs))) + PowerOf(ByzVoters)
               >= ByzantineMajority(TotalPower)
<1> DEFINE m == vs.mostVoted
<1>1. /\ m \in Values
      /\ vs.available = TotalPower
      /\ vs.prevotePower[m] = PrevotePowerAt(n, m)
  BY SummaryFields
<1>2. /\ DecidePrecommit(vs) = m
      /\ PrevotePowerAt(n, m) >= ByzantineMajority(TotalPower)
  BY <1>1, RoundAssumption DEF DecidePrecommit
<1>3. QED
  BY <1>1, <1>2, SummaryPower, PowerTypes

LEMMA PInvStep == PInv /\ [Next]_vars => PInv'
<1> SUFFICES ASSUME PInv, [Next]_vars PROVE PInv'
  OBVIOUS
<1>0. TypeOK
  BY DEF PInv
<1>1. CASE \E v \in HonestVoters, x \in Values : Prevote(v, x)
  <2>1. PICK v \in HonestVoters, x \in Values : Prevote(v, x)
    BY <1>1
  <2>2. TypeOK'
    BY <1>0, <2>1 DEF Prevote, TypeOK
  <2>3. \A h \in Hashes : HonestFor(h) \subseteq HonestFor(h)'
    BY <1>0, <2>1, RoundAssumption DEF Prevote, TypeOK, HonestFor, Values
  <2>4. \A h \in Hashes : PowerOf(HonestFor(h)) <= PowerOf(HonestFor(h)')
    BY <2>2, <2>3, PowerMono, RoundAssumption DEF TypeOK, HonestFor, HonestVoters
  <2>5. \A h \in Hashes : /\ PowerOf(HonestFor(h)) \in Nat
                          /\ PowerOf(HonestFor(h)') \in Nat
    BY <2>2, PowerFinite, RoundAssumption DEF TypeOK, HonestFor, HonestVoters
  <2>7. PrecommitBacked'
    BY <2>1, <2>4, <2>5, PowerTypes DEF Prevote, PInv, PrecommitBacked
  <2>8. QED
    BY <2>2, <2>7 DEF PInv
<1>2. CASE \E n, v \in HonestVoters : Receive(n, v)
  BY <1>0, <1>2 DEF Receive, PInv, TypeOK, PrecommitBacked, HonestFor
<1>3. CASE \E n \in HonestVoters, b \in ByzVoters, x \in Values : ByzPrevote(n, b, x)
  BY <1>0, <1>3 DEF ByzPrevote, PInv, TypeOK, PrecommitBacked, HonestFor
<1>4. CASE \E n \in HonestVoters : Precommit(n)
  <2>0. PICK n \in HonestVoters : Precommit(n)
    BY <1>4
  <2>1. PICK vs \in Summaries(n) :
           /\ precommit' = [precommit EXCEPT ![n] = DecidePrecommit(vs)]
           /\ UNCHANGED <<prevote, byzSent, seen>>
    BY <2>0 DEF Precommit
  <2>2. DecidePrecommit(vs) \in Values
    BY SummaryFields DEF DecidePrecommit, Values
  <2>3. TypeOK'
    BY <1>0, <2>1, <2>2 DEF TypeOK
  <2>4. DecidePrecommit(vs) \in Hashes =>
           PowerOf(HonestFor(DecidePrecommit(vs))) + PowerOf(ByzVoters)
               >= ByzantineMajority(TotalPower)
    BY <1>0, DecideBacked
  <2>5. PrecommitBacked'
    BY <1>0, <2>1, <2>4 DEF PInv, PrecommitBacked, HonestFor, TypeOK
  <2>6. QED
    BY <2>3, <2>5 DEF PInv
<1>5. CASE UNCHANGED vars
  BY <1>5 DEF vars, PInv, TypeOK, PrecommitBacked, HonestFor
<1>6. QED
  BY <1>1, <1>2, <1>3, <1>4, <1>5 DEF Next

(***************************************************************************)
(* PInv is an invariant of the round.                                      *)
(***************************************************************************)
THEOREM PInvHolds == Spec => []PInv
BY PInvInit, PInvStep, PTL DEF Spec

(***************************************************************************)
(* Backed hashes agree: two different hashes, each with a Byzantine        *)
(* majority behind it when all the faulty power is counted for both,       *)
(* would need more than a third of the power to be faulty.                 *)
(***************************************************************************)
LEMMA BackedAgree == PInv => PrecommitAgreement
<1> SUFFICES ASSUME PInv, NEW n \in HonestVoters, NEW m \in HonestVoters,
                    precommit[n] \in Hashes, precommit[m] \in Hashes,
                    precommit[n] # precommit[m]
             PROVE  FALSE
  BY DEF PrecommitAgreement
<1> DEFINE Hx == HonestFor(precommit[n])
           Hy == HonestFor(precommit[m])
           P == TotalPower
           a == PowerOf(Hx)
           b == PowerOf(Hy)
           f == PowerOf(ByzVoters)
<1>1. /\ Hx \subseteq Voters /\ Hy \subseteq Voters
      /\ ByzVoters \subseteq Voters
      /\ Hx \cap Hy = {}
      /\ (Hx \cup Hy) \cap ByzVoters = {}
  BY RoundAssumption DEF HonestFor, HonestVoters
<1>2. PowerOf(Hx \cup Hy \cup ByzVoters) = a + b + f
  <2>1. PowerOf(Hx \cup Hy) = a + b
    BY <1>1, PowerUnion
  <2>2. PowerOf((Hx \cup Hy) \cup ByzVoters) = PowerOf(Hx \cup Hy) + f
    BY <1>1, PowerUnion
  <2>3. QED
    BY <2>1, <2>2
<1>3. PowerOf(Hx \cup Hy \cup ByzVoters) <= P
  BY <1>1, PowerMono DEF TotalPower
<1>4. a \in Nat /\ b \in Nat /\ f \in Nat /\ P \in Nat
  BY <1>1, PowerFinite DEF TotalPower
<1>5. a + f >= ByzantineMajority(P) /\ b + f >= ByzantineMajority(P)
  BY DEF PInv, PrecommitBacked
<1>6. 3 * f < P
  BY RoundAssumption DEF TotalPower
<1>7. f > f
  BY <1>2, <1>3, <1>4, <1>5, <1>6, MajoritiesShareHonest
<1>8. QED
  BY <1>4, <1>7

(***************************************************************************)
(* Honest validators never precommit different blocks in a round           *)
(* (DecidePrecommit, consensusstrategy.go 405-416), for every validator    *)
(* set and power assignment in which the faulty validators hold less than  *)
(* a third of the power.                                                   *)
(***************************************************************************)
THEOREM PrecommitAgreementHolds == Spec => []PrecommitAgreement
BY PInvInit, PInvStep, BackedAgree, PTL DEF Spec
=============================================================================
