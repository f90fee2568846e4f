--------------------------- MODULE PrecommitRound ---------------------------
(***************************************************************************)
(* One round of voting as DecidePrecommit sees it.  Every honest validator *)
(* prevotes once (the value ChooseProposedBlock gave it, or nil); the      *)
(* engine of each honest validator collects prevotes as they arrive and,  *)
(* once prevoting concludes, calls DecidePrecommit once with the summary  *)
(* of what it has collected.  Faulty validators send whatever prevote they *)
(* like to each validator, different ones to different validators.        *)
(***************************************************************************)
EXTENDS Integers, FiniteSets, PrecommitDecision

CONSTANTS
    Voters,     \* the validator set
    ByzVoters,  \* the faulty validators
    Power,      \* Power[v]: voting power of v
    Hashes,     \* block hashes a prevote may name
    NoVote      \* nothing sent, received or decided yet

HonestVoters == Voters \ ByzVoters

\* The units of voting power the validators of S hold: v holds Power[v].
PowerUnits(S) == UNION {{v} \X (1..Power[v]) : v \in S}

\* Power of a set of validators: the sum of their powers, counted as the
\* number of units they hold.
PowerOf(S) == Cardinality(PowerUnits(S))

\* AvailablePower: the whole validator set's power.
TotalPower == PowerOf(Voters)

Values == Hashes \cup {Nil}

ASSUME RoundAssumption ==
    /\ IsFiniteSet(Voters)
    /\ ByzVoters \subseteq Voters
    /\ Power \in [Voters -> Nat \ {0}]
    /\ Nil \notin Hashes /\ NoVote \notin Values
    /\ 3 * PowerOf(ByzVoters) < TotalPower

VARIABLES
    prevote,    \* prevote[v]: the prevote honest v sent
    byzSent,    \* byzSent[n][b]: the prevote faulty b sent to n
    seen,       \* seen[n]: honest validators whose prevote n has received
    precommit   \* precommit[n]: what DecidePrecommit returned at n

vars == <<prevote, byzSent, seen, precommit>>

\* The prevote power for x in n's vote summary.
PrevotePowerAt(n, x) ==
    PowerOf({v \in seen[n] : prevote[v] = x}
              \cup {b \in ByzVoters : byzSent[n][b] = x})

\* The vote summaries the engine can hand to DecidePrecommit at n: the
\* most-voted value is one with the largest power (ties either way).
Summaries(n) ==
    {[available |-> TotalPower,
      prevoted |-> PowerOf(seen[n] \cup {b \in ByzVoters : byzSent[n][b] # NoVote}),
      prevotePower |-> [x \in Values |-> PrevotePowerAt(n, x)],
      mostVoted |-> m] :
        m \in {x \in Values : \A y \in Values :
                                 PrevotePowerAt(n, x) >= PrevotePowerAt(n, y)}}

Prevote(v, x) ==
    /\ prevote[v] = NoVote
    /\ prevote' = [prevote EXCEPT ![v] = x]
    /\ UNCHANGED <<byzSent, seen, precommit>>

Receive(n, v) ==
    /\ prevote[v] # NoVote
    /\ v \notin seen[n]
    /\ seen' = [seen EXCEPT ![n] = @ \cup {v}]
    /\ UNCHANGED <<prevote, byzSent, precommit>>

ByzPrevote(n, b, x) ==
    /\ byzSent[n][b] = NoVote
    /\ byzSent' = [byzSent EXCEPT ![n][b] = x]
    /\ UNCHANGED <<prevote, seen, precommit>>

\* The engine calls DecidePrecommit at most once per round.
Precommit(n) ==
    /\ precommit[n] = NoVote
    /\ \E vs \in Summaries(n) : precommit' = [precommit EXCEPT ![n] = DecidePrecommit(vs)]
    /\ UNCHANGED <<prevote, byzSent, seen>>

Init ==
    /\ prevote = [v \in HonestVoters |-> NoVote]
    /\ byzSent = [n \in HonestVoters |-> [b \in ByzVoters |-> NoVote]]
    /\ seen = [n \in HonestVoters |-> {}]
    /\ precommit = [n \in HonestVoters |-> NoVote]

Next ==
    \/ \E v \in HonestVoters, x \in Values : Prevote(v, x)
    \/ \E n, v \in HonestVoters : Receive(n, v)
    \/ \E n \in HonestVoters, b \in ByzVoters, x \in Values : ByzPrevote(n, b, x)
    \/ \E n \in HonestVoters : Precommit(n)

Spec == Init /\ [][Next]_vars

-----------------------------------------------------------------------------
(***************************************************************************)
(* Honest validators never precommit different blocks in the same round,  *)
(* however the faulty validators split their prevotes and whenever each   *)
(* engine stops collecting: DecidePrecommit's threshold makes any two     *)
(* precommitted hashes share an honest prevote, and an honest validator   *)
(* prevotes once.                                                          *)
(***************************************************************************)
PrecommitAgreement ==
    \A n, m \in HonestVoters :
        precommit[n] \in Hashes /\ precommit[m] \in Hashes =>
            precommit[n] = precommit[m]
=============================================================================
