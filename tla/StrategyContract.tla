--------------------------- MODULE StrategyContract ---------------------------
(***************************************************************************)
(* What a consensus strategy promises the engine, with no request cache,   *)
(* no transaction buffer, no round view and no restart bookkeeping.  Each  *)
(* honest validator is in a round; when it is the round's proposer it puts *)
(* out at most one header for that round, well formed, naming that round,  *)
(* whose batch simulates and whose time is not ahead of its own clock; it  *)
(* settles on at most one proposed header per round, and only on one that  *)
(* is well formed, names its round, simulates and is not in its future.   *)
(* A restart may make it forget its choice, never its proposal.  Faulty   *)
(* validators propose what they like.                                      *)
(***************************************************************************)
EXTENDS Integers, Sequences

CONSTANTS
    Nodes, Byz, Txs, BadTxs, Conflicts, Heights, MaxRound,
    MaxTime, Skew, ByzHeaders, NoChoice, Malformed, BadAnnotation,
    ProposerOf(_, _)    \* the validator that proposes in a height and round

Honest == Nodes \ Byz

VARIABLES
    round,      \* round[n]: <<height, round>> n's engine is in (<<0, 0>> before any)
    headers,    \* every header proposed so far
    chosen,     \* chosen[n]: the header n settled on this round, or NoChoice
    now         \* global time

vars == <<round, headers, chosen, now>>

\* The batch simulates: each transaction succeeds after the ones before it.
Simulates(b) ==
    \A i \in 1..Len(b) :
        /\ b[i] \notin BadTxs
        /\ \A j \in 1..(i - 1) : <<b[j], b[i]>> \notin Conflicts

\* A header n may settle on, or put out itself, in round <<h, r>>.
Admissible(n, ph, h, r) ==
    /\ ph.height = h /\ ph.round = r
    /\ ph.id # Malformed
    /\ ph.id.h = h /\ ph.id.r = r
    /\ Simulates(ph.id.txs)
    /\ ph.time # BadAnnotation
    /\ ph.time <= now + Skew[n]

\* n, the proposer of <<h, r>>, has not proposed for it yet and may put out
\* one admissible header of its own (or fail to, and put out none).
MayPropose(n, h, r) ==
    \/ UNCHANGED headers
    \/ /\ ProposerOf(h, r) = n
       /\ ~\E p \in headers : p.proposer = n /\ p.height = h /\ p.round = r
       /\ \E ph \in {p \in headers' : p.proposer = n} :
              /\ Admissible(n, ph, h, r)
              /\ headers' = headers \cup {ph}

\* The engine moves n to a later round: its choice is dropped.
Enter(n, h, r) ==
    /\ \/ h > round[n][1]
       \/ h = round[n][1] /\ r > round[n][2]
    /\ round' = [round EXCEPT ![n] = <<h, r>>]
    /\ chosen' = [chosen EXCEPT ![n] = NoChoice]
    /\ MayPropose(n, h, r)
    /\ UNCHANGED now

\* After a restart n proposes in the round it is in, if it has not yet.
Resume(n) ==
    /\ round[n][1] # 0
    /\ MayPropose(n, round[n][1], round[n][2])
    /\ UNCHANGED <<round, chosen, now>>

\* n settles on a proposed header of its round.
Choose(n, ph) ==
    /\ round[n][1] # 0
    /\ chosen[n] = NoChoice
    /\ Admissible(n, ph, round[n][1], round[n][2])
    /\ chosen' = [chosen EXCEPT ![n] = ph]
    /\ UNCHANGED <<round, headers, now>>

\* A restart loses n's choice.
Forget(n) ==
    /\ chosen' = [chosen EXCEPT ![n] = NoChoice]
    /\ UNCHANGED <<round, headers, now>>

FaultyPropose(ph) ==
    /\ headers' = headers \cup {ph}
    /\ UNCHANGED <<round, chosen, now>>

Advance ==
    /\ now < MaxTime
    /\ now' = now + 1
    /\ UNCHANGED <<round, headers, chosen>>

Init ==
    /\ round = [n \in Honest |-> <<0, 0>>]
    /\ headers = {}
    /\ chosen = [n \in Honest |-> NoChoice]
    /\ now = 0

Next ==
    \/ \E n \in Honest, h \in Heights, r \in 0..MaxRound : Enter(n, h, r)
    \/ \E n \in Honest : Resume(n)
    \/ \E n \in Honest, ph \in headers : Choose(n, ph)
    \/ \E n \in Honest : Forget(n)
    \/ \E ph \in ByzHeaders : FaultyPropose(ph)
    \/ Advance

Spec == Init /\ [][Next]_vars
=============================================================================
