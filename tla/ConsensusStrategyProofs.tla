----------------------- MODULE ConsensusStrategyProofs -----------------------
(***************************************************************************)
(* Proofs about the ConsensusStrategy model, for every value of the        *)
(* constants that satisfies ConstantsAssumption.                           *)
(***************************************************************************)
EXTENDS ConsensusStrategy, TLAPS

\* The assumptions on the constants that the proofs use everywhere; the
\* ones about the faulty validators' headers are cited where needed.
LEMMA ConstFacts ==
    /\ Byz \subseteq Nodes
    /\ Heights \subseteq Nat \ {0}
    /\ MaxRound \in Nat /\ MaxBatch \in Nat /\ MaxBuf \in 0..MaxBatch
    /\ MaxTime \in Nat /\ TicksPerSecond \in Nat \ {0} /\ MaxRestarts \in Nat
    /\ Skew \in [Nodes -> Int]
BY ConstantsAssumption, MaxIntAssumption

USE ConstFacts

-----------------------------------------------------------------------------
(***************************************************************************)
(* Lemmas about the data the model is built from.                          *)
(***************************************************************************)

\* The bounds of the model are natural numbers.
LEMMA BoundsNat ==
    /\ MaxBatch \in Nat /\ MaxBuf \in Nat /\ MaxBuf <= MaxBatch
    /\ MaxRound \in Nat /\ MaxTime \in Nat /\ MaxRestarts \in Nat
OBVIOUS

\* An empty buffer is a batch.
LEMMA EmptyTxSeq ==
    << >> \in TxSeqs
<1>1. << >> \in [1..0 -> Txs]
  OBVIOUS
<1>2. 0 \in 0..MaxBatch
  BY BoundsNat
<1>3. QED
  BY <1>1, <1>2 DEF TxSeqs

\* A buffer below its bound grows by one transaction and stays a batch a
\* data ID can name (AddTx appends to the SDKTxBuf).
LEMMA AppendTxSeq ==
    ASSUME NEW s \in TxSeqs, NEW tx \in Txs, Len(s) < MaxBatch
    PROVE  Append(s, tx) \in TxSeqs
<1>1. PICK k \in 0..MaxBatch : s \in [1..k -> Txs]
  BY DEF TxSeqs
<1>2. s \in Seq(Txs) /\ Len(s) = k
  BY <1>1, BoundsNat
<1>3. Append(s, tx) \in Seq(Txs) /\ Len(Append(s, tx)) = k + 1
  BY <1>2
<1>4. Append(s, tx) \in [1..(k + 1) -> Txs]
  <2>0. Seq(Txs) = UNION {[1..m -> Txs] : m \in Nat}
    OBVIOUS
  <2>1. PICK m \in Nat : Append(s, tx) \in [1..m -> Txs]
    BY <1>3, <2>0
  <2>2. m = k + 1
    BY <2>1, <1>3
  <2>3. QED
    BY <2>1, <2>2
<1>5. k + 1 \in 0..MaxBatch
  BY <1>1, <1>2, BoundsNat
<1>6. QED
  BY <1>4, <1>5 DEF TxSeqs

\* The header a proposer builds in EnterRound is a header of the model.
LEMMA ProposedHeader ==
    ASSUME NEW n \in Honest, NEW h \in Heights, NEW r \in Rounds,
           NEW batch \in TxSeqs, NEW t \in Int
    PROVE  [proposer |-> n, height |-> h, round |-> r,
            id |-> [h |-> h, r |-> r, txs |-> batch], time |-> t] \in Headers
BY DEF Headers, DataIDs, Honest

\* The claimed time of a proposal is an integer.
LEMMA ClaimedInt ==
    ASSUME NEW n \in Nodes, now \in Int
    PROVE  Claimed(LocalNow(n)) \in Int
BY DEF Claimed, LocalNow

-----------------------------------------------------------------------------
(***************************************************************************)
(* The strengthenings that make the safety invariants inductive.           *)
(***************************************************************************)

\* <<h1, r1>> is not later than <<h2, r2>>.
NotLater(h1, r1, h2, r2) == h1 < h2 \/ (h1 = h2 /\ r1 <= r2)

\* A choice is only held while the strategy is in a round: after a restart
\* (curH = 0) the choice is gone too.
ChoiceNeedsRound ==
    \A n \in Honest : curH[n] = 0 => choice[n] = NoChoice

\* Every header an honest validator proposed is for a round its engine has
\* reached, and one for the engine's current round is in its own round view
\* (the engine stores its own proposal as it accepts it).
OwnHeadersTracked ==
    \A p \in headers : p.proposer \in Honest =>
        LET n == p.proposer IN
        /\ NotLater(p.height, p.round, eh[n], er[n])
        /\ (p.height = eh[n] /\ p.round = er[n]) => p \in ViewSet(phs[n])

SoundInv == TypeOK /\ ChoiceNeedsRound /\ ChosenIsSound

EquivInv == TypeOK /\ OwnHeadersTracked /\ NoEquivocation

-----------------------------------------------------------------------------
(***************************************************************************)
(* EnterRound keeps the state it writes well typed, whatever round and     *)
(* round view the engine passes.                                           *)
(***************************************************************************)
LEMMA EnterRoundType ==
    ASSUME TypeOK, NEW n \in Honest, NEW h \in Heights, NEW r \in Rounds,
           NEW view \in Seq(Headers), EnterRound(n, h, r, view)
    PROVE  /\ curH' \in [Honest -> {0} \cup Heights]
           /\ curR' \in [Honest -> Rounds]
           /\ phs' \in [Honest -> Seq(Headers)]
           /\ cache' \in [Honest -> [DataIDs -> CacheStatus]]
           /\ headers' \subseteq Headers
           /\ provided' \subseteq Nodes \X DataIDs
<1> DEFINE batch == txBuf[n]
           id    == [h |-> h, r |-> r, txs |-> batch]
           ph    == [proposer |-> n, height |-> h, round |-> r, id |-> id,
                     time |-> Claimed(LocalNow(n))]
<1>1. curH' \in [Honest -> {0} \cup Heights] /\ curR' \in [Honest -> Rounds]
  BY DEF EnterRound, TypeOK
<1>2. ph \in Headers /\ id \in DataIDs
  <2>1. batch \in TxSeqs
    BY DEF TypeOK
  <2>2. Claimed(LocalNow(n)) \in Int
    BY ClaimedInt DEF TypeOK, Honest
  <2>3. QED
    BY <2>1, <2>2, ProposedHeader DEF DataIDs
<1>3. Append(view, ph) \in Seq(Headers)
  BY <1>2
<1>4. Handoff(n, ph, view) =>
        /\ phs' \in [Honest -> Seq(Headers)]
        /\ headers' \subseteq Headers
  BY <1>2, <1>3 DEF Handoff, TypeOK
<1>5. CASE Proposer(h, r) # n \/ \E p \in ViewSet(view) : p.proposer = n
  BY <1>5 DEF EnterRound, TypeOK
<1>6. CASE ~(Proposer(h, r) # n \/ \E p \in ViewSet(view) : p.proposer = n)
  <2>1. Propose(n, h, r, view)
    BY <1>6 DEF EnterRound
  <2>2. (provided \cup {<<n, id>>}) \subseteq Nodes \X DataIDs
    BY <1>2 DEF TypeOK, Honest
  <2>3. [cache EXCEPT ![n][id] = "ready"] \in [Honest -> [DataIDs -> CacheStatus]]
    BY <1>2 DEF TypeOK, CacheStatus
  <2>4. CASE txBuf[n] = << >> /\ Handoff(n, ph, view)
                /\ UNCHANGED <<cache, provided>>
    BY <2>4, <1>1, <1>4 DEF TypeOK
  <2>5. CASE phs' = [phs EXCEPT ![n] = view]
                /\ UNCHANGED <<cache, provided, headers>>
    BY <2>5, <1>1 DEF TypeOK
  <2>6. CASE /\ provided' = provided \cup {<<n, id>>}
             /\ cache' = [cache EXCEPT ![n][id] = "ready"]
             /\ Handoff(n, ph, view)
    BY <2>6, <1>1, <2>2, <2>3, <1>4
  <2>7. QED
    BY <2>1, <2>4, <2>5, <2>6 DEF Propose
<1>7. QED
  BY <1>1, <1>5, <1>6

-----------------------------------------------------------------------------
\* The initial state is well typed.
LEMMA TypeInit == Init => TypeOK
<1> SUFFICES ASSUME Init PROVE TypeOK
  OBVIOUS
<1>1. txBuf \in [Honest -> TxSeqs]
  BY EmptyTxSeq DEF Init
<1>2. cache \in [Honest -> [DataIDs -> CacheStatus]]
  BY DEF Init, CacheStatus
<1>3. QED
  BY <1>1, <1>2, BoundsNat DEF Init, TypeOK, Rounds

\* Every step of every action keeps the state well typed.
LEMMA TypeStep == TypeOK /\ [Next]_vars => TypeOK'
<1> SUFFICES ASSUME TypeOK, [Next]_vars PROVE TypeOK'
  OBVIOUS
<1>1. ASSUME NEW n \in Honest, NEW h \in Heights, NEW r \in Rounds,
             NewRound(n, h, r)
      PROVE  TypeOK'
  <2>1. << >> \in Seq(Headers)
    OBVIOUS
  <2>2. EnterRound(n, h, r, << >>)
    BY <1>1 DEF NewRound
  <2>3. QED
    BY <1>1, <2>1, <2>2, EnterRoundType DEF NewRound, TypeOK
<1>2. ASSUME NEW n \in Honest, ReEnterRound(n)
      PROVE  TypeOK'
  <2>1. eh[n] \in Heights /\ er[n] \in Rounds /\ phs[n] \in Seq(Headers)
    BY <1>2 DEF ReEnterRound, TypeOK
  <2>2. QED
    BY <1>2, <2>1, EnterRoundType DEF ReEnterRound, TypeOK
<1>3. ASSUME NEW n \in Honest, NEW sf \in SUBSET SimCandidates(n),
             NEW rf \in SUBSET RetrCandidates(n),
             ChooseProposedBlock(n, sf, rf)
      PROVE  TypeOK'
  <2> DEFINE v == phs[n]
             acc == {i \in 1..Len(v) : Acceptable(n, v[i], i \in sf)}
  <2>1. v \in Seq(Headers)
    BY DEF TypeOK
  <2>2. ASSUME NEW scanned \in SUBSET (1..Len(v)), Retrieval(n, scanned, rf)
        PROVE  /\ cache' \in [Honest -> [DataIDs -> CacheStatus]]
               /\ retrieved' \in [Honest -> SUBSET DataIDs]
    <3>1. \A j \in scanned : v[j] \in Headers
      BY <2>1
    <3>2. \A j \in scanned : NeedsRetrieval(n, v[j]) => v[j].id \in DataIDs
      BY <3>1 DEF NeedsRetrieval, InRound, Headers
    <3>3. QED
      BY <2>2, <3>2 DEF Retrieval, TypeOK, CacheStatus
  <2>3. CASE acc = {} /\ Retrieval(n, 1..Len(v), rf) /\ UNCHANGED choice
    BY <2>2, <2>3, <1>3 DEF ChooseProposedBlock, TypeOK
  <2>4. ASSUME NEW first \in acc,
               choice' = [choice EXCEPT ![n] = v[first]],
               Retrieval(n, 1..(first - 1), rf)
        PROVE  TypeOK'
    <3>1. first \in 1..Len(v)
      OBVIOUS
    <3>2. v[first] \in Headers
      BY <2>1, <3>1
    <3>3. choice' \in [Honest -> Headers \cup {NoChoice}]
      BY <2>4, <3>2 DEF TypeOK
    <3>4. 1..(first - 1) \subseteq 1..Len(v)
      BY <3>1
    <3>5. QED
      BY <2>2, <2>4, <3>3, <3>4, <1>3 DEF ChooseProposedBlock, TypeOK
  <2>5. QED
    BY <1>3, <2>3, <2>4 DEF ChooseProposedBlock
<1>4. ASSUME NEW n \in Honest, NEW ph \in headers, Deliver(n, ph)
      PROVE  TypeOK'
  BY <1>4 DEF Deliver, TypeOK
<1>5. ASSUME NEW n \in Honest, NEW id \in DataIDs, FetchComplete(n, id)
      PROVE  TypeOK'
  BY <1>5 DEF FetchComplete, TypeOK, CacheStatus
<1>6. ASSUME NEW n \in Honest, NEW tx \in Txs, SubmitTransaction(n, tx)
      PROVE  TypeOK'
  <2>1. Len(txBuf[n]) < MaxBatch
    BY <1>6, BoundsNat DEF SubmitTransaction, TypeOK
  <2>2. Append(txBuf[n], tx) \in TxSeqs
    BY <2>1, AppendTxSeq DEF TypeOK
  <2>3. QED
    BY <1>6, <2>2 DEF SubmitTransaction, TypeOK
<1>7. ASSUME NEW ph \in ByzHeaders, NEW serve \in BOOLEAN, ByzPropose(ph, serve)
      PROVE  TypeOK'
  <2>1. ph \in Headers
    BY ConstantsAssumption
  <2>2. ph.id # Malformed => ph.id \in DataIDs
    BY <2>1 DEF Headers
  <2>3. ph.proposer \in Nodes
    BY <2>1 DEF Headers
  <2>4. QED
    BY ConstantsAssumption, <1>7, <2>2, <2>3 DEF ByzPropose, TypeOK
<1>8. ASSUME NEW n \in Honest, Restart(n)
      PROVE  TypeOK'
  <2>1. txBuf' \in [Honest -> TxSeqs]
    BY <1>8, EmptyTxSeq DEF Restart, TypeOK
  <2>2. cache' \in [Honest -> [DataIDs -> CacheStatus]]
    BY <1>8 DEF Restart, TypeOK, CacheStatus
  <2>3. provided' \subseteq Nodes \X DataIDs
    BY <1>8 DEF Restart, TypeOK
  <2>4. restarts' \in 0..MaxRestarts
    BY <1>8, BoundsNat DEF Restart, TypeOK
  <2>5. QED
    BY <1>8, <2>1, <2>2, <2>3, <2>4, BoundsNat DEF Restart, TypeOK, Rounds
<1>9. CASE Tick
  BY <1>9 DEF Tick, TypeOK
<1>10. CASE UNCHANGED vars
  BY <1>10 DEF vars, TypeOK
<1>11. QED
  BY <1>1, <1>2, <1>3, <1>4, <1>5, <1>6, <1>7, <1>8, <1>9, <1>10 DEF Next

(***************************************************************************)
(* Type correctness of the model: every reachable state gives each         *)
(* variable a value of its type, in particular every header the strategy   *)
(* chooses or hands to the engine is well formed and every ID it asks the  *)
(* retriever for is a parsed data ID.                                      *)
(***************************************************************************)
THEOREM TypeCorrect == Spec => []TypeOK
BY TypeInit, TypeStep, PTL DEF Spec
-----------------------------------------------------------------------------
(***************************************************************************)
(* What EnterRound changes besides its round fields: its own round view   *)
(* (which only grows), and the set of proposed headers, by at most one    *)
(* header of this validator for the round entered, only when the view it  *)
(* was given holds none of its own, and then also into its round view.   *)
(***************************************************************************)

\* The values of a sequence after Append.
LEMMA ViewSetAppend ==
    ASSUME NEW S, NEW s \in Seq(S), NEW e \in S
    PROVE  ViewSet(Append(s, e)) = ViewSet(s) \cup {e}
<1>1. DOMAIN Append(s, e) = DOMAIN s \cup {Len(s) + 1}
  OBVIOUS
<1>2. \A i \in DOMAIN s : Append(s, e)[i] = s[i]
  OBVIOUS
<1>3. Append(s, e)[Len(s) + 1] = e /\ Len(s) + 1 \notin DOMAIN s
  OBVIOUS
<1>4. QED
  BY <1>1, <1>2, <1>3, Zenon DEF ViewSet

\* EnterRound added one header of n for round <<hgt, rnd>>, having found
\* none of n's own in the view it was given, and put it into n's view.
AddedOwnHeader(n, hgt, rnd, view) ==
    \E ph \in Headers :
        /\ ph.proposer = n /\ ph.height = hgt /\ ph.round = rnd
        /\ ~\E p \in ViewSet(view) : p.proposer = n
        /\ headers' = headers \cup {ph}
        /\ ph \in ViewSet(phs'[n])

\* The frame and effect of EnterRound.
LEMMA EnterRoundEffect ==
    ASSUME TypeOK, NEW n \in Honest, NEW hgt \in Heights, NEW rnd \in Rounds,
           NEW view \in Seq(Headers), EnterRound(n, hgt, rnd, view)
    PROVE  /\ \A m \in Honest \ {n} : phs'[m] = phs[m]
           /\ ViewSet(view) \subseteq ViewSet(phs'[n])
           /\ headers' = headers \/ AddedOwnHeader(n, hgt, rnd, view)
<1> DEFINE batch == txBuf[n]
           id    == [h |-> hgt, r |-> rnd, txs |-> batch]
           ph    == [proposer |-> n, height |-> hgt, round |-> rnd, id |-> id,
                     time |-> Claimed(LocalNow(n))]
           Skip  == phs' = [phs EXCEPT ![n] = view] /\ UNCHANGED headers
           Add   == /\ headers' = headers \cup {ph}
                    /\ phs' = [phs EXCEPT ![n] = Append(view, ph)]
<1>2. ph \in Headers
  <2>1. Claimed(LocalNow(n)) \in Int
    BY ClaimedInt DEF TypeOK, Honest
  <2>2. QED
    BY <2>1, ProposedHeader DEF TypeOK
<1>3. Skip => /\ \A m \in Honest \ {n} : phs'[m] = phs[m]
              /\ ViewSet(view) \subseteq ViewSet(phs'[n])
              /\ headers' = headers
  BY DEF TypeOK
<1>4. Add => /\ \A m \in Honest \ {n} : phs'[m] = phs[m]
             /\ ViewSet(view) \subseteq ViewSet(phs'[n])
             /\ ph \in ViewSet(phs'[n])
  <2>1. ViewSet(Append(view, ph)) = ViewSet(view) \cup {ph}
    BY <1>2, ViewSetAppend
  <2>2. QED
    BY <2>1 DEF TypeOK
<1>5. Handoff(n, ph, view) => Skip \/ Add
  BY DEF Handoff
<1>6. CASE Proposer(hgt, rnd) # n \/ \E p \in ViewSet(view) : p.proposer = n
  <2>1. Skip
    BY <1>6 DEF EnterRound
  <2>2. QED
    BY <1>3, <2>1
<1>7. CASE ~(Proposer(hgt, rnd) # n \/ \E p \in ViewSet(view) : p.proposer = n)
  <2>1. Propose(n, hgt, rnd, view)
    BY <1>7 DEF EnterRound
  <2>2. Skip \/ Add
    BY <2>1, <1>5 DEF Propose
  <2>3. ~\E p \in ViewSet(view) : p.proposer = n
    BY <1>7
  <2>4. QED
    BY <1>2, <1>3, <1>4, <2>2, <2>3 DEF AddedOwnHeader
<1>8. QED
  BY <1>6, <1>7

-----------------------------------------------------------------------------
(***************************************************************************)
(* ChosenIsSound.                                                          *)
(***************************************************************************)

\* A sound choice stays sound while the strategy stays in its round, the
\* round view only grows and the clock only moves forward.
LEMMA SoundChoiceStable ==
    ASSUME TypeOK, NEW m \in Honest, SoundChoice(m),
           choice'[m] = choice[m], curH'[m] = curH[m], curR'[m] = curR[m],
           ViewSet(phs[m]) \subseteq ViewSet(phs'[m]),
           now' \in Int, now <= now'
    PROVE  SoundChoice(m)'
<1>1. Skew[m] \in Int
  BY DEF Honest
<1>2. choice[m] # NoChoice => choice[m].time \in Int \cup {BadAnnotation}
  BY DEF TypeOK, Headers
<1>3. LocalNow(m) <= LocalNow(m)'
  BY <1>1 DEF TypeOK, LocalNow
<1> SUFFICES ASSUME choice'[m] # NoChoice
             PROVE  /\ choice'[m] \in ViewSet(phs'[m])
                    /\ choice'[m].id # Malformed
                    /\ choice'[m].id.h = curH'[m] /\ choice'[m].id.r = curR'[m]
                    /\ ValidChain(choice'[m].id.txs)
                    /\ choice'[m].time # BadAnnotation
                    /\ choice'[m].time <= LocalNow(m)'
  BY DEF SoundChoice
<1>4. /\ choice[m] \in ViewSet(phs[m])
      /\ choice[m].id # Malformed
      /\ choice[m].id.h = curH[m] /\ choice[m].id.r = curR[m]
      /\ ValidChain(choice[m].id.txs)
      /\ choice[m].time # BadAnnotation /\ choice[m].time <= LocalNow(m)
  BY DEF SoundChoice
<1>5. choice[m] # NoChoice
  OBVIOUS
<1>6. choice[m].time \in Int
  BY <1>2, <1>4, <1>5, Zenon
<1>7. choice'[m] \in ViewSet(phs'[m])
  BY <1>4
<1>8. ValidChain(choice'[m].id.txs)
  BY <1>4
<1>9. choice'[m].time <= LocalNow(m)'
  BY <1>1, <1>4, <1>6 DEF LocalNow, TypeOK
<1>10. QED
  BY <1>4, <1>7, <1>8, <1>9

\* A choice made by ChooseProposedBlock is sound.
LEMMA ChooseSound ==
    ASSUME TypeOK, NEW n \in Honest, NEW sf, NEW rf,
           ChooseProposedBlock(n, sf, rf)
    PROVE  SoundChoice(n)'
<1> DEFINE v   == phs[n]
           acc == {i \in 1..Len(v) : Acceptable(n, v[i], i \in sf)}
<1>1. UNCHANGED <<curH, curR, phs, now>>
  BY DEF ChooseProposedBlock
<1>2. CASE UNCHANGED choice
  BY <1>2 DEF ChooseProposedBlock, SoundChoice
<1>3. ASSUME NEW first \in acc, choice' = [choice EXCEPT ![n] = v[first]]
      PROVE  SoundChoice(n)'
  <2>1. first \in DOMAIN v /\ choice'[n] = v[first]
    BY <1>3 DEF TypeOK
  <2>2. Acceptable(n, v[first], first \in sf)
    BY <1>3
  <2>3. v[first].id # Malformed /\ v[first].id.h = curH[n] /\ v[first].id.r = curR[n]
    BY <2>2 DEF Acceptable, InRound
  <2>4. ValidChain(v[first].id.txs)
    <3>1. CASE Len(v[first].id.txs) = 0
      BY <3>1 DEF ValidChain
    <3>2. CASE SimulationPasses(v[first], first \in sf)
      BY <3>2 DEF SimulationPasses
    <3>3. QED
      BY <2>2, <3>1, <3>2 DEF Acceptable
  <2>5. v[first].time # BadAnnotation /\ v[first].time <= LocalNow(n)
    BY <2>2 DEF Acceptable, TimeAcceptable
  <2>6. v[first] \in ViewSet(v)
    BY <2>1 DEF ViewSet
  <2>7. QED
    BY <1>1, <2>1, <2>3, <2>4, <2>5, <2>6 DEF SoundChoice, LocalNow
<1>4. QED
  BY <1>2, <1>3 DEF ChooseProposedBlock

\* The initial state satisfies the strengthened invariant.
LEMMA SoundInit == Init => SoundInv
BY TypeInit DEF Init, SoundInv, ChoiceNeedsRound, ChosenIsSound, SoundChoice

\* Every step keeps the strengthened invariant.
LEMMA SoundStep == SoundInv /\ [Next]_vars => SoundInv'
<1> SUFFICES ASSUME TypeOK, ChoiceNeedsRound, ChosenIsSound, [Next]_vars
             PROVE  SoundInv'
  BY DEF SoundInv
<1>1. TypeOK'
  BY TypeStep
<1> DEFINE Good(m) == (curH'[m] = 0 => choice'[m] = NoChoice) /\ SoundChoice(m)'
<1>2. (\A m \in Honest : Good(m)) => SoundInv'
  BY <1>1 DEF SoundInv, ChoiceNeedsRound, ChosenIsSound
<1>3. ASSUME NEW m \in Honest,
             choice'[m] = choice[m], curH'[m] = curH[m], curR'[m] = curR[m],
             ViewSet(phs[m]) \subseteq ViewSet(phs'[m]), now' = now
      PROVE  Good(m)
  BY <1>3, SoundChoiceStable DEF TypeOK, ChoiceNeedsRound, ChosenIsSound
<1>4. ASSUME NEW n \in Honest, NEW h \in Heights, NEW r \in Rounds,
             NewRound(n, h, r)
      PROVE  SoundInv'
  <2>1. EnterRound(n, h, r, << >>) /\ << >> \in Seq(Headers)
    BY <1>4 DEF NewRound
  <2>2. Good(n)
    BY <1>4 DEF NewRound, SoundChoice, TypeOK
  <2>3. ASSUME NEW m \in Honest \ {n} PROVE Good(m)
    <3>1. curH'[m] = curH[m] /\ curR'[m] = curR[m]
      BY <2>1 DEF EnterRound, TypeOK
    <3>4. phs'[m] = phs[m]
      BY <2>1, EnterRoundEffect
    <3>2. choice'[m] = choice[m] /\ now' = now
      BY <1>4 DEF NewRound, TypeOK
    <3>3. QED
      BY <1>3, <3>1, <3>2, <3>4
  <2>4. QED
    BY <1>2, <2>2, <2>3
<1>5. ASSUME NEW n \in Honest, ReEnterRound(n)
      PROVE  SoundInv'
  <2>1. EnterRound(n, eh[n], er[n], phs[n]) /\ eh[n] \in Heights
        /\ er[n] \in Rounds /\ phs[n] \in Seq(Headers)
    BY <1>5 DEF ReEnterRound, TypeOK
  <2>2. choice[n] = NoChoice
    BY <1>5 DEF ReEnterRound, ChoiceNeedsRound
  <2>3. Good(n)
    BY <1>5, <2>2 DEF ReEnterRound, SoundChoice
  <2>4. ASSUME NEW m \in Honest \ {n} PROVE Good(m)
    <3>1. curH'[m] = curH[m] /\ curR'[m] = curR[m]
      BY <2>1 DEF EnterRound, TypeOK
    <3>4. phs'[m] = phs[m]
      BY <2>1, EnterRoundEffect
    <3>2. choice'[m] = choice[m] /\ now' = now
      BY <1>5 DEF ReEnterRound
    <3>3. QED
      BY <1>3, <3>1, <3>2, <3>4
  <2>5. QED
    BY <1>2, <2>3, <2>4
<1>6. ASSUME NEW n \in Honest, NEW sf, NEW rf, ChooseProposedBlock(n, sf, rf)
      PROVE  SoundInv'
  <2>1. Good(n)
    BY <1>6, ChooseSound DEF ChooseProposedBlock
  <2>2. ASSUME NEW m \in Honest \ {n} PROVE Good(m)
    BY <1>3, <1>6 DEF ChooseProposedBlock, TypeOK
  <2>3. QED
    BY <1>2, <2>1, <2>2
<1>7. ASSUME NEW n \in Honest, NEW ph \in headers, Deliver(n, ph)
      PROVE  SoundInv'
  <2>1. ViewSet(phs'[n]) = ViewSet(phs[n]) \cup {ph}
    BY <1>7, ViewSetAppend DEF Deliver, TypeOK
  <2>2. \A m \in Honest : ViewSet(phs[m]) \subseteq ViewSet(phs'[m])
    BY <1>7, <2>1 DEF Deliver, TypeOK
  <2>3. QED
    BY <1>2, <1>3, <1>7, <2>2 DEF Deliver
<1>8. ASSUME NEW n \in Honest, Restart(n)
      PROVE  SoundInv'
  <2>1. Good(n)
    BY <1>8 DEF Restart, SoundChoice, TypeOK
  <2>2. ASSUME NEW m \in Honest \ {n} PROVE Good(m)
    BY <1>3, <1>8 DEF Restart, TypeOK
  <2>3. QED
    BY <1>2, <2>1, <2>2
<1>9. CASE Tick
  <2>1. ASSUME NEW m \in Honest PROVE Good(m)
    BY <1>9, SoundChoiceStable DEF Tick, TypeOK, ChoiceNeedsRound, ChosenIsSound
  <2>2. QED
    BY <1>2, <2>1
<1>10. CASE \/ \E n \in Honest, id \in DataIDs : FetchComplete(n, id)
            \/ \E n \in Honest, tx \in Txs : SubmitTransaction(n, tx)
            \/ \E ph \in ByzHeaders, serve \in BOOLEAN : ByzPropose(ph, serve)
            \/ UNCHANGED vars
  BY <1>2, <1>3, <1>10 DEF FetchComplete, SubmitTransaction, ByzPropose, vars
<1>11. QED
  BY <1>4, <1>5, <1>6, <1>7, <1>8, <1>9, <1>10 DEF Next

(***************************************************************************)
(* ChosenIsSound for every instance: the block the strategy settles on is  *)
(* always in its round view, names its round in a well-formed data ID,     *)
(* carries a batch that simulates in order and a time not after the       *)
(* node's clock, across restarts, later deliveries, fetches and ticks.     *)
(***************************************************************************)
THEOREM ChosenIsSoundHolds == Spec => []ChosenIsSound
<1>1. Init => SoundInv
  BY SoundInit
<1>2. SoundInv /\ [Next]_vars => SoundInv'
  BY SoundStep
<1>3. SoundInv => ChosenIsSound
  BY DEF SoundInv
<1>4. QED
  BY <1>1, <1>2, <1>3, PTL DEF Spec

-----------------------------------------------------------------------------
(***************************************************************************)
(* NoEquivocation.                                                         *)
(***************************************************************************)

\* The height and round of a header are natural numbers.
LEMMA HeaderNums ==
    ASSUME NEW p \in Headers
    PROVE  p.height \in Nat /\ p.round \in Nat
<1> DEFINE ht == p.height
           rd == p.round
<1>1. ht \in Heights /\ rd \in Rounds
  BY Zenon DEF Headers
<1>2. ht \in Nat
  BY <1>1
<1>3. rd \in Nat
  BY <1>1 DEF Rounds
<1>4. QED
  BY <1>2, <1>3

\* The engine's height and round are natural numbers.
LEMMA EngineNums ==
    ASSUME TypeOK, NEW n \in Honest
    PROVE  eh[n] \in Nat /\ er[n] \in Nat
<1> DEFINE e == eh[n]
           f == er[n]
<1>1. eh \in [Honest -> {0} \cup Heights] /\ er \in [Honest -> Rounds]
  BY DEF TypeOK
<1>2. e \in {0} \cup Heights /\ f \in Rounds
  BY <1>1
<1>3. e \in Nat
  <2>1. CASE e = 0
    BY <2>1
  <2>2. CASE e \in Heights
    BY <2>2
  <2>3. QED
    BY <1>2, <2>1, <2>2
<1>4. f \in Nat
  BY <1>2 DEF Rounds
<1>5. QED
  BY <1>3, <1>4

\* A round strictly later than one not earlier than <<ph, pr>> is strictly
\* later than <<ph, pr>>.
LEMMA StrictlyLater ==
    ASSUME NEW ph \in Nat, NEW pr \in Nat, NEW e1 \in Nat, NEW e2 \in Nat,
           NEW h \in Nat, NEW r \in Nat,
           NotLater(ph, pr, e1, e2), h > e1 \/ (h = e1 /\ r > e2)
    PROVE  ph < h \/ (ph = h /\ pr < r)
BY DEF NotLater

\* Honest headers cannot be broken by steps that keep the proposed headers
\* and the engine rounds and only let the round views grow.
LEMMA EquivStable ==
    ASSUME TypeOK, OwnHeadersTracked, NoEquivocation,
           headers' = headers, eh' = eh, er' = er,
           \A m \in Honest : ViewSet(phs[m]) \subseteq ViewSet(phs'[m])
    PROVE  OwnHeadersTracked' /\ NoEquivocation'
BY DEF OwnHeadersTracked, NoEquivocation

\* The initial state satisfies the strengthened invariant.
LEMMA EquivInit == Init => EquivInv
BY TypeInit DEF Init, EquivInv, OwnHeadersTracked, NoEquivocation

\* Every step keeps the strengthened invariant.
LEMMA EquivStep == EquivInv /\ [Next]_vars => EquivInv'
<1> SUFFICES ASSUME TypeOK, OwnHeadersTracked, NoEquivocation, [Next]_vars
             PROVE  EquivInv'
  BY DEF EquivInv
<1>1. TypeOK'
  BY TypeStep
<1>2. ASSUME headers' = headers, eh' = eh, er' = er,
             \A m \in Honest : ViewSet(phs[m]) \subseteq ViewSet(phs'[m])
      PROVE  EquivInv'
  BY <1>1, <1>2, EquivStable DEF EquivInv
<1>3. ASSUME NEW n \in Honest, NEW h \in Heights, NEW r \in Rounds,
             NewRound(n, h, r)
      PROVE  EquivInv'
  <2>1. EnterRound(n, h, r, << >>) /\ << >> \in Seq(Headers)
    BY <1>3 DEF NewRound
  <2>2. eh' = [eh EXCEPT ![n] = h] /\ er' = [er EXCEPT ![n] = r]
    BY <1>3 DEF NewRound
  <2>3. \A m \in Honest \ {n} : phs'[m] = phs[m]
    BY <2>1, EnterRoundEffect
  <2>4. \A p \in headers : p.proposer = n =>
            p.height < h \/ (p.height = h /\ p.round < r)
    <3> SUFFICES ASSUME NEW p \in headers, p.proposer = n
                 PROVE  p.height < h \/ (p.height = h /\ p.round < r)
      OBVIOUS
    <3>0. p \in Headers
      BY DEF TypeOK
    <3>1. p.height \in Nat /\ p.round \in Nat
      BY <3>0, HeaderNums
    <3>2. eh[n] \in Nat /\ er[n] \in Nat /\ h \in Nat /\ r \in Nat
      BY EngineNums DEF Rounds
    <3>3. NotLater(p.height, p.round, eh[n], er[n])
      BY DEF OwnHeadersTracked
    <3>4. h > eh[n] \/ (h = eh[n] /\ r > er[n])
      BY <1>3 DEF NewRound
    <3>5. QED
      BY <3>1, <3>2, <3>3, <3>4, StrictlyLater
  <2>5. \A p \in headers : p.proposer \in Honest \ {n} =>
            /\ NotLater(p.height, p.round, eh'[p.proposer], er'[p.proposer])
            /\ (p.height = eh'[p.proposer] /\ p.round = er'[p.proposer])
                   => p \in ViewSet(phs'[p.proposer])
    BY <2>2, <2>3 DEF OwnHeadersTracked, TypeOK
  <2>6. \A p \in headers : p.proposer = n =>
            /\ NotLater(p.height, p.round, eh'[n], er'[n])
            /\ ~(p.height = eh'[n] /\ p.round = er'[n])
    BY <2>2, <2>4 DEF NotLater, TypeOK, Headers, Rounds
  <2>7. CASE headers' = headers
    BY <1>1, <2>5, <2>6, <2>7 DEF EquivInv, OwnHeadersTracked, NoEquivocation
  <2>8. CASE \E ph \in Headers :
                /\ ph.proposer = n /\ ph.height = h /\ ph.round = r
                /\ headers' = headers \cup {ph}
                /\ ph \in ViewSet(phs'[n])
    <3>1. PICK ph \in Headers :
                /\ ph.proposer = n /\ ph.height = h /\ ph.round = r
                /\ headers' = headers \cup {ph}
                /\ ph \in ViewSet(phs'[n])
      BY <2>8
    <3>2. NotLater(ph.height, ph.round, eh'[n], er'[n])
      BY <3>1, <2>2 DEF NotLater, TypeOK, Rounds
    <3>3. OwnHeadersTracked'
      BY <3>1, <3>2, <2>2, <2>5, <2>6 DEF OwnHeadersTracked, TypeOK
    <3>4. \A p \in headers : p.proposer = n =>
              ~(p.height = ph.height /\ p.round = ph.round)
      BY <3>1, <2>4 DEF Rounds
    <3>5. NoEquivocation'
      BY <3>1, <3>4 DEF NoEquivocation
    <3>6. QED
      BY <1>1, <3>3, <3>5 DEF EquivInv
  <2>9. headers' = headers \/ AddedOwnHeader(n, h, r, << >>)
    BY <2>1, EnterRoundEffect
  <2>10. QED
    BY <2>7, <2>8, <2>9 DEF AddedOwnHeader
<1>4. ASSUME NEW n \in Honest, ReEnterRound(n)
      PROVE  EquivInv'
  <2>1. EnterRound(n, eh[n], er[n], phs[n]) /\ eh[n] \in Heights
        /\ er[n] \in Rounds /\ phs[n] \in Seq(Headers)
    BY <1>4 DEF ReEnterRound, TypeOK
  <2>2. eh' = eh /\ er' = er
    BY <1>4 DEF ReEnterRound
  <2>3. \A m \in Honest : ViewSet(phs[m]) \subseteq ViewSet(phs'[m])
    <3>1. \A m \in Honest \ {n} : phs'[m] = phs[m]
      BY <2>1, EnterRoundEffect
    <3>2. ViewSet(phs[n]) \subseteq ViewSet(phs'[n])
      BY <2>1, EnterRoundEffect
    <3>3. QED
      BY <3>1, <3>2
  <2>4. CASE headers' = headers
    BY <1>2, <2>2, <2>3, <2>4
  <2>5. CASE \E ph \in Headers :
                /\ ph.proposer = n /\ ph.height = eh[n] /\ ph.round = er[n]
                /\ ~\E p \in ViewSet(phs[n]) : p.proposer = n
                /\ headers' = headers \cup {ph}
                /\ ph \in ViewSet(phs'[n])
    <3>1. PICK ph \in Headers :
                /\ ph.proposer = n /\ ph.height = eh[n] /\ ph.round = er[n]
                /\ ~\E p \in ViewSet(phs[n]) : p.proposer = n
                /\ headers' = headers \cup {ph}
                /\ ph \in ViewSet(phs'[n])
      BY <2>5
    <3>2. \A p \in headers : p.proposer = n =>
              ~(p.height = eh[n] /\ p.round = er[n])
      BY <3>1 DEF OwnHeadersTracked
    <3>3. NotLater(ph.height, ph.round, eh[n], er[n])
      BY <3>1, <2>1 DEF NotLater, Rounds
    <3>4. OwnHeadersTracked'
      BY <3>1, <3>3, <2>2, <2>3 DEF OwnHeadersTracked
    <3>5. NoEquivocation'
      BY <3>1, <3>2 DEF NoEquivocation
    <3>6. QED
      BY <1>1, <3>4, <3>5 DEF EquivInv
  <2>6. headers' = headers \/ AddedOwnHeader(n, eh[n], er[n], phs[n])
    BY <2>1, EnterRoundEffect
  <2>7. QED
    BY <2>4, <2>5, <2>6 DEF AddedOwnHeader
<1>5. ASSUME NEW n \in Honest, NEW sf, NEW rf, ChooseProposedBlock(n, sf, rf)
      PROVE  EquivInv'
  BY <1>2, <1>5 DEF ChooseProposedBlock
<1>6. ASSUME NEW n \in Honest, NEW ph \in headers, Deliver(n, ph)
      PROVE  EquivInv'
  <2>1. ViewSet(phs'[n]) = ViewSet(phs[n]) \cup {ph}
    BY <1>6, ViewSetAppend DEF Deliver, TypeOK
  <2>2. \A m \in Honest : ViewSet(phs[m]) \subseteq ViewSet(phs'[m])
    BY <1>6, <2>1 DEF Deliver, TypeOK
  <2>3. QED
    BY <1>2, <1>6, <2>2 DEF Deliver
<1>7. ASSUME NEW ph \in ByzHeaders, NEW serve \in BOOLEAN, ByzPropose(ph, serve)
      PROVE  EquivInv'
  <2>1. ph.proposer \notin Honest
    BY ConstantsAssumption DEF Honest
  <2>2. OwnHeadersTracked'
    BY <1>7, <2>1 DEF ByzPropose, OwnHeadersTracked
  <2>3. NoEquivocation'
    BY <1>7, <2>1 DEF ByzPropose, NoEquivocation
  <2>4. QED
    BY <1>1, <2>2, <2>3 DEF EquivInv
<1>8. CASE \/ \E n \in Honest, id \in DataIDs : FetchComplete(n, id)
           \/ \E n \in Honest, tx \in Txs : SubmitTransaction(n, tx)
           \/ \E n \in Honest : Restart(n)
           \/ Tick
           \/ UNCHANGED vars
  BY <1>2, <1>8 DEF FetchComplete, SubmitTransaction, Restart, Tick, vars
<1>9. QED
  BY <1>3, <1>4, <1>5, <1>6, <1>7, <1>8 DEF Next

(***************************************************************************)
(* NoEquivocation for every instance: an honest validator never proposes   *)
(* two different headers for the same height and round, although the      *)
(* engine calls EnterRound again after every restart; it rests on the     *)
(* engine keeping the validator's own accepted proposal in the round view *)
(* that it hands back (the early return of EnterRound, lines 161-170).    *)
(***************************************************************************)
THEOREM NoEquivocationHolds == Spec => []NoEquivocation
<1>1. Init => EquivInv
  BY EquivInit
<1>2. EquivInv /\ [Next]_vars => EquivInv'
  BY EquivStep
<1>3. EquivInv => NoEquivocation
  BY DEF EquivInv
<1>4. QED
  BY <1>1, <1>2, <1>3, PTL DEF Spec
=============================================================================
