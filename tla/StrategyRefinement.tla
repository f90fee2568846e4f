-------------------------- MODULE StrategyRefinement --------------------------
(***************************************************************************)
(* The ConsensusStrategy model implements StrategyContract.  The contract's *)
(* round of n is the engine's <<eh[n], er[n]>>, its choice is what         *)
(* ChooseProposedBlock last returned, and the headers and the clock are    *)
(* the model's own.  The request cache, the transaction buffer, the round  *)
(* views, the served data and the retrieval history are hidden: their      *)
(* steps (deliveries, fetches, submitted transactions, scans that return   *)
(* "") are stutters of the contract.                                       *)
(***************************************************************************)
EXTENDS ConsensusStrategyProofs

\* The refinement mapping.
EngineRound == [n \in Honest |-> <<eh[n], er[n]>>]

Contract == INSTANCE StrategyContract
                WITH round <- EngineRound, chosen <- choice, ProposerOf <- Proposer

(***************************************************************************)
(* Every behaviour of the strategy, its environment, restarts included,    *)
(* is one the contract allows: a restarted proposer re-entering its round  *)
(* does not put out a second header (the recovery of lines 161-170), the   *)
(* batch it proposes is one AddTx kept valid, and a block is settled on    *)
(* only when it passes every check of ConsiderProposedBlocks.              *)
(***************************************************************************)
ImplementsContract == Contract!Spec

-----------------------------------------------------------------------------
(***************************************************************************)
(* The proof that the model implements the contract.  Besides the          *)
(* invariants of ConsensusStrategyProofs it needs two more: every header   *)
(* in a round view was proposed (so a chosen header is one of the          *)
(* contract's headers), and the transaction buffer always simulates (so a  *)
(* proposed batch does).                                                   *)
(***************************************************************************)

\* The engine only shows a validator headers that were proposed.
ViewsProposed == \A n \in Honest : ViewSet(phs[n]) \subseteq headers

\* AddTx only appends a transaction that succeeds on top of the buffer.
BufValid == \A n \in Honest : ValidChain(txBuf[n])

RInv == SoundInv /\ EquivInv /\ ViewsProposed /\ BufValid

USE ConstFacts

\* The markers of an unparsable ID and an undecodable annotation are no
\* data ID and no time.
LEMMA MarkersApart == Malformed \notin DataIDs /\ BadAnnotation \notin Int
BY ConstantsAssumption

\* RFC3339 truncation never moves a time forward.
LEMMA ClaimedNotAhead ==
    ASSUME NEW t \in Int
    PROVE  Claimed(t) \in Int /\ Claimed(t) <= t
<1> DEFINE T == TicksPerSecond
<1>1. T \in Nat \ {0}
  OBVIOUS
<1>2. t = T * (t \div T) + (t % T) /\ t % T \in 0..(T - 1)
  BY <1>1
<1>3. QED
  BY <1>1, <1>2 DEF Claimed

\* What EnterRound does to the proposed headers and to n's round view:
\* nothing beyond taking the view it is given, or, when n is the proposer
\* and that view holds nothing of n's, one admissible header of its own
\* for the round, which also lands in the view.
OwnProposal(n, h, r, view) ==
    /\ Proposer(h, r) = n
    /\ ~\E p \in ViewSet(view) : p.proposer = n
    /\ \E ph \in Headers :
           /\ ph.proposer = n
           /\ Contract!Admissible(n, ph, h, r)
           /\ headers' = headers \cup {ph}
           /\ ViewSet(phs'[n]) = ViewSet(view) \cup {ph}

LEMMA EnterRoundProposal ==
    ASSUME TypeOK, BufValid, NEW n \in Honest, NEW h \in Heights,
           NEW r \in Rounds, NEW view \in Seq(Headers), EnterRound(n, h, r, view)
    PROVE  /\ \A m \in Honest \ {n} : phs'[m] = phs[m]
           /\ \/ headers' = headers /\ ViewSet(phs'[n]) = ViewSet(view)
              \/ OwnProposal(n, h, r, view)
<1> DEFINE batch == txBuf[n]
           id    == [h |-> h, r |-> r, txs |-> batch]
           ph    == [proposer |-> n, height |-> h, round |-> r, id |-> id,
                     time |-> Claimed(LocalNow(n))]
           Skip  == phs' = [phs EXCEPT ![n] = view] /\ UNCHANGED headers
           Add   == /\ headers' = headers \cup {ph}
                    /\ phs' = [phs EXCEPT ![n] = Append(view, ph)]
<1>1. LocalNow(n) \in Int
  BY DEF TypeOK, LocalNow, Honest
<1>2. ph \in Headers
  BY <1>1, ClaimedNotAhead, ProposedHeader DEF TypeOK
<1>3. Contract!Admissible(n, ph, h, r)
  <2>1. ValidChain(batch)
    BY DEF BufValid
  <2>2. Claimed(LocalNow(n)) <= now + Skew[n]
    BY <1>1, ClaimedNotAhead DEF LocalNow
  <2>3. id # Malformed
    BY MarkersApart DEF TypeOK, DataIDs
  <2>4. Claimed(LocalNow(n)) # BadAnnotation
    BY <1>1, ClaimedNotAhead, MarkersApart
  <2>5. Contract!Simulates(id.txs)
    BY <2>1 DEF Contract!Simulates, ValidChain
  <2>6. QED
    BY <2>2, <2>3, <2>4, <2>5 DEF Contract!Admissible
<1>4. Skip => /\ \A m \in Honest \ {n} : phs'[m] = phs[m]
              /\ headers' = headers /\ ViewSet(phs'[n]) = ViewSet(view)
  BY DEF TypeOK
<1>5. Add => /\ \A m \in Honest \ {n} : phs'[m] = phs[m]
             /\ ViewSet(phs'[n]) = ViewSet(view) \cup {ph}
  <2>1. ViewSet(Append(view, ph)) = ViewSet(view) \cup {ph}
    BY <1>2, ViewSetAppend
  <2>2. QED
    BY <2>1 DEF TypeOK
<1>6. Handoff(n, ph, view) => Skip \/ Add
  BY DEF Handoff
<1>7. CASE Proposer(h, r) # n \/ \E p \in ViewSet(view) : p.proposer = n
  BY <1>7, <1>4 DEF EnterRound
<1>8. CASE ~(Proposer(h, r) # n \/ \E p \in ViewSet(view) : p.proposer = n)
  <2>1. Skip \/ Add
    BY <1>8, <1>6 DEF EnterRound, Propose
  <2>2. Add => OwnProposal(n, h, r, view)
    BY <1>8, <1>2, <1>3, <1>5 DEF OwnProposal
  <2>3. QED
    BY <2>1, <2>2, <1>4, <1>5
<1>9. QED
  BY <1>7, <1>8

\* An own proposal is proposed and lands in the view.
LEMMA OwnProposalViews ==
    ASSUME NEW n, NEW h, NEW r, NEW view, OwnProposal(n, h, r, view)
    PROVE  /\ headers \subseteq headers'
           /\ ViewSet(phs'[n]) \subseteq ViewSet(view) \cup headers'
<1>1. PICK ph \in Headers : /\ headers' = headers \cup {ph}
                            /\ ViewSet(phs'[n]) = ViewSet(view) \cup {ph}
  BY DEF OwnProposal
<1>2. QED
  BY <1>1

\* The views hold only proposed headers and the buffers simulate, in every
\* reachable state.
LEMMA RefInvInit == Init => ViewsProposed /\ BufValid
BY DEF Init, ViewsProposed, BufValid, ViewSet, ValidChain

LEMMA RefInvStep ==
    ASSUME TypeOK, ViewsProposed, BufValid, [Next]_vars
    PROVE  ViewsProposed' /\ BufValid'
<1>1. ASSUME NEW n \in Honest, NEW h \in Heights, NEW r \in Rounds,
             NewRound(n, h, r)
      PROVE  ViewsProposed' /\ BufValid'
  <2>1. EnterRound(n, h, r, << >>) /\ << >> \in Seq(Headers)
    BY <1>1 DEF NewRound
  <2>2. ViewSet(<< >>) = {}
    BY DEF ViewSet
  <2>3. /\ \A m \in Honest \ {n} : phs'[m] = phs[m]
        /\ headers \subseteq headers'
        /\ ViewSet(phs'[n]) \subseteq headers'
    BY <2>1, <2>2, EnterRoundProposal, OwnProposalViews
  <2>4. QED
    BY <1>1, <2>3 DEF NewRound, ViewsProposed, BufValid
<1>2. ASSUME NEW n \in Honest, ReEnterRound(n)
      PROVE  ViewsProposed' /\ BufValid'
  <2>1. eh[n] \in Heights /\ er[n] \in Rounds /\ phs[n] \in Seq(Headers)
    BY <1>2 DEF ReEnterRound, TypeOK
  <2>2. /\ \A m \in Honest \ {n} : phs'[m] = phs[m]
        /\ headers \subseteq headers'
        /\ ViewSet(phs'[n]) \subseteq ViewSet(phs[n]) \cup headers'
    BY <1>2, <2>1, EnterRoundProposal, OwnProposalViews DEF ReEnterRound
  <2>3. QED
    BY <1>2, <2>2 DEF ReEnterRound, ViewsProposed, BufValid
<1>3. ASSUME NEW n \in Honest, NEW sf, NEW rf, ChooseProposedBlock(n, sf, rf)
      PROVE  ViewsProposed' /\ BufValid'
  BY <1>3 DEF ChooseProposedBlock, ViewsProposed, BufValid
<1>4. ASSUME NEW n \in Honest, NEW ph \in headers, Deliver(n, ph)
      PROVE  ViewsProposed' /\ BufValid'
  <2>1. ph \in Headers /\ phs[n] \in Seq(Headers)
    BY DEF TypeOK
  <2>2. ViewSet(phs'[n]) = ViewSet(phs[n]) \cup {ph}
    BY <1>4, <2>1, ViewSetAppend DEF Deliver, TypeOK
  <2>3. QED
    BY <1>4, <2>2 DEF Deliver, ViewsProposed, BufValid, TypeOK
<1>5. ASSUME NEW n \in Honest, NEW id, FetchComplete(n, id)
      PROVE  ViewsProposed' /\ BufValid'
  BY <1>5 DEF FetchComplete, ViewsProposed, BufValid
<1>6. ASSUME NEW n \in Honest, NEW tx, SubmitTransaction(n, tx)
      PROVE  ViewsProposed' /\ BufValid'
  BY <1>6 DEF SubmitTransaction, ViewsProposed, BufValid, TypeOK
<1>7. ASSUME NEW ph, NEW serve, ByzPropose(ph, serve)
      PROVE  ViewsProposed' /\ BufValid'
  BY <1>7 DEF ByzPropose, ViewsProposed, BufValid
<1>8. ASSUME NEW n \in Honest, Restart(n)
      PROVE  ViewsProposed' /\ BufValid'
  BY <1>8 DEF Restart, ViewsProposed, BufValid, ValidChain, TypeOK
<1>9. CASE Tick
  BY <1>9 DEF Tick, ViewsProposed, BufValid
<1>10. CASE UNCHANGED vars
  BY <1>10 DEF vars, ViewsProposed, BufValid
<1>11. QED
  BY <1>1, <1>2, <1>3, <1>4, <1>5, <1>6, <1>7, <1>8, <1>9, <1>10 DEF Next

-----------------------------------------------------------------------------
\* The initial state maps to the contract's initial state.
LEMMA RefineInit == Init => Contract!Init
BY DEF Init, Contract!Init, EngineRound, Contract!Honest, Honest

\* Own headers are never for a round after the engine's, and one for the
\* engine's round is in the validator's view: so when the view holds none
\* of n's headers, no header of n for the engine's round or a later one
\* was proposed.
LEMMA NoOwnHeaderYet ==
    ASSUME TypeOK, OwnHeadersTracked, NEW n \in Honest,
           NEW h \in Heights, NEW r \in Rounds,
           \/ h > eh[n] \/ (h = eh[n] /\ r > er[n])
           \/ /\ h = eh[n] /\ r = er[n]
              /\ ~\E p \in ViewSet(phs[n]) : p.proposer = n
    PROVE  ~\E p \in headers : p.proposer = n /\ p.height = h /\ p.round = r
<1> SUFFICES ASSUME NEW p \in headers, p.proposer = n, p.height = h, p.round = r
             PROVE  FALSE
  OBVIOUS
<1>1. NotLater(p.height, p.round, eh[n], er[n])
      /\ (p.height = eh[n] /\ p.round = er[n] => p \in ViewSet(phs[n]))
  BY DEF OwnHeadersTracked
<1>2. p \in Headers /\ h \in Nat /\ r \in Nat
  BY DEF TypeOK, Rounds
<1>3. CASE h > eh[n] \/ (h = eh[n] /\ r > er[n])
  BY <1>1, <1>2, <1>3, EngineNums DEF NotLater
<1>4. QED
  BY <1>1, <1>3

\* The contract's Enter and Resume let n's proposal through.
LEMMA ProposalAllowed ==
    ASSUME TypeOK, BufValid, OwnHeadersTracked, NEW n \in Honest,
           NEW h \in Heights, NEW r \in Rounds, NEW view \in Seq(Headers),
           EnterRound(n, h, r, view),
           \/ h > eh[n] \/ (h = eh[n] /\ r > er[n])
           \/ h = eh[n] /\ r = er[n] /\ view = phs[n]
    PROVE  Contract!MayPropose(n, h, r)
<1>1. CASE headers' = headers
  BY <1>1 DEF Contract!MayPropose
<1>2. CASE OwnProposal(n, h, r, view)
  <2>1. PICK ph \in Headers :
            /\ ph.proposer = n
            /\ Contract!Admissible(n, ph, h, r)
            /\ headers' = headers \cup {ph}
    BY <1>2 DEF OwnProposal
  <2>2. ~\E p \in headers : p.proposer = n /\ p.height = h /\ p.round = r
    BY <1>2, NoOwnHeaderYet DEF OwnProposal
  <2>3. Proposer(h, r) = n
    BY <1>2 DEF OwnProposal
  <2>4. ph \in {p \in headers' : p.proposer = n}
    BY <2>1
  <2>5. \E q \in {p \in headers' : p.proposer = n} :
            Contract!Admissible(n, q, h, r) /\ headers' = headers \cup {q}
    BY <2>1, <2>4
  <2>6. QED
    BY <2>2, <2>3, <2>5, Zenon DEF Contract!MayPropose
<1>3. QED
  BY <1>1, <1>2, EnterRoundProposal

\* A block ChooseProposedBlock returns is one the contract lets n choose.
LEMMA ChoiceAllowed ==
    ASSUME TypeOK, ViewsProposed, NEW n \in Honest, NEW sf, NEW rf,
           ChooseProposedBlock(n, sf, rf), choice' # choice
    PROVE  \E ph \in headers : Contract!Choose(n, ph)
<1> DEFINE v   == phs[n]
           acc == {i \in 1..Len(v) : Acceptable(n, v[i], i \in sf)}
<1>1. PICK first \in acc : choice' = [choice EXCEPT ![n] = v[first]]
  BY DEF ChooseProposedBlock
<1> DEFINE ph == v[first]
<1>2. ph \in headers
  BY DEF ViewsProposed, ViewSet, TypeOK
<1>3. Acceptable(n, ph, first \in sf)
  OBVIOUS
<1>4. eh[n] # 0 /\ curH[n] = eh[n] /\ curR[n] = er[n] /\ choice[n] = NoChoice
  BY DEF ChooseProposedBlock
<1>5. ValidChain(ph.id.txs)
  <2>1. CASE Len(ph.id.txs) = 0
    BY <2>1 DEF ValidChain
  <2>2. CASE SimulationPasses(ph, first \in sf)
    BY <2>2 DEF SimulationPasses
  <2>3. QED
    BY <1>3, <2>1, <2>2 DEF Acceptable
<1>6. Contract!Admissible(n, ph, eh[n], er[n])
  BY <1>3, <1>4, <1>5 DEF Acceptable, InRound, TimeAcceptable, LocalNow,
                          Contract!Admissible, Contract!Simulates, ValidChain
<1>7. EngineRound[n] = <<eh[n], er[n]>> /\ UNCHANGED <<EngineRound, headers, now>>
  BY DEF ChooseProposedBlock, EngineRound
<1>8. Contract!Choose(n, ph)
  BY <1>1, <1>4, <1>6, <1>7 DEF Contract!Choose
<1>9. QED
  BY <1>2, <1>8

\* Every step of the model is a step of the contract or leaves the mapped
\* state alone.
LEMMA RefineStep ==
    ASSUME RInv, [Next]_vars
    PROVE  [Contract!Next]_Contract!vars
<1> USE DEF RInv, SoundInv, EquivInv
<1> DEFINE Stutter == UNCHANGED <<EngineRound, headers, choice, now>>
<1>0. Stutter => [Contract!Next]_Contract!vars
  BY DEF Contract!vars
<1>1. ASSUME NEW n \in Honest, NEW h \in Heights, NEW r \in Rounds,
             NewRound(n, h, r)
      PROVE  [Contract!Next]_Contract!vars
  <2>0. /\ EnterRound(n, h, r, << >>) /\ << >> \in Seq(Headers)
        /\ h > eh[n] \/ (h = eh[n] /\ r > er[n])
    BY <1>1 DEF NewRound
  <2>1. Contract!MayPropose(n, h, r)
    BY <2>0, ProposalAllowed
  <2>2. EngineRound' = [EngineRound EXCEPT ![n] = <<h, r>>]
    BY <1>1 DEF NewRound, EngineRound, TypeOK
  <2>3. Contract!Enter(n, h, r)
    BY <1>1, <2>1, <2>2 DEF NewRound, EngineRound, Contract!Enter
  <2>4. QED
    BY <2>3 DEF Contract!Next, Rounds, Contract!Honest, Honest
<1>2. ASSUME NEW n \in Honest, ReEnterRound(n)
      PROVE  [Contract!Next]_Contract!vars
  <2>1. eh[n] \in Heights /\ er[n] \in Rounds /\ phs[n] \in Seq(Headers)
    BY <1>2 DEF ReEnterRound, TypeOK
  <2>2. Contract!MayPropose(n, eh[n], er[n])
    BY <1>2, <2>1, ProposalAllowed DEF ReEnterRound
  <2>3. Contract!Resume(n)
    BY <1>2, <2>2 DEF ReEnterRound, EngineRound, Contract!Resume
  <2>4. QED
    BY <2>3 DEF Contract!Next, Contract!Honest, Honest
<1>3. ASSUME NEW n \in Honest, NEW sf, NEW rf, ChooseProposedBlock(n, sf, rf)
      PROVE  [Contract!Next]_Contract!vars
  <2>1. CASE choice' = choice
    BY <1>3, <2>1, <1>0 DEF ChooseProposedBlock, EngineRound
  <2>2. CASE choice' # choice
    BY <1>3, <2>2, ChoiceAllowed DEF Contract!Next, Contract!Honest, Honest
  <2>3. QED
    BY <2>1, <2>2
<1>4. ASSUME NEW n \in Honest, NEW ph, Deliver(n, ph)
      PROVE  [Contract!Next]_Contract!vars
  BY <1>4, <1>0 DEF Deliver, EngineRound
<1>5. ASSUME NEW n \in Honest, NEW id, FetchComplete(n, id)
      PROVE  [Contract!Next]_Contract!vars
  BY <1>5, <1>0 DEF FetchComplete, EngineRound
<1>6. ASSUME NEW n \in Honest, NEW tx, SubmitTransaction(n, tx)
      PROVE  [Contract!Next]_Contract!vars
  BY <1>6, <1>0 DEF SubmitTransaction, EngineRound
<1>7. ASSUME NEW ph \in ByzHeaders, NEW serve, ByzPropose(ph, serve)
      PROVE  [Contract!Next]_Contract!vars
  <2>1. Contract!FaultyPropose(ph)
    BY <1>7 DEF ByzPropose, EngineRound, Contract!FaultyPropose
  <2>2. QED
    BY <2>1 DEF Contract!Next
<1>8. ASSUME NEW n \in Honest, Restart(n)
      PROVE  [Contract!Next]_Contract!vars
  <2>1. Contract!Forget(n)
    BY <1>8 DEF Restart, EngineRound, Contract!Forget
  <2>2. QED
    BY <2>1 DEF Contract!Next, Contract!Honest, Honest
<1>9. CASE Tick
  <2>1. Contract!Advance
    BY <1>9 DEF Tick, EngineRound, Contract!Advance
  <2>2. QED
    BY <2>1 DEF Contract!Next
<1>10. CASE UNCHANGED vars
  BY <1>10, <1>0 DEF vars, EngineRound
<1>11. QED
  BY <1>1, <1>2, <1>3, <1>4, <1>5, <1>6, <1>7, <1>8, <1>9, <1>10 DEF Next

(***************************************************************************)
(* The ConsensusStrategy model implements StrategyContract, for every      *)
(* value of the constants: in particular an honest proposer never puts    *)
(* out two headers for one round, restarts included, and the strategy only *)
(* settles on headers that pass every check of ConsiderProposedBlocks.     *)
(* The invariant RInv is needed because the contract looks only at the    *)
(* proposed headers, while EnterRound looks only at the round view.        *)
(***************************************************************************)
THEOREM ImplementsContractHolds == Spec => ImplementsContract
<1>1. Init => RInv
  BY SoundInit, EquivInit, RefInvInit DEF RInv
<1>2. RInv /\ [Next]_vars => RInv'
  BY SoundStep, EquivStep, RefInvStep DEF RInv, SoundInv
<1>3. RInv /\ [Next]_vars => [Contract!Next]_Contract!vars
  BY RefineStep
<1>4. QED
  BY <1>1, <1>2, <1>3, RefineInit, PTL DEF Spec, ImplementsContract, Contract!Spec
=============================================================================
