-------------------------- MODULE ConsensusStrategy --------------------------
(***************************************************************************)
(* The ConsensusStrategy of gserver/internal/gsi/consensusstrategy.go, run *)
(* by every honest validator, together with the parts of its environment  *)
(* it talks to: the engine that calls its hooks and holds the round view,  *)
(* the block-data provider and retriever with the request cache, the      *)
(* transaction buffer fed by the gRPC SubmitTransaction handler, the wall *)
(* clock, and Byzantine validators that propose arbitrary headers.        *)
(*                                                                         *)
(* Data is abstracted: a transaction is a model value, a block-data ID is  *)
(* the record of the fields the textual ID encodes (height, round and the  *)
(* batch its hash commits to), and a proposed header carries its proposer, *)
(* height, round, data ID and the annotation time.                         *)
(***************************************************************************)
EXTENDS Integers, Sequences, FiniteSets, ProposerSelection

CONSTANTS
    Nodes,          \* all validators
    Byz,            \* the faulty ones; their strategy is not the code's
    ValList,        \* the validator set in its list order
    Txs,            \* transactions
    BadTxs,         \* transactions that fail against the committed state
    Conflicts,      \* <<a, b>>: b fails when simulated after a
    Heights,        \* heights the engine may enter
    MaxRound,       \* largest round the engine may enter
    MaxBatch,       \* longest batch a data ID of the model names
    MaxBuf,         \* capacity of the model's transaction buffer
    MaxTime,        \* bound of the global clock, in ticks
    TicksPerSecond, \* clock ticks per second of RFC3339 text
    Skew,           \* Skew[n]: offset of n's wall clock from global time
    MaxRestarts,    \* bound on process restarts
    ByzHeaders,     \* headers the faulty validators may propose
    NoChoice,       \* ChooseProposedBlock returned "" (not ready)
    Malformed,      \* a data ID that ParseDataID rejects
    BadAnnotation   \* a block annotation that does not decode to a time

Honest == Nodes \ Byz
Rounds == 0..MaxRound

\* Sequences of at most MaxBatch transactions.
TxSeqs == UNION {[1..k -> Txs] : k \in 0..MaxBatch}

\* The fields a block-data ID encodes: <h>:<r>:<nTxs>:<dataLen>:<hash>.
\* nTxs is Len(txs); the length and hash are determined by the batch.
DataIDs == [h : Heights, r : Rounds, txs : TxSeqs]

Headers == [proposer : Nodes, height : Heights, round : Rounds,
            id : DataIDs \cup {Malformed},
            time : Int \cup {BadAnnotation}]

CacheStatus == {"absent", "pending", "ready"}

ASSUME ConstantsAssumption ==
    /\ Byz \subseteq Nodes
    /\ ValList \in Seq(Nodes) /\ Len(ValList) > 0
    /\ BadTxs \subseteq Txs
    /\ Conflicts \subseteq Txs \X Txs
    /\ Heights \subseteq 1..MaxInt
    /\ MaxRound \in Nat /\ MaxBatch \in Nat /\ MaxBuf \in 0..MaxBatch
    /\ MaxTime \in Nat /\ TicksPerSecond \in Nat \ {0}
    /\ Skew \in [Nodes -> Int]
    /\ MaxRestarts \in Nat
    /\ ByzHeaders \subseteq Headers
    /\ \A ph \in ByzHeaders : ph.proposer \in Byz
    /\ \A h \in Heights : h + MaxRound <= MaxInt
    /\ Malformed \notin DataIDs /\ BadAnnotation \notin Int

VARIABLES
    eh, er,      \* the engine's current height and round at each node
    curH, curR,  \* ConsensusStrategy.curH / curR (0 before EnterRound)
    phs,         \* the engine's round view: proposed headers, in arrival order
    choice,      \* what ChooseProposedBlock last returned this round
    cache,       \* the gsbd.RequestCache of each node
    txBuf,       \* the SDKTxBuf of each node
    headers,     \* every header proposed so far, to any node
    provided,    \* <<p, id>>: p's provider serves the data of id
    retrieved,   \* history: ids each node asked its PBDRetriever to fetch
    now,         \* global time
    restarts     \* restarts so far

vars == <<eh, er, curH, curR, phs, choice, cache, txBuf, headers,
          provided, retrieved, now, restarts>>

ViewSet(s) == {s[i] : i \in DOMAIN s}

\* The proposer the engine asks about: DefaultProposerSelection.
Proposer(h, r) == DefaultProposerSelection(h, r, ValList)

\* Local wall clock of n.
LocalNow(n) == now + Skew[n]

\* time.Now().UTC().Format(time.RFC3339) drops the fraction of a second.
Claimed(t) == (t \div TicksPerSecond) * TicksPerSecond

\* Simulate on the first transaction, then SimulateWithState along the
\* batch: every transaction must succeed on the state its predecessors left.
ValidChain(b) ==
    \A i \in 1..Len(b) :
        /\ b[i] \notin BadTxs
        /\ \A j \in 1..(i - 1) : <<b[j], b[i]>> \notin Conflicts

-----------------------------------------------------------------------------
(***************************************************************************)
(* EnterRound (consensusstrategy.go 142-227).  The engine passes a nil     *)
(* proposalOut exactly when its round view already holds our header (the  *)
(* restart case of lines 161-170); with that contract the panic at 172 is *)
(* unreachable.  The engine puts the header it accepts from proposalOut   *)
(* into its own round view as it accepts it.                               *)
(***************************************************************************)

\* gchan.SendC: the engine takes the proposal, or ctx is cancelled first.
Handoff(n, ph, view) ==
    \/ /\ headers' = headers \cup {ph}
       /\ phs' = [phs EXCEPT ![n] = Append(view, ph)]
    \/ /\ UNCHANGED headers
       /\ phs' = [phs EXCEPT ![n] = view]

Propose(n, h, r, view) ==
    LET batch == txBuf[n]
        id    == [h |-> h, r |-> r, txs |-> batch]
        ph    == [proposer |-> n, height |-> h, round |-> r, id |-> id,
                  time |-> Claimed(LocalNow(n))]
    IN  \/ /\ batch = << >>
           /\ Handoff(n, ph, view)
           /\ UNCHANGED <<cache, provided>>
        \/ /\ batch # << >>
           /\ \/ \* Provide failed: the hook returns its error.
                 /\ phs' = [phs EXCEPT ![n] = view]
                 /\ UNCHANGED <<cache, provided, headers>>
              \/ /\ provided' = provided \cup {<<n, id>>}
                 \* SetImmediatelyAvailable
                 /\ cache' = [cache EXCEPT ![n][id] = "ready"]
                 /\ Handoff(n, ph, view)

\* Mutant: the restart check of lines 161-170 is missing, so a re-entered
\* round proposes again.
EnterRoundNoRecovery(n, h, r, view) ==
    /\ curH' = [curH EXCEPT ![n] = h]
    /\ curR' = [curR EXCEPT ![n] = r]
    /\ IF Proposer(h, r) # n
         THEN /\ phs' = [phs EXCEPT ![n] = view]
              /\ UNCHANGED <<cache, provided, headers>>
         ELSE Propose(n, h, r, view)

EnterRound(n, h, r, view) ==
    /\ curH' = [curH EXCEPT ![n] = h]
    /\ curR' = [curR EXCEPT ![n] = r]
    /\ IF Proposer(h, r) # n \/ \E ph \in ViewSet(view) : ph.proposer = n
         THEN /\ phs' = [phs EXCEPT ![n] = view]
              /\ UNCHANGED <<cache, provided, headers>>
         ELSE Propose(n, h, r, view)

\* The engine advances n to a later round and calls EnterRound with a
\* fresh round view.
NewRound(n, h, r) ==
    /\ \/ h > eh[n]
       \/ h = eh[n] /\ r > er[n]
    /\ eh' = [eh EXCEPT ![n] = h]
    /\ er' = [er EXCEPT ![n] = r]
    /\ choice' = [choice EXCEPT ![n] = NoChoice]
    /\ EnterRound(n, h, r, << >>)
    /\ UNCHANGED <<txBuf, retrieved, now, restarts>>

\* After a restart the engine, whose stores survive, calls EnterRound
\* again for the round it is in, with the round view it kept.
ReEnterRound(n) ==
    /\ curH[n] = 0
    /\ eh[n] # 0
    /\ EnterRound(n, eh[n], er[n], phs[n])
    /\ UNCHANGED <<eh, er, choice, txBuf, retrieved, now, restarts>>

-----------------------------------------------------------------------------
(***************************************************************************)
(* ConsiderProposedBlocks (229-388) and ChooseProposedBlock (390-403).     *)
(* Candidates are scanned in view order; the first acceptable one wins.    *)
(* simFail: candidates whose Simulate or SimulateWithState returns an      *)
(* error (state access failed); retrFail: candidates whose Retrieve call   *)
(* returns an error.  Both are logged and the scan goes on.                *)
(***************************************************************************)

\* Mutant: the round inside the data ID is not compared (lines 278-285).
InRoundNoIDRound(n, ph) ==
    /\ ph.height = curH[n]
    /\ ph.round = curR[n]
    /\ ph.id # Malformed
    /\ ph.id.h = curH[n]

\* Lines 244-285: the header and the parsed data ID match curH / curR.
InRound(n, ph) ==
    /\ ph.height = curH[n]
    /\ ph.round = curR[n]
    /\ ph.id # Malformed
    /\ ph.id.h = curH[n]
    /\ ph.id.r = curR[n]

\* Lines 287-356, for a candidate with nTxs # 0 whose data is ready.
SimulationPasses(ph, simFailed) ==
    ~simFailed /\ ValidChain(ph.id.txs)

\* Mutant: the future-time check of line 376 is missing.
TimeAcceptableNoFuture(n, ph) ==
    ph.time # BadAnnotation

\* Lines 358-382: the annotation decodes and its time is not after now.
TimeAcceptable(n, ph) ==
    /\ ph.time # BadAnnotation
    /\ ph.time <= LocalNow(n)

Acceptable(n, ph, simFailed) ==
    /\ InRound(n, ph)
    /\ \/ Len(ph.id.txs) = 0
       \/ /\ cache[n][ph.id] = "ready"
          /\ SimulationPasses(ph, simFailed)
    /\ TimeAcceptable(n, ph)

\* Mutant: the cache-miss branch skips the Retrieve call of line 292.
NeedsRetrievalNoCall(n, ph) ==
    /\ InRound(n, ph)
    /\ Len(ph.id.txs) # 0
    /\ cache[n][ph.id] = "absent"
    /\ FALSE

\* Mutant: an unparsable ID is handed to Retrieve instead of skipped.
NeedsRetrievalUnparsed(n, ph) ==
    /\ ph.height = curH[n]
    /\ ph.round = curR[n]
    /\ \/ ph.id = Malformed
       \/ /\ ph.id # Malformed
          /\ ph.id.h = curH[n] /\ ph.id.r = curR[n]
          /\ Len(ph.id.txs) # 0
          /\ cache[n][ph.id] = "absent"

\* Line 289: cache miss, so the retriever is asked for the data.
NeedsRetrieval(n, ph) ==
    /\ InRound(n, ph)
    /\ Len(ph.id.txs) # 0
    /\ cache[n][ph.id] = "absent"

\* The candidates whose simulation can fail, and those for which Retrieve
\* is called and can fail: the only ones the failure sets matter for.
SimCandidates(n) ==
    {i \in 1..Len(phs[n]) : /\ InRound(n, phs[n][i])
                            /\ Len(phs[n][i].id.txs) # 0
                            /\ cache[n][phs[n][i].id] = "ready"}
RetrCandidates(n) ==
    {i \in 1..Len(phs[n]) : NeedsRetrieval(n, phs[n][i])}

\* Candidates before the chosen one (all of them when none is chosen) were
\* scanned: each cache miss among them was handed to Retrieve, which
\* registers the request as pending unless the call failed.
Retrieval(n, scanned, retrFail) ==
    LET v       == phs[n]
        asked   == {v[i].id : i \in {j \in scanned : NeedsRetrieval(n, v[j])}}
        started == {v[i].id : i \in {j \in scanned \ retrFail :
                                        NeedsRetrieval(n, v[j])}}
    IN  /\ cache' = [cache EXCEPT ![n] =
                        [id \in DataIDs |-> IF id \in started THEN "pending"
                                                              ELSE @[id]]]
        /\ retrieved' = [retrieved EXCEPT ![n] = @ \cup asked]

ChooseProposedBlock(n, simFail, retrFail) ==
    LET v   == phs[n]
        acc == {i \in 1..Len(v) : Acceptable(n, v[i], i \in simFail)}
    IN  /\ eh[n] # 0
        /\ curH[n] = eh[n]
        /\ curR[n] = er[n]
        /\ choice[n] = NoChoice
        /\ \/ \* nothing acceptable: "" is returned
              /\ acc = {}
              /\ Retrieval(n, 1..Len(v), retrFail)
              /\ UNCHANGED choice
           \/ \* the scan stops at the first acceptable candidate
              \E first \in acc :
                 /\ \A j \in acc : first <= j
                 /\ choice' = [choice EXCEPT ![n] = v[first]]
                 /\ Retrieval(n, 1..(first - 1), retrFail)
        /\ UNCHANGED <<eh, er, curH, curR, phs, txBuf, headers, provided,
                       now, restarts>>

-----------------------------------------------------------------------------
(***************************************************************************)
(* The environment.                                                        *)
(***************************************************************************)

\* The engine adds a header of its current round to n's round view.
Deliver(n, ph) ==
    /\ ph \in headers
    /\ ph.height = eh[n]
    /\ ph.round = er[n]
    /\ ph \notin ViewSet(phs[n])
    /\ phs' = [phs EXCEPT ![n] = Append(@, ph)]
    /\ UNCHANGED <<eh, er, curH, curR, choice, cache, txBuf, headers,
                   provided, retrieved, now, restarts>>

\* A background retrieval finishes: the data came from some provider and
\* the request is marked ready.
FetchComplete(n, id) ==
    /\ cache[n][id] = "pending"
    /\ \E p \in Nodes : <<p, id>> \in provided
    /\ cache' = [cache EXCEPT ![n][id] = "ready"]
    /\ UNCHANGED <<eh, er, curH, curR, phs, choice, txBuf, headers,
                   provided, retrieved, now, restarts>>

\* SubmitTransaction (ggrpc, part_000 17-50): ValidateTx against committed
\* state, then AddTx, which simulates on top of the buffered transactions.
\* Every rejection returns without a state change.
SubmitTransaction(n, tx) ==
    /\ Len(txBuf[n]) < MaxBuf
    /\ ValidChain(Append(txBuf[n], tx))
    /\ txBuf' = [txBuf EXCEPT ![n] = Append(@, tx)]
    /\ UNCHANGED <<eh, er, curH, curR, phs, choice, cache, headers,
                   provided, retrieved, now, restarts>>

\* A faulty validator proposes a header, serving its data or not.
ByzPropose(ph, serve) ==
    /\ ph \notin headers
    /\ headers' = headers \cup {ph}
    /\ provided' = IF serve /\ ph.id # Malformed
                     THEN provided \cup {<<ph.proposer, ph.id>>}
                     ELSE provided
    /\ UNCHANGED <<eh, er, curH, curR, phs, choice, cache, txBuf,
                   retrieved, now, restarts>>

\* The process restarts: the strategy's fields, the request cache, the
\* transaction buffer and the data it served are in memory and are lost;
\* the engine's round and round view survive.
Restart(n) ==
    /\ restarts < MaxRestarts
    /\ restarts' = restarts + 1
    /\ curH' = [curH EXCEPT ![n] = 0]
    /\ curR' = [curR EXCEPT ![n] = 0]
    /\ choice' = [choice EXCEPT ![n] = NoChoice]
    /\ cache' = [cache EXCEPT ![n] = [id \in DataIDs |-> "absent"]]
    /\ txBuf' = [txBuf EXCEPT ![n] = << >>]
    /\ provided' = {pi \in provided : pi[1] # n}
    /\ UNCHANGED <<eh, er, phs, headers, retrieved, now>>

Tick ==
    /\ now < MaxTime
    /\ now' = now + 1
    /\ UNCHANGED <<eh, er, curH, curR, phs, choice, cache, txBuf, headers,
                   provided, retrieved, restarts>>

-----------------------------------------------------------------------------
Init ==
    /\ eh = [n \in Honest |-> 0]
    /\ er = [n \in Honest |-> 0]
    /\ curH = [n \in Honest |-> 0]
    /\ curR = [n \in Honest |-> 0]
    /\ phs = [n \in Honest |-> << >>]
    /\ choice = [n \in Honest |-> NoChoice]
    /\ cache = [n \in Honest |-> [id \in DataIDs |-> "absent"]]
    /\ txBuf = [n \in Honest |-> << >>]
    /\ headers = {}
    /\ provided = {}
    /\ retrieved = [n \in Honest |-> {}]
    /\ now = 0
    /\ restarts = 0

Next ==
    \/ \E n \in Honest, h \in Heights, r \in Rounds : NewRound(n, h, r)
    \/ \E n \in Honest : ReEnterRound(n)
    \/ \E n \in Honest :
           \E sf \in SUBSET SimCandidates(n), rf \in SUBSET RetrCandidates(n) :
               ChooseProposedBlock(n, sf, rf)
    \/ \E n \in Honest, ph \in headers : Deliver(n, ph)
    \/ \E n \in Honest, id \in DataIDs : FetchComplete(n, id)
    \/ \E n \in Honest, tx \in Txs : SubmitTransaction(n, tx)
    \/ \E ph \in ByzHeaders, serve \in BOOLEAN : ByzPropose(ph, serve)
    \/ \E n \in Honest : Restart(n)
    \/ Tick

Spec == Init /\ [][Next]_vars

(***************************************************************************)
(* Fairness.  The engine keeps calling ChooseProposedBlock while it has no *)
(* choice (spec 2, 4.5), and simulation state-access and Retrieve errors   *)
(* are transient, so a call without them is weakly fair; the retriever    *)
(* retries a pending fetch until the data arrives (4.4); the clock keeps  *)
(* running; the engine re-enters its round after a restart.  Round        *)
(* changes, deliveries, faulty proposals and restarts are not forced.     *)
(***************************************************************************)
Fairness ==
    /\ \A n \in Honest : WF_vars(ChooseProposedBlock(n, {}, {}))
    /\ \A n \in Honest : WF_vars(\E id \in DataIDs : FetchComplete(n, id))
    /\ \A n \in Honest : WF_vars(ReEnterRound(n))
    /\ WF_vars(Tick)

LiveSpec == Spec /\ Fairness

-----------------------------------------------------------------------------
TypeOK ==
    /\ eh \in [Honest -> {0} \cup Heights]
    /\ er \in [Honest -> Rounds]
    /\ curH \in [Honest -> {0} \cup Heights]
    /\ curR \in [Honest -> Rounds]
    /\ phs \in [Honest -> Seq(Headers)]
    /\ choice \in [Honest -> Headers \cup {NoChoice}]
    /\ cache \in [Honest -> [DataIDs -> CacheStatus]]
    /\ txBuf \in [Honest -> TxSeqs]
    /\ headers \subseteq Headers
    /\ provided \subseteq Nodes \X DataIDs
    /\ retrieved \in [Honest -> SUBSET DataIDs]
    /\ now \in 0..MaxTime
    /\ restarts \in 0..MaxRestarts

(***************************************************************************)
(* The block ChooseProposedBlock settled on is one the spec allows this    *)
(* node to prevote for: it is in the round view, its data ID is well       *)
(* formed and names the round the strategy is in (a Byzantine proposer     *)
(* cannot slip in a foreign ID), every one of its transactions simulates   *)
(* on the state left by the ones before it (the whole candidate is skipped *)
(* on any failure, lines 318-355), and its claimed time is not after this  *)
(* node's clock.  It must still hold after later ticks, deliveries,        *)
(* fetches and restarts.                                                   *)
(***************************************************************************)
SoundChoice(n) ==
    choice[n] # NoChoice =>
        LET ph == choice[n] IN
        /\ ph \in ViewSet(phs[n])
        /\ ph.id # Malformed
        /\ ph.id.h = curH[n] /\ ph.id.r = curR[n]
        /\ ValidChain(ph.id.txs)
        /\ ph.time # BadAnnotation /\ ph.time <= LocalNow(n)

ChosenIsSound == \A n \in Honest : SoundChoice(n)

(***************************************************************************)
(* An honest validator never equivocates: it proposes at most one header   *)
(* per height and round, also when it restarts in the middle of the round  *)
(* and the engine calls EnterRound again (the early return of 166-170).    *)
(***************************************************************************)
NoEquivocation ==
    \A p1, p2 \in headers :
        (/\ p1.proposer \in Honest
         /\ p1.proposer = p2.proposer
         /\ p1.height = p2.height
         /\ p1.round = p2.round) => p1 = p2

(***************************************************************************)
(* Spec 4.2 step 8: the local proposer never re-fetches its own data.      *)
(***************************************************************************)
OwnDataNeverFetched ==
    \A n \in Honest : \A ph \in headers :
        ph.proposer = n => ph.id \notin retrieved[n]

\* The data of a header can still be had: nothing to fetch, or someone serves it.
Servable(ph) ==
    \/ ph.id.txs = << >>
    \/ \E q \in Nodes : <<q, ph.id>> \in provided

\* n waits in round (h, r) with an honest header in view that it can accept
\* once its data is fetched and its clock has reached the claimed time.
AwaitsHonestProposal(n, h, r) ==
    /\ eh[n] = h /\ er[n] = r
    /\ choice[n] = NoChoice
    /\ \E ph \in ViewSet(phs[n]) :
           /\ ph.proposer \in Honest
           /\ Servable(ph)
           /\ ph.time <= MaxTime + Skew[n]

(***************************************************************************)
(* Deferred, then accepted (spec 8): once an honest proposal whose data    *)
(* can be fetched is in a node's round view, ChooseProposedBlock           *)
(* eventually returns a block, unless the engine leaves the round first or *)
(* the proposal's data stops being served.  A candidate deferred on a     *)
(* cache miss, a pending fetch or a future time is not lost.               *)
(***************************************************************************)
HonestProposalEventuallyChosen ==
    \A n \in Honest : \A h \in Heights : \A r \in Rounds :
        AwaitsHonestProposal(n, h, r) ~>
            \/ choice[n] # NoChoice
            \/ <<eh[n], er[n]>> # <<h, r>>
            \/ ~\E ph \in ViewSet(phs[n]) : ph.proposer \in Honest /\ Servable(ph)
=============================================================================
