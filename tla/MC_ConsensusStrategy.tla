------------------------ MODULE MC_ConsensusStrategy ------------------------
(***************************************************************************)
(* Small instances of ConsensusStrategy.  Height 2, rounds 0 and 1.  tA    *)
(* then tB is a valid batch, tB then tA fails on its second transaction,   *)
(* tX always fails.  Two instances:                                        *)
(*   - Byz: one honest validator n2 facing the headers of a faulty b in    *)
(*     round 0 (n2 is the proposer of round 0, b of round 1);              *)
(*   - Honest: n1 and n2 honest, b faulty, list <<n1, n2, b>>, so b        *)
(*     proposes round 0 and n1 round 1; n1's clock runs one tick ahead,    *)
(*     so n2 sees n1's proposal in the future until time catches up, and   *)
(*     one restart may happen.                                             *)
(***************************************************************************)
EXTENDS StrategyRefinement

CONSTANTS n1, n2, b, tA, tB, tX

MCByzNodes == {n2, b}
MCByzValList == <<n2, b>>
MCNodes == {n1, n2, b}
MCValList == <<n1, n2, b>>
MCTxs == {tA, tB, tX}
MCConflicts == {<<tA, tA>>, <<tB, tB>>, <<tB, tA>>}
MCSkew == [n \in Nodes |-> IF n = n1 THEN 1 ELSE 0]

ByzHeader(id, t) ==
    [proposer |-> b, height |-> 2, round |-> 0, id |-> id, time |-> t]

\* Round-0 headers of b: a valid batch, a batch whose second transaction
\* fails, an ID naming round 1, a time in the future and an unparsable ID.
MCByzHeaders ==
    { ByzHeader(Malformed, 0),
      ByzHeader([h |-> 2, r |-> 0, txs |-> <<tA>>], 0),
      ByzHeader([h |-> 2, r |-> 0, txs |-> <<tB, tA>>], 0),
      ByzHeader([h |-> 2, r |-> 1, txs |-> << >>], 0),
      ByzHeader([h |-> 2, r |-> 0, txs |-> << >>], 4) }

\* The instance with honest proposals: no always-failing transaction, and
\* one acceptable round-0 header of b.
MCTxsHonest == {tA, tB}
MCByzHeadersFew == { ByzHeader([h |-> 2, r |-> 0, txs |-> <<tA>>], 0) }
=============================================================================
