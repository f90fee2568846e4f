----------------------------- MODULE GRPCServer -----------------------------
(***************************************************************************)
(* The debug gRPC server of package ggrpc (unnamed/part_000) over the      *)
(* transaction buffer it shares with the consensus strategy and the store *)
(* of committed transactions.  A transaction is a model value and its      *)
(* hash is itself.  SimulateTransaction, PendingTransactions and           *)
(* QueryAccountBalance read state and change none, so they are stutters;   *)
(* the handlers that change state are SubmitTransaction and QueryTx, whose *)
(* panic takes the process down (grpc-go does not recover handler panics). *)
(***************************************************************************)
EXTENDS Naturals, Sequences

CONSTANTS
    Txs,        \* transactions a client may send
    BadTxs,     \* transactions that fail against the committed state
    Conflicts,  \* <<a, b>>: b fails when simulated after a
    MaxBuf      \* capacity of the model's buffer

VARIABLES
    txBuf,      \* the SDKTxBuf: transactions added, in order
    committed,  \* hashes the tx store can load (finalized transactions)
    crashed     \* the process died of a panic

vars == <<txBuf, committed, crashed>>

\* Each transaction succeeds on the state its predecessors left.
ValidChain(b) ==
    \A i \in 1..Len(b) :
        /\ b[i] \notin BadTxs
        /\ \A j \in 1..(i - 1) : <<b[j], b[i]>> \notin Conflicts

\* SubmitTransaction (17-50).  DecodeJSON fails, or ValidateTx returns an
\* error (store access) or a result error, or AddTx rejects the transaction
\* when it fails on top of the buffer: each returns without a state change.
\* Otherwise the transaction is buffered.
SubmitTransaction(tx) ==
    /\ ~crashed
    /\ \/ UNCHANGED vars
       \/ /\ Len(txBuf) < MaxBuf
          /\ ValidChain(Append(txBuf, tx))
          /\ txBuf' = Append(txBuf, tx)
          /\ UNCHANGED <<committed, crashed>>

\* QueryTx (130-148): LoadTxByHash fails for a hash the store does not
\* hold, and the handler panics on any error (line 134).
QueryTx(hash) ==
    /\ ~crashed
    /\ crashed' = (hash \notin committed)
    /\ UNCHANGED <<txBuf, committed>>

\* The driver finalizes a block made of a prefix of the buffer (the
\* proposer's batch): its transactions land in the store and leave the
\* buffer.
FinalizeBlock(k) ==
    /\ ~crashed
    /\ txBuf' = SubSeq(txBuf, k + 1, Len(txBuf))
    /\ committed' = committed \cup {txBuf[i] : i \in 1..k}
    /\ UNCHANGED crashed

Init ==
    /\ txBuf = << >>
    /\ committed = {}
    /\ crashed = FALSE

Next ==
    \/ \E tx \in Txs : SubmitTransaction(tx)
    \/ \E hash \in Txs : QueryTx(hash)
    \/ \E k \in 1..Len(txBuf) : FinalizeBlock(k)

Spec == Init /\ [][Next]_vars

-----------------------------------------------------------------------------
(***************************************************************************)
(* A client query never takes the node down.  The handler's own TODO calls *)
(* a lookup error possibly a bad request; a client that submits a          *)
(* transaction and asks for it before its block is finalized, or asks for *)
(* a hash that was never sent, makes LoadTxByHash fail and QueryTx panic.  *)
(***************************************************************************)
QueryNeverCrashes == ~crashed
=============================================================================
