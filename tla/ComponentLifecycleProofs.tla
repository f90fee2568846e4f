---------------------- MODULE ComponentLifecycleProofs ----------------------
(***************************************************************************)
(* Proofs about ComponentLifecycle: Stop ends everything it has a field    *)
(* for, and releases the transport after the goroutines that use it.      *)
(*                                                                         *)
(* FieldsReleased is not inductive: a step of Stop only looks at the field *)
(* it is about, so the proof needs to know that every running resource    *)
(* with a field has it set (Start sets each field as soon as the resource *)
(* exists), that nothing is created once Stop has begun,                  *)
(* and, for each stage of Stop, which resources it has already seen end.  *)
(***************************************************************************)
EXTENDS ComponentLifecycle, TLAPS

\* Every running resource the Component has a field for is one Stop can reach.
RefsCover == \A r \in Fielded : live[r] => ref[r]

\* The HTTP server exists only when Init kept its listener, and nothing
\* exists before Init.
HttpNeedsLn ==
    /\ ref["http"] => httpLn
    /\ phase = "new" => ~ref["http"]

\* What each stage of Stop has already seen end.
StopProgress ==
    /\ stopPc \in {"waitD", "close", "waitHTTP", "done"} => ~live["engine"]
    /\ stopPc \in {"close", "waitHTTP", "done"} => ~live["driver"]
    /\ stopPc \in {"waitHTTP", "done"} => ~live["conn"] /\ ~live["host"]
    /\ stopPc = "done" => ~live["http"]

LInv == TypeOK /\ RefsCover /\ HttpNeedsLn /\ StopProgress

USE DEF Res, StopPcs, Orphans, Fielded

\* The invariant holds initially.
LEMMA LInvInit == Init => LInv
BY DEF Init, LInv, TypeOK, RefsCover, HttpNeedsLn, StopProgress, NoRes, StopPcs

\* Start creates nothing it does not also point a field to, and only runs
\* before Stop.
LEMMA LInvStart ==
    ASSUME LInv, NEW k \in 1..(Len(StartOrder) + 1), Start(k)
    PROVE  LInv'
<1>1. Acquired(k) \subseteq Res
  BY DEF Acquired, Created, StartOrder, Res
<1>2. "http" \in Acquired(k) => httpLn
  BY DEF Acquired, Created, StartOrder
<1>3. TypeOK'
  BY <1>1 DEF Start, LInv, TypeOK
<1>4. RefsCover'
  BY DEF Start, LInv, RefsCover
<1>5. HttpNeedsLn'
  BY <1>2 DEF Start, LInv, HttpNeedsLn, TypeOK, Res
<1>6. StopProgress'
  BY DEF Start, StopProgress
<1>7. QED
  BY <1>3, <1>4, <1>5, <1>6 DEF LInv

\* Each step of Stop moves on only past what has ended.
LEMMA LInvStop ==
    ASSUME LInv, StopStep
    PROVE  LInv'
<1> USE DEF LInv, TypeOK, StopPcs
<1>1. CASE StopCancel
  BY <1>1 DEF StopCancel, RefsCover, HttpNeedsLn, StopProgress
<1>2. CASE StopWait("engine", "waitE", "waitD")
  BY <1>2 DEF StopWait, RefsCover, HttpNeedsLn, StopProgress
<1>3. CASE StopWait("driver", "waitD", "close")
  BY <1>3 DEF StopWait, RefsCover, HttpNeedsLn, StopProgress
<1>4. CASE StopClose
  <2>1. TypeOK'
    BY <1>4 DEF StopClose, Res
  <2>2. RefsCover'
    BY <1>4 DEF StopClose, RefsCover, Res
  <2>3. StopProgress'
    <3>1. ~live'["conn"] /\ ~live'["host"]
      BY <1>4 DEF StopClose, RefsCover, Res
    <3>2. stopPc' = "done" => ~live'["http"]
      BY <1>4 DEF StopClose, RefsCover, HttpNeedsLn, Res
    <3>3. QED
      BY <1>4, <3>1, <3>2 DEF StopClose, StopProgress, Res
  <2>4. QED
    BY <1>4, <2>1, <2>2, <2>3 DEF StopClose, HttpNeedsLn
<1>5. CASE StopWait("http", "waitHTTP", "done")
  BY <1>5 DEF StopWait, RefsCover, HttpNeedsLn, StopProgress
<1>6. QED
  BY <1>1, <1>2, <1>3, <1>4, <1>5 DEF StopStep

\* Every step of the specification keeps the invariant.
LEMMA LInvStep == LInv /\ [Next]_vars => LInv'
<1> SUFFICES ASSUME LInv, [Next]_vars PROVE LInv'
  OBVIOUS
<1>1. CASE ComponentInit
  <2>1. /\ phase' \in {"initFailed", "inited"}
        /\ lnOpen' \in BOOLEAN /\ httpLn' \in BOOLEAN
        /\ UNCHANGED <<live, ref, rootCancelled, ctxCancelled, stopPc>>
    BY <1>1 DEF ComponentInit, LInv, TypeOK
  <2>2. ~ref["http"]
    BY <1>1 DEF ComponentInit, LInv, HttpNeedsLn
  <2>3. QED
    BY <2>1, <2>2 DEF LInv, TypeOK, RefsCover, HttpNeedsLn, StopProgress
<1>2. CASE \E k \in 1..(Len(StartOrder) + 1) : Start(k)
  BY <1>2, LInvStart
<1>3. CASE StopStep
  BY <1>3, LInvStop
<1>4. CASE CancelStartCtx
  BY <1>4 DEF CancelStartCtx, LInv, TypeOK, RefsCover, HttpNeedsLn, StopProgress
<1>5. CASE \E r \in Background : Exit(r)
  BY <1>5 DEF Exit, Background, LInv, TypeOK, RefsCover, HttpNeedsLn,
              StopProgress, Res
<1>6. CASE UNCHANGED vars
  BY <1>6 DEF vars, LInv, TypeOK, RefsCover, HttpNeedsLn, StopProgress
<1>7. QED
  BY <1>1, <1>2, <1>3, <1>4, <1>5, <1>6 DEF Next

(***************************************************************************)
(* Whichever step of Start failed, when Stop returns nothing Start         *)
(* configured with a field is still open or running (component.go 65-69,  *)
(* 243-268).                                                               *)
(***************************************************************************)
THEOREM FieldsReleasedHolds == Spec => []FieldsReleased
<1>1. LInv => FieldsReleased
  BY DEF LInv, StopProgress, FieldsReleased, Fielded, Orphans
<1>2. QED
  BY <1>1, LInvInit, LInvStep, PTL DEF Spec

\* Every step that releases the connection or the host is Stop's Close
\* stage, which LInv says the engine and the driver have already left.
LEMMA ReleaseStep == LInv /\ [Next]_vars => [ReleaseOrder]_vars
<1> SUFFICES ASSUME LInv, [Next]_vars PROVE [ReleaseOrder]_vars
  OBVIOUS
<1>1. CASE StopClose
  BY <1>1 DEF StopClose, LInv, StopProgress, ReleaseOrder
<1>2. CASE \E k \in 1..(Len(StartOrder) + 1) : Start(k)
  BY <1>2 DEF Start, ReleaseOrder
<1>3. CASE \E r \in Background : Exit(r)
  BY <1>3 DEF Exit, Background, LInv, TypeOK, ReleaseOrder
<1>4. CASE ~StopClose /\ ~(\E k \in 1..(Len(StartOrder) + 1) : Start(k))
           /\ ~(\E r \in Background : Exit(r))
  <2>1. UNCHANGED live
    BY <1>4 DEF Next, StopStep, ComponentInit, StopCancel, StopWait,
                CancelStartCtx, vars
  <2>2. QED
    BY <2>1 DEF ReleaseOrder
<1>5. QED
  BY <1>1, <1>2, <1>3, <1>4

(***************************************************************************)
(* Stop disconnects the connection and closes the host only after the      *)
(* engine and the driver have exited (component.go 245-257), whichever    *)
(* step of Start failed.                                                   *)
(***************************************************************************)
THEOREM ReleaseAfterExitHolds == Spec => ReleaseAfterExit
<1>1. []LInv /\ [][Next]_vars => [][ReleaseOrder]_vars
  BY ReleaseStep, PTL
<1>2. QED
  BY <1>1, LInvInit, LInvStep, PTL DEF Spec, ReleaseAfterExit
=============================================================================
