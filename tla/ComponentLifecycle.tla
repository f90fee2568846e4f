------------------------- MODULE ComponentLifecycle -------------------------
(***************************************************************************)
(* The server component of gcosmos/gserver/component.go as the SDK server  *)
(* module drives it: Init, then Start, then Stop, each called once and in  *)
(* that order (Stop may follow a failed Init or Start).                    *)
(*                                                                         *)
(* Init and Start run sequentially and are atomic steps whose failure      *)
(* point is chosen; what they leave behind is the set of resources they    *)
(* acquired before failing and the fields of the Component that point to   *)
(* them.  Stop blocks on Wait calls, so each of its waits is a step of its *)
(* own, and the background goroutines it waits for exit in steps of their  *)
(* own once their context is cancelled or their listener closed.           *)
(***************************************************************************)
EXTENDS Naturals, Sequences

\* The steps of Start that can fail, in their order (lines 103-217).
StartOrder == <<"host", "conn", "driver", "engine">>

\* Started between the driver and the engine and kept in no field: the
\* gossip strategy (199, on Start's ctx and conn) and the watchdog (206,
\* on rootCtx).  Their constructors cannot fail.
Orphans == {"gossip", "watchdog"}

\* Everything Start creates; the HTTP server comes last when Init opened a
\* listener (224-238).
Res == {"host", "conn", "driver", "engine", "http"} \cup Orphans

\* The resources the Component has a field for (lines 65-75).
Fielded == Res \ Orphans

\* The resources that run goroutines until a context or listener stops them.
Background == {"driver", "engine", "http"} \cup Orphans

StopPcs == {"idle", "waitE", "waitD", "close", "waitHTTP", "done"}

VARIABLES
    phase,         \* where the SDK's calls have got to
    lnOpen,        \* the TCP listener Init opened is open
    httpLn,        \* c.httpLn # nil
    live,          \* live[r]: r is open or its goroutines run
    ref,           \* ref[r]: the Component field for r is set (c.h, c.conn, ...)
    rootCancelled, \* c.cancel has been called (rootCtx and wdCtx are done)
    ctxCancelled,  \* the ctx the SDK passed to Start is done
    stopPc         \* where Stop is

vars == <<phase, lnOpen, httpLn, live, ref, rootCancelled, ctxCancelled, stopPc>>

NoRes == [r \in Res |-> FALSE]

-----------------------------------------------------------------------------
(***************************************************************************)
(* Init (270-363).  httpAddr and httpAddrFile are the two flags; the log   *)
(* check, net.Listen and os.WriteFile may fail.  The panic on a non-       *)
(* ed25519 key ends the process and is left out.                           *)
(***************************************************************************)
ComponentInit ==
    /\ phase = "new"
    /\ \E logOK, httpAddr, httpAddrFile, listenOK, writeOK \in BOOLEAN :
         IF ~logOK \/ (httpAddr /\ ~listenOK)
           THEN /\ phase' = "initFailed"
                /\ UNCHANGED <<lnOpen, httpLn>>
         ELSE IF httpAddr /\ httpAddrFile /\ ~writeOK
           THEN \* the listener is open but neither stored nor closed
                /\ phase' = "initFailed"
                /\ lnOpen' = TRUE
                /\ UNCHANGED httpLn
         ELSE /\ phase' = "inited"
              /\ lnOpen' = httpAddr
              /\ httpLn' = httpAddr
    /\ UNCHANGED <<live, ref, rootCancelled, ctxCancelled, stopPc>>

\* Start (102-241): it fails at stage k of StartOrder, having acquired the
\* stages before it (and the gossip strategy and watchdog once the driver
\* exists), or succeeds (k = Len(StartOrder) + 1) and also starts the HTTP
\* server when there is a listener.  Each field is set right after the call
\* that creates it succeeds.
Created(k) == {StartOrder[i] : i \in 1..(k - 1)}

Acquired(k) ==
    Created(k)
      \cup (IF "driver" \in Created(k) THEN Orphans ELSE {})
      \cup (IF k > Len(StartOrder) /\ httpLn THEN {"http"} ELSE {})

\* Mutant: c.h is only set once the connection is built, so a failure of
\* NewConnection leaves the host running with no field pointing to it.
StartLateHostRef(k) ==
    /\ phase = "inited"
    /\ stopPc = "idle"
    /\ phase' = IF k > Len(StartOrder) THEN "started" ELSE "startFailed"
    /\ live' = [r \in Res |-> live[r] \/ r \in Acquired(k)]
    /\ ref' = [r \in Res |-> ref[r] \/ (r \in Acquired(k) \cap Fielded /\ (r = "host" => k > 2))]
    /\ UNCHANGED <<lnOpen, httpLn, rootCancelled, ctxCancelled, stopPc>>

Start(k) ==
    /\ phase = "inited"
    /\ stopPc = "idle"
    /\ phase' = IF k > Len(StartOrder) THEN "started" ELSE "startFailed"
    /\ live' = [r \in Res |-> live[r] \/ r \in Acquired(k)]
    /\ ref' = [r \in Res |-> ref[r] \/ r \in Acquired(k) \cap Fielded]
    /\ UNCHANGED <<lnOpen, httpLn, rootCancelled, ctxCancelled, stopPc>>

-----------------------------------------------------------------------------
(***************************************************************************)
(* Stop (243-268).                                                         *)
(***************************************************************************)

\* Mutant: Stop forgets to cancel the root context before waiting.
StopCancelMissing ==
    /\ phase # "new"
    /\ stopPc = "idle"
    /\ stopPc' = "waitE"
    /\ UNCHANGED <<phase, lnOpen, httpLn, live, ref, rootCancelled, ctxCancelled>>

\* Line 244: c.cancel(...).
StopCancel ==
    /\ phase # "new"
    /\ stopPc = "idle"
    /\ rootCancelled' = TRUE
    /\ stopPc' = "waitE"
    /\ UNCHANGED <<phase, lnOpen, httpLn, live, ref, ctxCancelled>>

\* Mutant: the Wait is skipped, so Stop goes on while the goroutines run.
StopWaitSkipped(r, pc, next) ==
    /\ stopPc = pc
    /\ stopPc' = next
    /\ UNCHANGED <<phase, lnOpen, httpLn, live, ref, rootCancelled, ctxCancelled>>

\* Lines 245-250: e.Wait() and driver.Wait() return once the goroutines
\* have exited; a nil field is skipped.
StopWait(r, pc, next) ==
    /\ stopPc = pc
    /\ ref[r] => ~live[r]
    /\ stopPc' = next
    /\ UNCHANGED <<phase, lnOpen, httpLn, live, ref, rootCancelled, ctxCancelled>>

\* Lines 251-262: Disconnect, host Close and listener Close return at once
\* (errors are logged); then the HTTP server is waited for if there is one.
StopClose ==
    /\ stopPc = "close"
    /\ live' = [r \in Res |-> IF r \in {"conn", "host"} /\ ref[r] THEN FALSE
                                                                  ELSE live[r]]
    /\ lnOpen' = (lnOpen /\ ~httpLn)
    /\ stopPc' = IF httpLn /\ ref["http"] THEN "waitHTTP" ELSE "done"
    /\ UNCHANGED <<phase, httpLn, ref, rootCancelled, ctxCancelled>>

-----------------------------------------------------------------------------
(***************************************************************************)
(* The environment: the SDK cancels Start's ctx, and background goroutines *)
(* exit.  The engine runs under wdCtx and the driver and watchdog under    *)
(* rootCtx, all children of the root context; the gossip strategy runs    *)
(* under Start's ctx; the HTTP server stops when its listener is closed   *)
(* or its ctx (Start's) is done.                                           *)
(***************************************************************************)
CancelStartCtx ==
    /\ phase \in {"started", "startFailed"}
    /\ ~ctxCancelled
    /\ ctxCancelled' = TRUE
    /\ UNCHANGED <<phase, lnOpen, httpLn, live, ref, rootCancelled, stopPc>>

ExitCondition(r) ==
    CASE r = "http"   -> ~lnOpen \/ ctxCancelled
      [] r = "gossip" -> ctxCancelled
      [] OTHER        -> rootCancelled

Exit(r) ==
    /\ live[r]
    /\ ExitCondition(r)
    /\ live' = [live EXCEPT ![r] = FALSE]
    /\ UNCHANGED <<phase, lnOpen, httpLn, ref, rootCancelled, ctxCancelled, stopPc>>

-----------------------------------------------------------------------------
Init ==
    /\ phase = "new"
    /\ lnOpen = FALSE
    /\ httpLn = FALSE
    /\ live = NoRes
    /\ ref = NoRes
    /\ rootCancelled = FALSE
    /\ ctxCancelled = FALSE
    /\ stopPc = "idle"

StopStep ==
    \/ StopCancel
    \/ StopWait("engine", "waitE", "waitD")
    \/ StopWait("driver", "waitD", "close")
    \/ StopClose
    \/ StopWait("http", "waitHTTP", "done")

Next ==
    \/ ComponentInit
    \/ \E k \in 1..(Len(StartOrder) + 1) : Start(k)
    \/ StopStep
    \/ CancelStartCtx
    \/ \E r \in Background : Exit(r)

Spec == Init /\ [][Next]_vars

(***************************************************************************)
(* The SDK calls Stop once Start has returned (it is not forced to), Stop  *)
(* keeps running once called, and a goroutine whose context is done or     *)
(* whose listener is closed does exit.                                     *)
(***************************************************************************)
Fairness ==
    /\ WF_vars(StopStep /\ stopPc # "idle")
    /\ \A r \in Background : WF_vars(Exit(r))

LiveSpec == Spec /\ Fairness

-----------------------------------------------------------------------------
TypeOK ==
    /\ phase \in {"new", "initFailed", "inited", "started", "startFailed"}
    /\ lnOpen \in BOOLEAN
    /\ httpLn \in BOOLEAN
    /\ live \in [Res -> BOOLEAN]
    /\ ref \in [Res -> BOOLEAN]
    /\ rootCancelled \in BOOLEAN
    /\ ctxCancelled \in BOOLEAN
    /\ stopPc \in StopPcs

(***************************************************************************)
(* "Configured during Start, and needs a clean shutdown during Stop"       *)
(* (lines 65-69): when Stop returns, nothing Start configured with a field *)
(* is still open or running, whichever step of Start failed; the nil       *)
(* checks of Stop only skip what was never created.                        *)
(***************************************************************************)
FieldsReleased ==
    stopPc = "done" => \A r \in Fielded : ~live[r]

(***************************************************************************)
(* When Stop returns, nothing Start created is still running, the gossip   *)
(* strategy and the watchdog included: Stop neither waits for them nor     *)
(* cancels the gossip strategy's ctx.                                      *)
(***************************************************************************)
StoppedClean ==
    stopPc = "done" => \A r \in Res : ~live[r]

(***************************************************************************)
(* Stop disconnects the connection and closes the host only once the      *)
(* engine and the driver, whose goroutines use them, have exited: the      *)
(* Waits of lines 245-250 come before the Disconnect and Close of 251-257. *)
(***************************************************************************)
ReleaseOrder ==
    \A r \in {"conn", "host"} :
        live[r] /\ ~live'[r] => ~live["engine"] /\ ~live["driver"]

ReleaseAfterExit == [][ReleaseOrder]_vars

(***************************************************************************)
(* When Stop returns, the HTTP listener Init opened is closed, however     *)
(* Init ended.                                                             *)
(***************************************************************************)
ListenerClosedOnStop ==
    stopPc = "done" => ~lnOpen

(***************************************************************************)
(* Once called, Stop returns: every Wait it makes is on goroutines that    *)
(* the preceding cancel or Close has told to exit.                         *)
(***************************************************************************)
StopReturns ==
    stopPc # "idle" ~> stopPc = "done"
=============================================================================
