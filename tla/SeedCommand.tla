----------------------------- MODULE SeedCommand -----------------------------
(***************************************************************************)
(* The "seed" subcommand of gcosmos/gserver/component.go (newSeedCommand,  *)
(* 384-458): a libp2p host and a DHT peer that validators find each other *)
(* through.  RunE runs its calls one after the other, returning on the     *)
(* first error; its deferred cancel ends the context the host and the DHT  *)
(* were created under, and when RunE returns the command, and the process  *)
(* that runs it, is done.  The caller may cancel cmd.Context() (Ctrl+C) at *)
(* any time.                                                               *)
(***************************************************************************)
EXTENDS Naturals

\* The calls of RunE in order; "ret" is its return (deferred cancel included).
Calls == <<"newHost", "dht", "addrs", "write", "print">>

VARIABLES
    pc,          \* the next call of RunE, "ret", or "exited"
    hostUp,      \* the host and its DHT peer serve (created, ctx not done)
    fileWritten, \* the address file names the seed's multiaddrs
    ctxDone,     \* ctx (WithCancel of cmd.Context()) is done
    interrupted  \* the caller cancelled cmd.Context()

vars == <<pc, hostUp, fileWritten, ctxDone, interrupted>>

\* A call of RunE.  NewHost, dht.New, AddrInfoToP2pAddrs and os.WriteFile
\* may fail; each failure returns its error.  The host serves from the
\* moment NewHost returns (with the DHT once dht.New has attached to it).
Step(i) ==
    /\ pc = Calls[i]
    /\ \/ /\ pc' = IF i < 5 THEN Calls[i + 1] ELSE "ret"
          /\ hostUp' = (hostUp \/ (i = 1 /\ ~ctxDone))
          /\ fileWritten' = (fileWritten \/ i = 4)
       \/ /\ i \in {1, 2, 3, 4}
          /\ pc' = "ret"
          /\ UNCHANGED <<hostUp, fileWritten>>
    /\ UNCHANGED <<ctxDone, interrupted>>

\* RunE returns: the deferred cancel ends ctx, and the host and DHT it was
\* created under with it; the command completes and the process exits.
Return ==
    /\ pc = "ret"
    /\ pc' = "exited"
    /\ ctxDone' = TRUE
    /\ hostUp' = FALSE
    /\ UNCHANGED <<fileWritten, interrupted>>

\* The caller cancels cmd.Context(): ctx, derived from it, is done too.
Interrupt ==
    /\ ~interrupted
    /\ interrupted' = TRUE
    /\ ctxDone' = TRUE
    /\ hostUp' = FALSE
    /\ UNCHANGED <<pc, fileWritten>>

Init ==
    /\ pc = "newHost"
    /\ hostUp = FALSE
    /\ fileWritten = FALSE
    /\ ctxDone = FALSE
    /\ interrupted = FALSE

Next ==
    \/ \E i \in 1..5 : Step(i)
    \/ Return
    \/ Interrupt

Spec == Init /\ [][Next]_vars

-----------------------------------------------------------------------------
(***************************************************************************)
(* The command's own description: a seed node runs as a central discovery  *)
(* point.  Once it has written the file that advertises its addresses, it  *)
(* must keep serving them until its caller stops it.  RunE returns right   *)
(* after printing them, and its deferred cancel and the end of the command *)
(* take the seed down while validators are still told to dial it.          *)
(***************************************************************************)
SeedServesUntilInterrupted ==
    fileWritten /\ ~interrupted => hostUp
=============================================================================
