------------------------------ MODULE FullSync ------------------------------
(***************************************************************************)
(* The request for a full synchronisation: the flag PendingFullSync that   *)
(* Plasmatix keeps for each scanner.  Somebody sets it there; a handshake  *)
(* that has read it tells the scanner to begin at stamp 0 and then posts   *)
(* ack-full-sync, which clears it (handleCData and ackFullSync of          *)
(* main.go).  The acknowledgement does not say which request it is for.    *)
(***************************************************************************)
EXTENDS ScannerIDs

VARIABLES
  flag,      \* flag[d]: PendingFullSync, kept by Plasmatix
  waiting,   \* history, waiting[d]: no stamp 0 received since it was last set
  swallowed  \* history, swallowed[d]: answer lost, or set again before the ack

syncVars == <<flag, waiting, swallowed>>

SyncInit ==
  /\ flag = [d \in Scanners |-> FALSE] /\ waiting = [d \in Scanners |-> FALSE]
  /\ swallowed = [d \in Scanners |-> FALSE]

\* Plasmatix is asked for a full synchronisation of d; acking says whether an
\* earlier one is on its way to being acknowledged.
Asked(d, acking) ==
  /\ flag' = [flag EXCEPT ![d] = TRUE] /\ waiting' = [waiting EXCEPT ![d] = TRUE]
  /\ swallowed' = [swallowed EXCEPT ![d] = acking]

\* Stamp 0 reaches scanner d, or is lost.
Told(d) == waiting' = [waiting EXCEPT ![d] = FALSE] /\ UNCHANGED <<flag, swallowed>>
Lost(d) == swallowed' = [swallowed EXCEPT ![d] = TRUE] /\ UNCHANGED <<flag, waiting>>

\* Plasmatix takes ack-full-sync.
Cleared(d) == flag' = [flag EXCEPT ![d] = FALSE] /\ UNCHANGED <<waiting, swallowed>>

-----------------------------------------------------------------------------
\* "Return Stamp=0 so the device replays its full local backlog, then ack so
\* the flag clears" (handleCData): with two handshakes under way, failed fetches
\* and acknowledgements, restarts and requests made at any moment, the flag is
\* down only if the scanner has been told since it was last raised.  The
\* exceptions are an answer that is lost, which is acknowledged all the same,
\* and a request made while an earlier one is being acknowledged.
ClearedMeansTold ==
  \A d \in Scanners : flag[d] \/ ~waiting[d] \/ swallowed[d]

\* Every request is served: the scanner is told to begin at 0 after it, with the
\* same two exceptions.
FullSyncIsServed ==
  \A d \in Scanners : waiting[d] ~> (~waiting[d] \/ swallowed[d])
=============================================================================
