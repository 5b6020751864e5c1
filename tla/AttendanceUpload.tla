-------------------------- MODULE AttendanceUpload --------------------------
(***************************************************************************)
(* Punches from a scanner to Plasmatix: the ATTLOG and rtlog branches of   *)
(* handleCData in main.go, and adms_attlog.go.                             *)
(*                                                                         *)
(* The scanner posts the punches it has not got rid of and forgets them    *)
(* when it is told "OK".  The handler passes them on, in batches or, when  *)
(* Plasmatix does not know batches, and for rtlog always, one by one, and  *)
(* answers after the last.  A scanner that has waited too long posts again *)
(* while the first handler is still at work.  Plasmatix may also query the *)
(* log of a scanner for a day it is short of; that reply is saved the same *)
(* way and acknowledged whether or not it was (handleQueryData).  The      *)
(* scanners and Plasmatix are external.                                    *)
(***************************************************************************)
EXTENDS ScannerIDs, Naturals, FiniteSets

CONSTANTS Punches,      \* the punches that can be made
          Realtime,     \* those a scanner sends as rtlog, the others as ATTLOG
          Uploads,      \* bound: upload requests handled at once
          BatchRows,    \* attlogBatchRows
          MaxFaults     \* bound: requests, bodies and answers that break

ASSUME UploadAssumption ==
  /\ IsFiniteSet(Punches) /\ Realtime \subseteq Punches
  /\ BatchRows \in Nat \ {0} /\ MaxFaults \in Nat

VARIABLES
  memory,    \* memory[d]: the punches of scanner d it has not got rid of
  made,      \* made[d]: every punch of scanner d
  stored,    \* the punches Plasmatix has
  pc,        \* pc[u]: where the handler of upload u is
  from,      \* from[u]: the scanner it comes from
  rows,      \* rows[u]: the punches in its body
  left,      \* left[u]: those Plasmatix has not acknowledged to this handler
  batch,     \* batch[u]: those of left[u] it sends, or sends one by one
  unread,    \* history: punches of a body the handler could not read
  faults

handler == <<from, rows>>
vars == <<memory, made, stored, pc, from, rows, left, batch, unread, faults>>

PCs == {None, "read", "batch", "single", "ok", "unavailable"}

TypeOK ==
  /\ memory \in [Scanners -> SUBSET Punches] /\ made \in [Scanners -> SUBSET Punches]
  /\ stored \subseteq Punches /\ unread \subseteq Punches
  /\ pc \in [Uploads -> PCs] /\ from \in [Uploads -> Scanners \cup {None}]
  /\ \A u \in Uploads : pc[u] # None => from[u] \in Scanners
  /\ rows \in [Uploads -> SUBSET Punches]
  /\ left \in [Uploads -> SUBSET Punches] /\ batch \in [Uploads -> SUBSET Punches]
  /\ faults \in 0..MaxFaults

Init ==
  /\ memory = [d \in Scanners |-> {}] /\ made = [d \in Scanners |-> {}]
  /\ stored = {} /\ unread = {} /\ faults = 0
  /\ pc = [u \in Uploads |-> None] /\ from = [u \in Uploads |-> None]
  /\ rows = [u \in Uploads |-> {}]
  /\ left = [u \in Uploads |-> {}] /\ batch = [u \in Uploads |-> {}]

Fault == faults < MaxFaults /\ faults' = faults + 1

Goto(u, p) == pc' = [pc EXCEPT ![u] = p]

-----------------------------------------------------------------------------
Punch(d, p) ==
  /\ \A e \in Scanners : p \notin made[e]
  /\ made'   = [made EXCEPT ![d] = @ \cup {p}]
  /\ memory' = [memory EXCEPT ![d] = @ \cup {p}]
  /\ UNCHANGED <<stored, pc, handler, left, batch, unread, faults>>

\* The scanner posts the punches of one table.
Post(u, d, S) ==
  /\ pc[u] = None
  /\ S \in {memory[d] \cap Realtime, memory[d] \ Realtime} /\ S # {}
  /\ from' = [from EXCEPT ![u] = d] /\ rows' = [rows EXCEPT ![u] = S]
  /\ Goto(u, "read")
  /\ UNCHANGED <<memory, made, stored, left, batch, unread, faults>>

\* handleCData reads and parses the body ...
Read(u) ==
  /\ pc[u] = "read"
  /\ left' = [left EXCEPT ![u] = rows[u]]
  /\ batch' = [batch EXCEPT ![u] = rows[u] \cap Realtime]
  /\ Goto(u, IF rows[u] \subseteq Realtime THEN "single" ELSE "batch")
  /\ UNCHANGED <<memory, made, stored, handler, unread, faults>>

\* ... or cannot: the connection breaks or times out, the body is too large.
ReadError(u) ==
  /\ pc[u] = "read" /\ Fault
  /\ unread' = unread \cup rows[u]
  /\ Goto(u, "ok")
  /\ UNCHANGED <<memory, made, stored, handler, left, batch>>

\* Where saveAttendance goes when S has been acknowledged.
After(u, S) ==
  /\ left' = [left EXCEPT ![u] = @ \ S]
  /\ pc' = [pc EXCEPT ![u] = IF left[u] \subseteq S THEN "ok"
                             ELSE IF batch[u] \subseteq S THEN "batch" ELSE @]
  /\ batch' = [batch EXCEPT ![u] = @ \ S]

\* Mutation: any answer of status 200 acknowledges the batch.
postAttendanceBatch_anyOK(u, S, T) ==
  /\ pc[u] = "batch"
  /\ S \subseteq left[u] /\ S # {} /\ T \subseteq S
  /\ Cardinality(S) <= BatchRows
  /\ (left[u] \subseteq S \/ Cardinality(S) = BatchRows)
  /\ After(u, S)
  /\ stored' = stored \cup T /\ UNCHANGED faults
  /\ UNCHANGED <<memory, made, handler, unread>>

\* postAttendanceBatch sends the next rows S, of which Plasmatix stores T.  It
\* confirms all of them; or ignores the unknown type; or the request, the
\* answer or the count is bad, and the upload fails.
postAttendanceBatch(u, S, T) ==
  /\ pc[u] = "batch"
  /\ S \subseteq left[u] /\ S # {} /\ T \subseteq S
  /\ Cardinality(S) <= BatchRows
  /\ (left[u] \subseteq S \/ Cardinality(S) = BatchRows)
  /\ stored' = stored \cup T
  /\ \/ T = S /\ After(u, S) /\ UNCHANGED faults
     \/ /\ T = {} /\ Goto(u, "single") /\ UNCHANGED faults
        /\ batch' = [batch EXCEPT ![u] = S] /\ UNCHANGED left
     \/ Fault /\ Goto(u, "unavailable") /\ UNCHANGED <<left, batch>>
  /\ UNCHANGED <<memory, made, handler, unread>>

\* postAttlog of one row, for postAttendanceRows and saveRtlog.
postAttendanceRows(u, p, T) ==
  /\ pc[u] = "single"
  /\ p \in batch[u] /\ T \subseteq {p}
  /\ stored' = stored \cup T
  /\ \/ T = {p} /\ After(u, {p}) /\ UNCHANGED faults
     \/ Fault /\ Goto(u, "unavailable") /\ UNCHANGED <<left, batch>>
  /\ UNCHANGED <<memory, made, handler, unread>>

\* The handler is done with u.
Finish(u) ==
  /\ pc'    = [pc EXCEPT ![u] = None]    /\ from'  = [from EXCEPT ![u] = None]
  /\ rows'  = [rows EXCEPT ![u] = {}]    /\ left'  = [left EXCEPT ![u] = {}]
  /\ batch' = [batch EXCEPT ![u] = {}]

\* Mutation: the scanner is told OK whether or not the rows were saved.
Answer_always(u) ==
  /\ pc[u] \in {"ok", "unavailable"}
  /\ memory' = [memory EXCEPT ![from[u]] = @ \ rows[u]]
  /\ Finish(u)
  /\ UNCHANGED <<made, stored, unread, faults>>

\* "OK" makes the scanner forget the punches, 503 does not ...
Answer(u) ==
  /\ pc[u] \in {"ok", "unavailable"}
  /\ memory' = IF pc[u] = "ok" THEN [memory EXCEPT ![from[u]] = @ \ rows[u]] ELSE memory
  /\ Finish(u)
  /\ UNCHANGED <<made, stored, unread, faults>>

\* ... and an answer may be lost or come too late, also because the agent
\* crashes in the middle of the upload.
NoAnswer(u) ==
  /\ pc[u] # None /\ Fault
  /\ Finish(u)
  /\ UNCHANGED <<memory, made, stored, unread>>

\* handleQueryData on a queried ATTLOG: another row of the scanner's log is saved.
\* The reply is acknowledged also when a save fails and the rest is given up.
QueriedATTLOG(d, p) ==
  /\ p \in made[d] /\ p \notin stored
  /\ stored' = stored \cup {p}
  /\ UNCHANGED <<memory, made, pc, handler, left, batch, unread, faults>>

Handle(u) ==
  \/ Read(u) \/ Answer(u)
  \/ \E S \in SUBSET left[u] : \E T \in SUBSET S : postAttendanceBatch(u, S, T)
  \/ \E p \in batch[u] : \E T \in SUBSET {p} : postAttendanceRows(u, p, T)

Next ==
  \/ \E u \in Uploads : Handle(u) \/ ReadError(u) \/ NoAnswer(u)
  \/ \E d \in Scanners :
       \/ \E p \in Punches : Punch(d, p) \/ QueriedATTLOG(d, p)
       \/ \E u \in Uploads : \E S \in {memory[d] \cap Realtime, memory[d] \ Realtime} :
            Post(u, d, S)

Spec == Init /\ [][Next]_vars

\* Handlers run, and a scanner uploads each of its tables again and again while
\* it has something in it.
Fairness ==
  /\ \A u \in Uploads : WF_vars(Handle(u))
  /\ \A d \in Scanners :
       /\ SF_vars(\E u \in Uploads : Post(u, d, memory[d] \cap Realtime))
       /\ SF_vars(\E u \in Uploads : Post(u, d, memory[d] \ Realtime))

FairSpec == Spec /\ Fairness

-----------------------------------------------------------------------------
Forgotten == UNION {made[d] \ memory[d] : d \in Scanners}

\* "The scanner forgets a punch once it is told OK, so it is told only after
\* Plasmatix has stored every row" (handleCData), in spite of lost answers,
\* miscounted batches, the fall-back to single rows in the middle of an upload,
\* and a second upload of the same punches; bodies that could not be read
\* apart.
ForgottenIsStoredOrUnread == Forgotten \subseteq stored \cup unread

\* The same without the exception, which is what that comment says.  handleCData
\* answers "OK" to a body it could not read, so this is violated.
ForgottenIsStored == Forgotten \subseteq stored

\* "Anything else keeps the punches on the scanner, which uploads them again
\* later" (handleCData): each ends up in Plasmatix.
EveryPunchIsStored ==
  \A d \in Scanners, p \in Punches : (p \in made[d]) ~> (p \in stored \cup unread)
=============================================================================
