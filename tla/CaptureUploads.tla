--------------------------- MODULE CaptureUploads ---------------------------
(***************************************************************************)
(* The templates a scanner uploads, on their way to the biometric vault:   *)
(* captureBiometricAssets, the bounded upload queue and its workers, and   *)
(* the table of served enrolments and imports that says under which        *)
(* command a template is filed (main.go; UploadBiometricAsset in           *)
(* biometric_capture.go).                                                  *)
(*                                                                         *)
(* A handler looks the command of each row up, and queues the row in a     *)
(* second critical section.  A worker takes it later and looks again: if   *)
(* the answer has changed the row goes out without a command.  The rows of *)
(* a query reply (replies) are queued only if they have a command.  The    *)
(* table changes at any time: commands are served, fail, and are forgotten *)
(* after ten minutes.                                                      *)
(***************************************************************************)
EXTENDS Naturals, Sequences, FiniteSets

CONSTANTS Enrols, Imports,  \* cloud ids of enrolments and of imports
          Keys, Pins,       \* slots (pin, type, number), and people
          KeyOf, PinOf,     \* KeyOf[c], c \in Enrols; PinOf[c], c \in Imports
          Owner,            \* Owner[k]: the person of slot k
          Assets,           \* bound: templates the scanners upload
          Workers,          \* maxConcurrentBiometricUploads
          QueueLimit,       \* maxQueuedBiometricUploads
          Window,           \* ten minutes, in ticks
          MaxTime           \* bound: ticks

ASSUME CaptureAssumption ==
  /\ "none" \notin Enrols \cup Imports \cup Assets /\ Enrols \cap Imports = {}
  /\ KeyOf \in [Enrols -> Keys] /\ PinOf \in [Imports -> Pins] /\ Owner \in [Keys -> Pins]
  /\ QueueLimit \in Nat \ {0} /\ Window \in Nat /\ MaxTime \in Nat

VARIABLES
  now,
  captureCmd,   \* captureCmd[k]: the enrolment served for slot k, and when
  importQuery,  \* importQuery[p]: the import served for person p, and when
  pending,      \* served commands the scanner has not answered
  where,        \* where[a]: unsent, row, queue, work, gone
  key,          \* key[a]: the slot of a
  tag, first,   \* the command of a now, and as the handler found it
  echo,         \* echo[a]: none, due, written: the write-back of a
  live,         \* the templates whose bytes are still in memory
  queue,        \* biometricUploadQueue
  wpc, job,     \* wpc[w]: off, idle, taken, upload, left; job[w]: its template
  closed,       \* biometricClosed: the workers' context is cancelled, too
  down          \* shutdownBiometricUploads has returned

vars == <<now, captureCmd, importQuery, pending, where, key, tag, first, echo, live,
          queue, wpc, job, closed, down>>
table  == <<captureCmd, importQuery, pending>>
origin == <<key, first>>
pool   == <<queue, wpc, job>>

None     == "none"
Commands == Enrols \cup Imports
Absent   == [cmd |-> None, at |-> 0]

Init ==
  /\ now = 0 /\ pending = {}
  /\ captureCmd = [k \in Keys |-> Absent] /\ importQuery = [p \in Pins |-> Absent]
  /\ where = [a \in Assets |-> "unsent"] /\ key = [a \in Assets |-> None]
  /\ echo = [a \in Assets |-> None]
  /\ tag = [a \in Assets |-> None] /\ first = [a \in Assets |-> None]
  /\ live = {} /\ queue = <<>>
  /\ wpc = [w \in Workers |-> "off"] /\ job = [w \in Workers |-> None]
  /\ closed = FALSE /\ down = FALSE

-----------------------------------------------------------------------------
(* The table of commands.                                                  *)

Tick ==
  /\ now < MaxTime /\ now' = now + 1
  /\ UNCHANGED <<table, where, origin, tag, echo, live, pool, closed, down>>

\* The agent serves c: the newest command for a slot or a person replaces the
\* one before it.
rememberBiometricCaptureCommandLocked(c) ==
  LET r == [cmd |-> c, at |-> now] IN
  /\ \/ c \in Enrols  /\ captureCmd' = [captureCmd EXCEPT ![KeyOf[c]] = r] /\ UNCHANGED importQuery
     \/ c \in Imports /\ importQuery' = [importQuery EXCEPT ![PinOf[c]] = r] /\ UNCHANGED captureCmd
  /\ pending' = pending \cup {c}
  /\ UNCHANGED <<now, where, origin, tag, echo, live, pool, closed, down>>

\* forgetBiometricCaptureCommandLocked: the table without c.
Without(f, c) == [x \in DOMAIN f |-> IF f[x].cmd = c THEN Absent ELSE f[x]]

\* The scanner answers c; a command that failed is forgotten.
handleDeviceCmd(c, failed) ==
  /\ c \in pending /\ pending' = pending \ {c}
  /\ captureCmd'  = IF failed THEN Without(captureCmd, c) ELSE captureCmd
  /\ importQuery' = IF failed THEN Without(importQuery, c) ELSE importQuery
  /\ UNCHANGED <<now, where, origin, tag, echo, live, pool, closed, down>>

Valid(r) == r.cmd # None /\ now - r.at <= Window

\* The command a template of slot k is filed under: an enrolment of the slot
\* before an import of the person.
InForce(k) == IF Valid(captureCmd[k]) THEN captureCmd[k].cmd
              ELSE IF Valid(importQuery[Owner[k]]) THEN importQuery[Owner[k]].cmd ELSE None

\* biometricCaptureCommandID, which answers InForce(k), drops what has expired.
DropExpired(k) ==
  /\ captureCmd' = IF Valid(captureCmd[k]) THEN captureCmd ELSE [captureCmd EXCEPT ![k] = Absent]
  /\ importQuery' = IF Valid(captureCmd[k]) \/ Valid(importQuery[Owner[k]]) THEN importQuery
                    ELSE [importQuery EXCEPT ![Owner[k]] = Absent]
  /\ UNCHANGED pending

-----------------------------------------------------------------------------
(* The handlers.                                                           *)

\* Where a row stands: in a reply to a query, first in an upload of BIODATA, or
\* elsewhere in an upload.  A first row that reflectBioData can make no command of
\* (a type it does not know, a template it cannot decode) is as one elsewhere.
Places == {"reply", "biodata", "upload"}

\* A row with a template for slot k: its command is looked up, and a row of a
\* query reply that has none is wiped.
captureBiometricAssets(a, k, place) ==
  LET dropped == place = "reply" /\ InForce(k) = None IN
  /\ where[a] = "unsent"
  /\ where' = [where EXCEPT ![a] = IF dropped THEN "gone" ELSE "row"]
  /\ live'  = IF dropped THEN live ELSE live \cup {a}
  /\ key' = [key EXCEPT ![a] = k]
  /\ tag' = [tag EXCEPT ![a] = InForce(k)] /\ first' = [first EXCEPT ![a] = InForce(k)]
  /\ echo' = IF place = "biodata" THEN [echo EXCEPT ![a] = "due"] ELSE echo
  /\ DropExpired(k)
  /\ UNCHANGED <<now, pool, closed, down>>

\* The row goes to the queue, and the first one starts the workers ...
Admit(a) ==
  /\ Len(queue) < QueueLimit
  /\ queue' = Append(queue, a) /\ where' = [where EXCEPT ![a] = "queue"]
  /\ UNCHANGED live

\* ... or it is wiped, when the queue is full.
Refuse(a) ==
  /\ where' = [where EXCEPT ![a] = "gone"] /\ live' = live \ {a}
  /\ UNCHANGED queue

\* Mutation: a row may be queued after the shutdown has begun.
enqueueBiometricUpload_lateRows(a) ==
  /\ where[a] = "row"
  /\ wpc' = [w \in Workers |-> IF wpc[w] = "off" THEN "idle" ELSE wpc[w]]
  /\ Admit(a) \/ (Len(queue) = QueueLimit /\ Refuse(a))
  /\ UNCHANGED <<now, table, origin, tag, echo, job, closed, down>>

\* Mutation: the first row does not start the workers.
enqueueBiometricUpload_noWorkers(a) ==
  /\ where[a] = "row"
  /\ \/ closed /\ Refuse(a)
     \/ ~closed /\ (Admit(a) \/ (Len(queue) = QueueLimit /\ Refuse(a)))
  /\ UNCHANGED <<now, table, origin, tag, echo, wpc, job, closed, down>>

enqueueBiometricUpload(a) ==
  /\ where[a] = "row"
  /\ \/ closed /\ Refuse(a) /\ UNCHANGED wpc
     \/ /\ ~closed
        /\ wpc' = [w \in Workers |-> IF wpc[w] = "off" THEN "idle" ELSE wpc[w]]
        /\ Admit(a) \/ (Len(queue) = QueueLimit /\ Refuse(a))
  /\ UNCHANGED <<now, table, origin, tag, echo, job, closed, down>>

\* Mutation: the reply to an import is told by the import alone.
answersImportQuery_importFirst(k) == Valid(importQuery[Owner[k]])

\* answersImportQuery: an enrolment of the slot makes the template a new one.
answersImportQuery(k) == ~Valid(captureCmd[k]) /\ Valid(importQuery[Owner[k]])

\* reflectBioData, when the rows have been queued or refused: a template that is
\* new goes back to the scanner, which does not keep it otherwise, as a command
\* in its queue.
reflectBioData(a) ==
  /\ echo[a] = "due" /\ where[a] # "row"
  /\ echo' = [echo EXCEPT ![a] = IF answersImportQuery(key[a]) THEN None ELSE "written"]
  /\ UNCHANGED <<now, table, where, origin, tag, live, pool, closed, down>>

-----------------------------------------------------------------------------
(* The workers.                                                            *)

\* The select between the queue and the cancelled context: either, if both are
\* ready.
Take(w) ==
  /\ wpc[w] = "idle" /\ queue # <<>>
  /\ job' = [job EXCEPT ![w] = Head(queue)] /\ queue' = Tail(queue)
  /\ where' = [where EXCEPT ![Head(queue)] = "work"]
  /\ wpc' = [wpc EXCEPT ![w] = "taken"]
  /\ UNCHANGED <<now, table, origin, tag, echo, live, closed, down>>

Leave(w) ==
  /\ wpc[w] = "idle" /\ closed
  /\ wpc' = [wpc EXCEPT ![w] = "left"]
  /\ UNCHANGED <<now, table, where, origin, tag, echo, live, queue, job, closed, down>>

\* The job of w is over: its bytes are wiped.
Finish(w, pc) ==
  /\ live' = live \ {job[w]} /\ where' = [where EXCEPT ![job[w]] = "gone"]
  /\ tag' = [tag EXCEPT ![job[w]] = None]
  /\ job' = [job EXCEPT ![w] = None] /\ wpc' = [wpc EXCEPT ![w] = pc]

\* A job taken after the shutdown began is not uploaded.
Abandon(w) ==
  /\ wpc[w] = "taken" /\ closed
  /\ Finish(w, "left")
  /\ UNCHANGED <<now, table, origin, echo, queue, closed, down>>

\* Mutation: the worker takes whatever command is in force now.
Begin_rebinds(w) ==
  LET k == key[job[w]] IN
  /\ wpc[w] = "taken"
  /\ wpc' = [wpc EXCEPT ![w] = "upload"]
  /\ tag' = [tag EXCEPT ![job[w]] = InForce(k)]
  /\ DropExpired(k)
  /\ UNCHANGED <<now, where, origin, echo, live, queue, job, closed, down>>

\* The worker looks the command up again, if the row had one.  (The context may
\* be cancelled after it was tested.)
Begin(w) ==
  LET a == job[w] IN
  /\ wpc[w] = "taken"
  /\ wpc' = [wpc EXCEPT ![w] = "upload"]
  /\ IF tag[a] = None THEN UNCHANGED <<table, tag>>
     ELSE /\ tag' = [tag EXCEPT ![a] = IF InForce(key[a]) = @ THEN @ ELSE None]
          /\ DropExpired(key[a])
  /\ UNCHANGED <<now, where, origin, echo, live, queue, job, closed, down>>

\* The upload has ended, whether or not it reached the vault: nothing is tried
\* again.  (A vault that is switched off is told of the row's metadata instead.)
UploadBiometricAsset(w) ==
  /\ wpc[w] = "upload"
  /\ Finish(w, "idle")
  /\ UNCHANGED <<now, table, origin, echo, queue, closed, down>>

-----------------------------------------------------------------------------
(* Shutdown, when the HTTP server has failed; its handlers still run.      *)

\* drainBiometricUploadQueueLocked
Drain ==
  LET queued == {queue[i] : i \in DOMAIN queue} IN
  /\ queue' = <<>> /\ live' = live \ queued
  /\ where' = [a \in Assets |-> IF a \in queued THEN "gone" ELSE where[a]]

shutdownBiometricUploads ==
  /\ ~closed /\ closed' = TRUE
  /\ Drain
  /\ UNCHANGED <<now, table, origin, tag, echo, wpc, job, down>>

\* biometricWorkers.Wait has returned, and the queue is drained once more.
ShutDown ==
  /\ closed /\ ~down /\ \A w \in Workers : wpc[w] \in {"off", "left"}
  /\ down' = TRUE
  /\ Drain
  /\ UNCHANGED <<now, table, origin, tag, echo, wpc, job, closed>>

-----------------------------------------------------------------------------
Handler == \E a \in Assets :
             \/ \E k \in Keys, p \in Places : captureBiometricAssets(a, k, p)
             \/ enqueueBiometricUpload(a) \/ reflectBioData(a)
Worker(w) == Take(w) \/ Leave(w) \/ Abandon(w) \/ Begin(w) \/ UploadBiometricAsset(w)
Table == \/ Tick
         \/ \E c \in Commands : \/ rememberBiometricCaptureCommandLocked(c)
                                \/ \E failed \in BOOLEAN : handleDeviceCmd(c, failed)

Next == Table \/ Handler \/ (\E w \in Workers : Worker(w)) \/ shutdownBiometricUploads \/ ShutDown

Spec == Init /\ [][Next]_vars

\* Handlers and goroutines are scheduled, and an upload ends within 30 s.  The
\* commands, the rows, the clock and the shutdown may stop.
Fairness ==
  /\ \A a \in Assets : WF_vars(enqueueBiometricUpload(a) \/ reflectBioData(a))
  /\ \A w \in Workers : WF_vars(Worker(w))
  /\ WF_vars(ShutDown)

FairSpec == Spec /\ Fairness

-----------------------------------------------------------------------------
(* Properties.                                                             *)

\* An upload starts under the command its row was found to answer, provided
\* that command is still in force, or under none: biometricUploadWorker never
\* files a template under a command that failed, expired or was replaced while
\* the row waited, nor under one that was served after the row was captured.
NoStaleNorNewerCommand ==
  [][\A w \in Workers :
       wpc[w] # "upload" /\ wpc'[w] = "upload" =>
         LET a == job[w] IN
         tag'[a] \in {None} \cup ({first[a]} \cap {InForce(key[a])})]_vars

\* When shutdownBiometricUploads has returned, the only templates in memory are
\* those whose handler is between its two critical sections: the queue is empty,
\* no worker holds one, and no later row gets in.
DownMeansWiped ==
  down => /\ queue = <<>> /\ \A w \in Workers : job[w] = None
          /\ \A a \in live : where[a] = "row"

\* The bytes of every template are wiped in the end, whether it is uploaded,
\* refused, taken by a worker that stops, or still queued at the shutdown.
EveryTemplateIsWiped == \A a \in Assets : a \in live ~> a \notin live

\* The write-back agrees with the filing, though each looks the command up for
\* itself: while the command a template was filed under is in force, it is
\* written back exactly if it does not answer an import.
WriteBackFollowsFiling ==
  [][\A a \in Assets :
       echo[a] = "due" /\ echo'[a] # "due" /\ first[a] = InForce(key[a]) =>
         (echo'[a] = "written" <=> first[a] \notin Imports)]_vars
=============================================================================
