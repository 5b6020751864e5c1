---------------------------- MODULE ResultOutbox ----------------------------
(***************************************************************************)
(* The durable outbox of biometric results: biometric_result_outbox.go,    *)
(* and the part of biometric_delivery.go that admits a command against its *)
(* capacity and hands it a result.                                         *)
(*                                                                         *)
(* Three parties share it: the deliveries of commands (reserve, release,   *)
(* hand over a result), the single worker goroutine that posts the records *)
(* to the cloud, and the disk, on which every change is written to a       *)
(* temporary file that is renamed over the old one.  A write can fail      *)
(* before the rename, or after it: then memory is rolled back although the *)
(* new file is in place, and a crash may leave either file.                *)
(*                                                                         *)
(* Every s.mu critical section is one action; flushPendingBiometricResults *)
(* keeps s.mu over several file writes, so it is a run of actions during   *)
(* which nobody else who needs s.mu can move (Unlocked).                   *)
(***************************************************************************)
EXTENDS Naturals, Sequences, FiniteSets

CONSTANTS Commands,     \* cloud command ids
          Capacity,     \* maxBiometricResultOutboxRecords
          MaxActive,    \* maxSecretADMSCommands
          MaxFaults,    \* bound: file operations that fail
          MaxRestarts,  \* bound: crashes of the agent
          Poison        \* commands whose result the cloud never settles

ASSUME OutboxAssumption ==
  /\ Capacity \in Nat \ {0}
  /\ MaxActive \in Nat \ {0}
  /\ MaxFaults \in Nat
  /\ MaxRestarts \in Nat
  /\ Poison \subseteq Commands
  /\ IsFiniteSet(Commands)

VARIABLES
  records,    \* outbox.records: records[c] is the result kept for c, or None
  disk,       \* the file at outbox.path, as records
  older,      \* files a crash may bring back: a rename whose sync failed
  held,       \* s.resultEnqueuePending
  reserved,   \* s.secretCmdID
  inflight,   \* commands some delivery has admitted and not yet settled
  closed,     \* s.secretClosed, and with it the cancelled delivery context
  health,     \* s.resultOutbox and s.resultOutboxErr
  pc,         \* where the worker goroutine is
  cur,        \* the record it has chosen
  todo,       \* held results this flush has not tried yet
  wake,       \* the one-slot channel s.resultOutboxWake
  due,        \* records whose NextAttemptAt has passed, oldest first
  acked,      \* history: commands whose last result the cloud has answered
  given,      \* history: the result handed over for a command, while this
              \* process is bound to keep it
  faults, restarts   \* how much of the bounds is used

workerVars == <<pc, cur, todo>>
storeVars  == <<records, disk, older>>
boundVars  == <<faults, restarts>>
history    == <<acked, given>>
vars == <<records, disk, older, held, reserved, inflight, closed, health,
          pc, cur, todo, wake, due, acked, given, faults, restarts>>

Results == {"applied", "failed"}
None    == "none"
Images  == [Commands -> Results \cup {None}]
Empty   == [c \in Commands |-> None]

Kept(f) == {c \in Commands : f[c] # None}
Recs    == Kept(records)
Held    == Kept(held)
Files   == older \cup {disk}    \* what a crash may leave behind
DueSet  == {due[i] : i \in DOMAIN due}
InHand  == IF pc \in {"post", "delete", "retry"} THEN {cur} ELSE {}
Backoff == Recs \ (DueSet \cup InHand)

PCs == {"off", "flush", "flushing", "flushwait", "pick", "idle", "sleep",
        "post", "delete", "retry"}

TypeOK ==
  /\ records \in Images /\ disk \in Images /\ older \subseteq Images
  /\ held \in Images /\ given \in Images
  /\ reserved \subseteq Commands /\ inflight \subseteq Commands
  /\ acked \subseteq Commands /\ todo \subseteq Commands
  /\ closed \in BOOLEAN /\ wake \in BOOLEAN
  /\ health \in {"ok", "unavailable", "disabled"}
  /\ pc \in PCs /\ cur \in Commands \cup {None}
  /\ pc \in {"sleep", "post", "delete", "retry"} => cur \in Commands
  /\ due \in Seq(Commands)
  /\ faults \in 0..MaxFaults /\ restarts \in 0..MaxRestarts

Init ==
  /\ records = Empty /\ disk = Empty /\ older = {} /\ held = Empty /\ given = Empty
  /\ reserved = {} /\ inflight = {} /\ acked = {} /\ todo = {}
  /\ closed = FALSE /\ wake = FALSE /\ health = "ok"
  /\ pc = "flush" /\ cur = None /\ due = <<>>
  /\ faults = 0 /\ restarts = 0

-----------------------------------------------------------------------------
(***************************************************************************)
(* The file.  Nothing but the rename replaces it, so it is always a whole  *)
(* image; the failures differ in which side of the rename they fall.       *)
(***************************************************************************)
Outcomes == {"ok", "before", "after"}

Spend(o) == faults' = (IF o = "ok" THEN faults ELSE faults + 1)

CanFail(o) == o = "ok" \/ faults < MaxFaults

\* persistLocked, with outcome o, of the image img.
Persist(img, o) ==
  /\ CanFail(o) /\ Spend(o)
  /\ disk'  = IF o = "before" THEN disk ELSE img
  /\ older' = IF o = "ok" THEN {} ELSE IF o = "before" THEN older ELSE older \cup {disk}

NoPersist == UNCHANGED <<disk, older, faults>>

\* s.mu is free: the worker is not in the middle of a flush.
Unlocked == pc # "flushing"

\* Mutation: the worker is not woken.
Signal_lost == UNCHANGED wake

Signal == wake' = TRUE

-----------------------------------------------------------------------------
(***************************************************************************)
(* The deliveries.                                                         *)
(***************************************************************************)
\* Mutation: the reservations are not counted.
Admission_ignoresReservations(c) == c \notin Recs /\ Cardinality(Recs) < Capacity

\* admission: no result for c is waiting, and one more record would fit.
Admission(c) ==
  /\ c \notin Recs
  /\ Cardinality(Recs) + Cardinality(reserved) < Capacity

reserveSecretCommand(c) ==
  /\ Unlocked
  /\ ~closed
  /\ health = "ok"
  /\ c \notin reserved
  /\ Admission(c)
  /\ Cardinality(reserved) < MaxActive
  /\ reserved' = reserved \cup {c}
  /\ inflight' = inflight \cup {c}
  /\ acked' = acked \ {c} /\ given' = [given EXCEPT ![c] = None]
  /\ UNCHANGED <<storeVars, held, closed, health, workerVars, wake, due, boundVars>>

\* A delivery that ends with no result to report.
releaseSecretCommand(c) ==
  /\ Unlocked
  /\ c \in inflight
  /\ reserved' = reserved \ {c}
  /\ inflight' = inflight \ {c}
  /\ UNCHANGED <<storeVars, held, closed, health, workerVars, wake, due, history, boundVars>>

\* Mutation: memory is not rolled back when the write fails.
EnqueueWithCommit_noRollback(c, v, o) ==
  IF c \in Recs \/ Cardinality(Recs) >= Capacity
    THEN o = "ok" /\ NoPersist /\ UNCHANGED <<records, due>>
    ELSE /\ Persist([records EXCEPT ![c] = v], o)
         /\ records' = [records EXCEPT ![c] = v]
         /\ due' = Append(due, c)

\* enqueueWithCommit: nothing is written when the same record is there
\* already, when a different one is, or when there is no room; a failed write
\* leaves the records as they were.
EnqueueWithCommit(c, v, o) ==
  IF c \in Recs \/ Cardinality(Recs) >= Capacity
    THEN o = "ok" /\ NoPersist /\ UNCHANGED <<records, due>>
    ELSE /\ Persist([records EXCEPT ![c] = v], o)
         /\ records' = IF o = "ok" THEN [records EXCEPT ![c] = v] ELSE records
         /\ due' = IF o = "ok" THEN Append(due, c) ELSE due

\* Mutation: the commit runs whether or not the write succeeded.
Committed_always(c, v, o) == TRUE

Committed(c, v, o) ==
  IF c \in Recs THEN records[c] = v
                ELSE Cardinality(Recs) < Capacity /\ o = "ok"

\* enqueueBiometricResultLocked: the reservation goes with the commit; without
\* it the first result stays in memory for the worker.  Both wake the worker.
enqueueBiometricResultLocked(c, v, o) ==
  /\ Unlocked
  /\ c \in inflight
  /\ inflight' = inflight \ {c}
  /\ EnqueueWithCommit(c, v, o)
  /\ IF Committed(c, v, o)
       THEN /\ held' = [held EXCEPT ![c] = None]
            /\ reserved' = reserved \ {c}
       ELSE /\ held' = IF held[c] = None THEN [held EXCEPT ![c] = v] ELSE held
            /\ UNCHANGED reserved
  /\ Signal
  /\ given' = [given EXCEPT ![c] = v]
  /\ UNCHANGED <<closed, health, workerVars, acked, restarts>>

\* shutdownBiometricDelivery: the reservations are cleared, what deliveries
\* are still settling goes on.
shutdownBiometricDelivery ==
  /\ Unlocked
  /\ ~closed
  /\ closed' = TRUE
  /\ reserved' = {}
  /\ UNCHANGED <<storeVars, held, inflight, health, workerVars, wake, due, history, boundVars>>

-----------------------------------------------------------------------------
(***************************************************************************)
(* runBiometricResultOutbox, the worker.                                   *)
(***************************************************************************)
Goto(p) == pc' = p /\ UNCHANGED <<cur, todo>>

\* Everything the worker's control steps leave alone.
NoData == UNCHANGED <<storeVars, held, reserved, inflight, closed, health, history, boundVars>>

FlushStart ==
  /\ pc = "flush"
  /\ pc' = "flushing" /\ todo' = Held /\ cur' = None
  /\ NoData /\ UNCHANGED <<wake, due>>

\* Mutation: the flushed command keeps its reservation.
FlushOne_keepsReservation(c, o) ==
  /\ pc = "flushing"
  /\ c \in todo
  /\ todo' = todo \ {c}
  /\ EnqueueWithCommit(c, held[c], o)
  /\ held' = IF Committed(c, held[c], o) THEN [held EXCEPT ![c] = None] ELSE held
  /\ UNCHANGED <<reserved, inflight, closed, health, pc, cur, wake, history, restarts>>

\* One iteration of flushPendingBiometricResults, s.mu held throughout.
FlushOne(c, o) ==
  /\ pc = "flushing"
  /\ c \in todo
  /\ todo' = todo \ {c}
  /\ EnqueueWithCommit(c, held[c], o)
  /\ IF Committed(c, held[c], o)
       THEN held' = [held EXCEPT ![c] = None] /\ reserved' = reserved \ {c}
       ELSE UNCHANGED <<held, reserved>>
  /\ UNCHANGED <<inflight, closed, health, pc, cur, wake, history, restarts>>

FlushEnd ==
  /\ pc = "flushing" /\ todo = {}
  /\ Goto(IF Held = {} THEN "pick" ELSE "flushwait")
  /\ NoData /\ UNCHANGED <<wake, due>>

\* Mutation: no timer, only a wake-up ends the wait.
FlushAgain_onlyOnWake ==
  /\ pc = "flushwait" /\ wake
  /\ Goto("flush")
  /\ wake' = FALSE
  /\ NoData /\ UNCHANGED due

\* The one-second timer or a wake-up ends the wait after a failed flush.
FlushAgain ==
  /\ pc = "flushwait"
  /\ Goto("flush")
  /\ wake' \in {wake, FALSE}
  /\ NoData /\ UNCHANGED due

\* Mutation: found is ignored and an empty record is posted.
Pick_ignoresFound ==
  /\ pc = "pick"
  /\ cur' = IF due # <<>> THEN Head(due) ELSE None
  /\ due' = IF due # <<>> THEN Tail(due) ELSE due
  /\ pc' = "post"
  /\ UNCHANGED <<todo, wake>> /\ NoData

\* next: the record with the earliest NextAttemptAt, and whether to wait.
Pick ==
  /\ pc = "pick"
  /\ \/ /\ due # <<>>
        /\ cur' = Head(due) /\ due' = Tail(due) /\ pc' = "post"
     \/ /\ due = <<>>
        /\ \E c \in Backoff : cur' = c
        /\ pc' = "sleep" /\ UNCHANGED due
     \/ /\ Recs = {}
        /\ pc' = "idle" /\ UNCHANGED <<cur, due>>
  /\ UNCHANGED <<todo, wake>> /\ NoData

\* A wake-up received while idle or while waiting for a retry.
WakeUp ==
  /\ pc \in {"idle", "sleep"} /\ wake
  /\ wake' = FALSE
  /\ pc' = "flush" /\ cur' = None
  /\ NoData /\ UNCHANGED <<todo, due>>

\* The timer of the record the worker waits for.
RetryTimer ==
  /\ pc = "sleep"
  /\ Goto("post")
  /\ NoData /\ UNCHANGED <<wake, due>>

\* The NextAttemptAt of another record passes; while the worker sleeps it is
\* waiting for the earliest one, so no other can pass first.
BecomeDue(c) ==
  /\ pc # "sleep" /\ c \in Backoff
  /\ due' = Append(due, c)
  /\ NoData /\ UNCHANGED <<workerVars, wake>>

\* ctx.Done: only the waits of the worker look at it.
WorkerStop ==
  /\ closed
  /\ pc \in {"flushwait", "idle", "sleep"}
  /\ Goto("off")
  /\ NoData /\ UNCHANGED <<wake, due>>

\* postBiometricDeploymentResult: 200 or a 4xx settles the record ...
PostSettled(c) ==
  /\ pc = "post" /\ cur = c /\ c \notin Poison
  /\ acked' = acked \cup {c}
  /\ Goto("delete")
  /\ UNCHANGED <<storeVars, held, reserved, inflight, closed, health, wake, due, given, boundVars>>

\* Mutation: a record is deleted after one attempt, answered or not.
PostUnsettled_deletes ==
  /\ pc = "post"
  /\ Goto("delete")
  /\ NoData /\ UNCHANGED <<wake, due>>

\* ... anything else, a lost answer included, means another attempt.
PostUnsettled ==
  /\ pc = "post"
  /\ Goto("retry")
  /\ NoData /\ UNCHANGED <<wake, due>>

\* A failed write of the worker sets resultOutboxErr and ends the goroutine.
AfterWrite(o) ==
  IF o = "ok" THEN pc' = "flush" /\ UNCHANGED health
              ELSE pc' = "off" /\ health' = "disabled"

\* Mutation: a record whose removal cannot be written is forgotten, and the
\* worker goes on.
deleteRecord_goesOn(o) ==
  /\ pc = "delete"
  /\ Persist([records EXCEPT ![cur] = None], o)
  /\ records' = [records EXCEPT ![cur] = None]
  /\ pc' = "flush" /\ cur' = None
  /\ UNCHANGED <<health, held, reserved, inflight, closed, todo, wake, due, history, restarts>>

deleteRecord(o) ==
  /\ pc = "delete"
  /\ Persist([records EXCEPT ![cur] = None], o)
  /\ records' = IF o = "ok" THEN [records EXCEPT ![cur] = None] ELSE records
  /\ AfterWrite(o)
  /\ cur' = None
  /\ UNCHANGED <<held, reserved, inflight, closed, todo, wake, due, history, restarts>>

\* recordRetry rewrites Attempts and NextAttemptAt: the results in the file
\* stay, and the record leaves the due ones.
recordRetry(o) ==
  /\ pc = "retry"
  /\ Persist(records, o)
  /\ AfterWrite(o)
  /\ cur' = None
  /\ UNCHANGED <<records, held, reserved, inflight, closed, todo, wake, due, history, restarts>>

-----------------------------------------------------------------------------
(***************************************************************************)
(* A crash at any moment, and the next start: startADMSServer opens the    *)
(* outbox from the file that survived and starts the worker, or goes on    *)
(* without an outbox when the file cannot be opened.                       *)
(***************************************************************************)
Restart(img, opened) ==
  /\ restarts < MaxRestarts
  /\ img \in Files
  /\ opened \/ faults < MaxFaults
  /\ restarts' = restarts + 1
  /\ faults' = IF opened THEN faults ELSE faults + 1
  /\ disk' = img /\ older' = {}
  /\ records' = IF opened THEN img ELSE Empty
  /\ health' = IF opened THEN "ok" ELSE "unavailable"
  /\ pc' = IF opened THEN "flush" ELSE "off"
  /\ held' = Empty /\ reserved' = {} /\ inflight' = {} /\ todo' = {}
  /\ closed' = FALSE /\ wake' = FALSE /\ cur' = None /\ due' = <<>>
  /\ given' = [c \in Commands |-> IF img[c] # None THEN given[c] ELSE None]
  /\ UNCHANGED acked

Worker ==
  \/ FlushStart \/ FlushEnd \/ FlushAgain \/ Pick \/ WakeUp \/ RetryTimer
  \/ WorkerStop \/ PostUnsettled
  \/ \E c \in Commands : PostSettled(c)
  \/ \E o \in Outcomes : \/ deleteRecord(o) \/ recordRetry(o)
                         \/ \E c \in Commands : FlushOne(c, o)

Deliveries ==
  \/ \E c \in Commands : \/ reserveSecretCommand(c) \/ releaseSecretCommand(c)
                         \/ \E v \in Results, o \in Outcomes :
                              enqueueBiometricResultLocked(c, v, o)
  \/ shutdownBiometricDelivery

Next ==
  \/ Worker
  \/ Deliveries
  \/ \E c \in Commands : BecomeDue(c)
  \/ \E img \in Files, opened \in BOOLEAN : Restart(img, opened)

Spec == Init /\ [][Next]_vars

\* The worker goroutine takes its steps and its timers fire.  The NextAttemptAt
\* of a record is a fixed moment, while each retry of another record moves that
\* one at least a second ahead, so the moment comes even though it cannot come
\* while the worker sleeps for an earlier one (strong fairness of BecomeDue).
\* The cloud, asked again and again, at last answers a result it can settle;
\* nothing is assumed about the others.
Fairness ==
  /\ WF_vars(Worker)
  /\ \A c \in Commands \ Poison : SF_vars(BecomeDue(c)) /\ SF_vars(PostSettled(c))

FairSpec == Spec /\ Fairness

-----------------------------------------------------------------------------
(***************************************************************************)
(* Safety.                                                                 *)
(***************************************************************************)
\* What the agent still owes the cloud and has promised to keep.  With the
\* outbox unavailable the promise rests on the file alone.
Store == IF health = "unavailable" THEN Kept(disk) ELSE Recs
Owed  == Store \ acked

\* biometric_result_outbox.go:326-379.  A result the agent has committed
\* to (its reservation is gone) and the cloud has not answered is in every
\* file a crash can leave, with its value: no order of failed writes,
\* rolled-back memory and crashes loses or alters it.
OwedResultsAreOnDisk ==
  \A img \in Files, c \in Owed : img[c] = (IF health = "unavailable" THEN disk ELSE records)[c]

\* biometric_delivery.go:1405-1436 with biometric_result_outbox.go:293-307.
\* The records and every result that can still arrive fit: neither
\* errBiometricResultOutboxFull nor errBiometricResultOutboxConflict can meet
\* a result, which would block flushPendingBiometricResults for good.  This
\* outlives a shutdown, which clears the reservations of deliveries that are
\* still settling.
EveryResultHasAPlace ==
  /\ Cardinality(Recs \cup Held \cup inflight) <= Capacity
  /\ Held \cap Recs = {} /\ inflight \cap (Recs \cup Held) = {}

\* biometric_delivery.go:2054-2090.  A result handed over is kept, unchanged,
\* in the outbox or for the next flush until the cloud has answered it.
HandedResultIsKept ==
  health # "unavailable" =>
    \A c \in Commands :
      given[c] # None => c \in acked \/ given[c] \in {held[c], records[c]}

\* biometric_delivery.go:2067-2087, 2103-2109.  Until shutdown a command
\* holds its reservation exactly while a delivery has it or its result waits
\* in memory: no settled command keeps a slot, no unsettled one loses it.
ReservedExactlyWhileUnsettled ==
  ~closed => reserved = inflight \cup Held

\* biometric_result_outbox.go:331-402 with biometric_delivery.go:1421-1428.  A
\* command that is being executed has no result in any file a crash can leave,
\* also when the cloud lists it a second time after its result was answered: a
\* record whose removal failed, or was undone by a crash, is never taken for
\* the outcome of a later execution.
ExecutionHasNoEarlierResult ==
  \A c \in inflight, img \in Files : img[c] = None

-----------------------------------------------------------------------------
(***************************************************************************)
(* Liveness.                                                               *)
(***************************************************************************)
\* biometric_result_outbox.go:502-562.  While the outbox works and is not shut
\* down, every owed result is at last answered, whatever becomes of the
\* results the cloud never settles (Poison): no wake-up is lost and no record
\* starves another.
OwedResultsAreReported ==
  \A c \in Commands \ Poison :
    c \in Owed ~> (c \in acked \/ health # "ok" \/ closed)

\* biometric_delivery.go:2092-2117.  A result whose first write failed does
\* not stay in memory, and with it its reservation, once writes work again.
HeldResultsAreFlushed ==
  \A c \in Commands :
    c \in Held ~> (c \notin Held \/ health # "ok" \/ closed)

-----------------------------------------------------------------------------
(***************************************************************************)
(* The outbox keeps the promise of ResultLedger.                           *)
(***************************************************************************)
stageOf(c) ==
  CASE c \in inflight -> "inflight"
    [] c \in Held     -> "held"
    [] c \in Owed     -> "durable"
    [] c \in acked    -> "reported"
    [] OTHER          -> "idle"

valueOf(c) ==
  CASE stageOf(c) = "held"    -> held[c]
    [] stageOf(c) = "durable" -> IF health = "unavailable" THEN disk[c] ELSE records[c]
    [] OTHER                  -> None

Ledger == INSTANCE ResultLedger WITH
            stage <- [c \in Commands |-> stageOf(c)],
            value <- [c \in Commands |-> valueOf(c)]

\* Every step of the outbox is a step of ResultLedger or none: a result that
\* is durable only ever becomes reported, and with the value it was given.
ImplementsLedger == Ledger!Spec
=============================================================================
