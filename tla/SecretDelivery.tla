--------------------------- MODULE SecretDelivery ---------------------------
(***************************************************************************)
(* The delivery of biometric commands to scanners: biometric_delivery.go   *)
(* and the head of handleGetRequest in main.go.                            *)
(*                                                                         *)
(* A reference in the cloud's command list starts a worker goroutine for   *)
(* the command id.  It reserves the id, claims the deployment, removes     *)
(* other commands of that deployment, prepares the secret bytes and queues *)
(* them as an object with a fresh local id.  A scanner's getrequest runs a *)
(* handler goroutine that takes the object to pending and writes the       *)
(* bytes; devicecmd acknowledges the local id.  Timers, supersession,      *)
(* failures and shutdown may take the object away at any moment.           *)
(*                                                                         *)
(* Each s.mu critical section is one action.  The bytes of an object have  *)
(* a lock of their own (payloadMu): a handler holds it while it writes,    *)
(* and whoever has detached an object must get it to zero the bytes        *)
(* (Zero), and only then settles the command (Settle).  After it is        *)
(* detached an object belongs to its detacher alone, so those two steps    *)
(* are modelled per object, fate[i] saying what its detacher will do.      *)
(*                                                                         *)
(* Local ids grow under the same lock under which an object is appended to *)
(* its device's queue, so the queue is the set of queued objects and its   *)
(* head the smallest id.  The result outbox appears as ResultLedger        *)
(* describes it, without its file.                                         *)
(***************************************************************************)
EXTENDS Naturals, FiniteSets

CONSTANTS
  Commands,          \* cloud command ids
  Devices,           \* scanner serial numbers
  Handlers,          \* bound: getrequest handlers that run at once
  DeviceOf,          \* DeviceOf[c]: the scanner command c is for
  DeploymentOf,      \* DeploymentOf[c]: the deployment c carries out
  Deletes,           \* the commands that delete a template
  Capacity,          \* maxBiometricResultOutboxRecords
  MaxActive,         \* maxSecretADMSCommands
  MaxServeAttempts,  \* maxSecretCommandServeAttempts
  MaxID,             \* bound: local ids given out by one process
  MaxFaults,         \* bound: results that cannot be written at once
  MaxRestarts        \* bound: crashes of the agent

ASSUME DeliveryAssumption ==
  /\ IsFiniteSet(Commands) /\ "none" \notin Commands
  /\ DeviceOf \in [Commands -> Devices]
  /\ DOMAIN DeploymentOf = Commands
  /\ Deletes \subseteq Commands
  /\ Capacity \in Nat \ {0} /\ MaxActive \in Nat \ {0}
  /\ MaxServeAttempts \in Nat \ {0} /\ MaxID \in Nat
  /\ MaxFaults \in Nat /\ MaxRestarts \in Nat

IDs == 1..MaxID

VARIABLES
  \* shared under s.mu
  closed,     \* s.secretClosed
  reserved,   \* s.secretCmdID
  cmdID,      \* s.cmdID
  phase,      \* phase[i]: queued (secretCmdQueue), pending (secretPending),
              \* detached, zeroed and gone (after removal)
  writer,     \* writer[i]: writerActive
  served,     \* served[i]
  attempts,   \* attempts[i]: serveAttempts
  late,       \* late[i]: secretCommandServeDeadline has passed
  held,       \* s.resultEnqueuePending
  records,    \* the results in s.resultOutbox
  working,    \* s.resultOutboxErr is nil: the outbox was opened and its worker runs
  \* the objects
  cmd,        \* cmd[i]: commandID
  live,       \* live[i]: the payload is there and not zeroed
  fate,       \* fate[i]: what the goroutine that detached i does with it
  \* the goroutines
  wpc,        \* wpc[c]: where the worker of command c is
  victims,    \* victims[c]: the objects its supersession has detached
  hpc,        \* hpc[h]: where handler h is
  hobj,       \* hobj[h]: the object it has claimed
  \* the scanners, and history
  acks,       \* <<d, i>>: scanner d has been sent local id i and may answer
  sent,       \* commands whose bytes have been written, at least in part, since
              \* they were last taken in
  written,    \* those whose bytes have been written to the end
  reported,   \* commands whose last result the cloud has answered
  faults, restarts

shared   == <<closed, reserved, cmdID, phase, writer, served, attempts, late>>
outbox   == <<held, records, working>>
objects  == <<cmd, live, fate>>
workers  == <<wpc, victims>>
handlers == <<hpc, hobj>>
ghosts   == <<acks, sent, written, reported, faults, restarts>>
vars == <<closed, reserved, cmdID, phase, writer, served, attempts, late, held,
          records, working, cmd, live, fate, wpc, victims, hpc, hobj, acks, sent,
          written, reported, faults, restarts>>

Results == {"applied", "failed"}
None    == "none"
Phases  == {"unused", "queued", "pending", "detached", "zeroed", "gone"}
Fates   == Results \cup {None, "release", "superseded", "closed"}
WPCs    == {None, "start", "claim", "supersede", "zeroing", "fetch", "render",
            "recheck", "enqueue", "report", "release"}
HPCs    == {None, "compat", "recheck", "pin", "writing", "mark", "fail", "drop"}

Kept(f)     == {c \in Commands : f[c] # None}
Obj(P)      == {i \in IDs : phase[i] \in P}
Pending     == Obj({"pending"})
Outstanding == Obj({"queued", "pending", "detached", "zeroed"})
DeviceAt(i) == DeviceOf[cmd[i]]

TypeOK ==
  /\ closed \in BOOLEAN /\ reserved \subseteq Commands /\ cmdID \in 0..MaxID
  /\ phase \in [IDs -> Phases] /\ fate \in [IDs -> Fates]
  /\ writer \in [IDs -> BOOLEAN] /\ served \in [IDs -> BOOLEAN]
  /\ late \in [IDs -> BOOLEAN] /\ live \in [IDs -> BOOLEAN]
  /\ attempts \in [IDs -> 0..MaxServeAttempts]
  /\ cmd \in [IDs -> Commands \cup {None}]
  /\ \A i \in IDs : /\ phase[i] # "unused" <=> i <= cmdID
                    /\ phase[i] # "unused" <=> cmd[i] # None
  /\ held \in [Commands -> Results \cup {None}]
  /\ records \in [Commands -> Results \cup {None}]
  /\ wpc \in [Commands -> WPCs] /\ victims \in [Commands -> SUBSET IDs]
  /\ hpc \in [Handlers -> HPCs] /\ hobj \in [Handlers -> 0..MaxID]
  /\ \A h \in Handlers : hpc[h] # None => hobj[h] \in IDs
  /\ acks \subseteq Devices \X IDs /\ sent \subseteq Commands
  /\ written \subseteq Commands /\ reported \subseteq Commands /\ working \in BOOLEAN
  /\ faults \in 0..MaxFaults /\ restarts \in 0..MaxRestarts

\* The state of a process that has just started.
Fresh ==
  /\ closed' = FALSE /\ reserved' = {} /\ cmdID' = 0
  /\ phase' = [i \in IDs |-> "unused"] /\ fate' = [i \in IDs |-> None]
  /\ writer' = [i \in IDs |-> FALSE] /\ served' = [i \in IDs |-> FALSE]
  /\ late' = [i \in IDs |-> FALSE] /\ live' = [i \in IDs |-> FALSE]
  /\ attempts' = [i \in IDs |-> 0] /\ cmd' = [i \in IDs |-> None]
  /\ held' = [c \in Commands |-> None]
  /\ wpc' = [c \in Commands |-> None] /\ victims' = [c \in Commands |-> {}]
  /\ hpc' = [h \in Handlers |-> None] /\ hobj' = [h \in Handlers |-> 0]

Init ==
  /\ closed = FALSE /\ reserved = {} /\ cmdID = 0
  /\ phase = [i \in IDs |-> "unused"] /\ fate = [i \in IDs |-> None]
  /\ writer = [i \in IDs |-> FALSE] /\ served = [i \in IDs |-> FALSE]
  /\ late = [i \in IDs |-> FALSE] /\ live = [i \in IDs |-> FALSE]
  /\ attempts = [i \in IDs |-> 0] /\ cmd = [i \in IDs |-> None]
  /\ held = [c \in Commands |-> None] /\ records = [c \in Commands |-> None]
  /\ wpc = [c \in Commands |-> None] /\ victims = [c \in Commands |-> {}]
  /\ hpc = [h \in Handlers |-> None] /\ hobj = [h \in Handlers |-> 0]
  /\ working = TRUE
  /\ acks = {} /\ sent = {} /\ written = {} /\ reported = {} /\ faults = 0 /\ restarts = 0

-----------------------------------------------------------------------------
(***************************************************************************)
(* Taking objects away, and what follows.                                  *)
(***************************************************************************)
\* detachExactPendingSecretCommandLocked, and the removal from a queue: out of
\* the maps, writerActive off, timers stopped; f is what the caller will do.
Detach(S, f) ==
  /\ phase'  = [i \in IDs |-> IF i \in S THEN "detached" ELSE phase[i]]
  /\ writer' = [i \in IDs |-> IF i \in S THEN FALSE ELSE writer[i]]
  /\ fate'   = [i \in IDs |-> IF i \in S THEN f ELSE fate[i]]
  /\ UNCHANGED <<closed, reserved, cmdID, served, attempts, late, cmd, live>>

Removed(S, f) ==
  Detach(S, f) /\ UNCHANGED <<outbox, workers, ghosts>>

\* Mutation: the bytes are zeroed without taking payloadMu.
Unpinned_always(i) == TRUE

\* payloadMu is free: no handler is writing the bytes of i.
Unpinned(i) == ~\E h \in Handlers : hpc[h] = "writing" /\ hobj[h] = i

\* Nobody will look at the objects in S again, except a handler that finds
\* them no longer pending.
Gone(S) ==
  /\ phase'    = [i \in IDs |-> IF i \in S THEN "gone" ELSE phase[i]]
  /\ fate'     = [i \in IDs |-> IF i \in S THEN None ELSE fate[i]]
  /\ served'   = [i \in IDs |-> IF i \in S THEN FALSE ELSE served[i]]
  /\ late'     = [i \in IDs |-> IF i \in S THEN FALSE ELSE late[i]]
  /\ attempts' = [i \in IDs |-> IF i \in S THEN 0 ELSE attempts[i]]

\* zeroPayload.  Shutdown has nothing left to do for the object.
zeroPayload(i) ==
  /\ phase[i] = "detached" /\ Unpinned(i)
  /\ live' = [live EXCEPT ![i] = FALSE]
  /\ IF fate[i] = "closed"
       THEN Gone({i})
       ELSE /\ phase' = [phase EXCEPT ![i] = "zeroed"]
            /\ UNCHANGED <<fate, served, late, attempts>>
  /\ UNCHANGED <<closed, reserved, cmdID, writer, cmd, outbox, workers,
                 handlers, ghosts>>

\* enqueueBiometricResultLocked over enqueueWithCommit; ok: the write succeeds.
enqueueBiometricResultLocked(c, v, ok) ==
  /\ ok \/ faults < MaxFaults
  /\ faults' = IF ok THEN faults ELSE faults + 1
  /\ UNCHANGED working
  /\ LET fits      == Cardinality(Kept(records)) < Capacity
         committed == IF records[c] # None THEN records[c] = v ELSE fits /\ ok
     IN IF committed
          THEN /\ records'  = [records EXCEPT ![c] = v]
               /\ held'     = [held EXCEPT ![c] = None]
               /\ reserved' = reserved \ {c}
          ELSE /\ held' = IF held[c] = None THEN [held EXCEPT ![c] = v] ELSE held
               /\ UNCHANGED <<records, reserved>>

\* The second critical section of whoever detached i: a result, or none.
Settle(i, ok) ==
  /\ phase[i] = "zeroed"
  /\ Gone({i})
  /\ \/ /\ fate[i] \in Results
        /\ enqueueBiometricResultLocked(cmd[i], fate[i], ok)
     \/ /\ fate[i] = "release" /\ ok
        /\ reserved' = reserved \ {cmd[i]}
        /\ UNCHANGED <<outbox, faults>>
  /\ UNCHANGED <<closed, cmdID, writer, cmd, live, workers, handlers, acks,
                 sent, written, reported, restarts>>

-----------------------------------------------------------------------------
(***************************************************************************)
(* The worker of a command.                                                *)
(***************************************************************************)
To(c, p) == wpc' = [wpc EXCEPT ![c] = p]

Step(c, from, to) ==
  /\ wpc[c] = from /\ To(c, to)
  /\ UNCHANGED <<shared, outbox, objects, victims, handlers, ghosts>>

\* Mutations: a reserved id is taken in again; an id whose result waits is.
interceptBiometricDeploymentReference_noDedup(c) ==
  /\ cmdID + Cardinality({x \in Commands : wpc[x] # None}) < MaxID
  /\ wpc[c] = None /\ ~closed /\ records[c] = None
  /\ reserved' = reserved \cup {c}
  /\ reported' = reported \ {c}
  /\ sent' = sent \ {c} /\ written' = written \ {c}
  /\ To(c, "start")
  /\ UNCHANGED <<closed, cmdID, phase, writer, served, attempts, late, outbox,
                 objects, victims, handlers, acks, faults, restarts>>

interceptBiometricDeploymentReference_ignoresResult(c) ==
  /\ cmdID + Cardinality({x \in Commands : wpc[x] # None}) < MaxID
  /\ wpc[c] = None /\ ~closed /\ c \notin reserved
  /\ reserved' = reserved \cup {c}
  /\ reported' = reported \ {c}
  /\ sent' = sent \ {c} /\ written' = written \ {c}
  /\ To(c, "start")
  /\ UNCHANGED <<closed, cmdID, phase, writer, served, attempts, late, outbox,
                 objects, victims, handlers, acks, faults, restarts>>

\* interceptBiometricDeploymentReference: reserveSecretCommand, then the
\* goroutine.  An id that is reserved or whose result waits is dropped, and so is
\* every one while the outbox does not work.
interceptBiometricDeploymentReference(c) ==
  /\ cmdID + Cardinality({x \in Commands : wpc[x] # None}) < MaxID
  /\ wpc[c] = None /\ working
  /\ ~closed
  /\ c \notin reserved
  /\ records[c] = None
  /\ Cardinality(Kept(records)) + Cardinality(reserved) < Capacity
  /\ Cardinality(reserved) < MaxActive
  /\ reserved' = reserved \cup {c}
  /\ reported' = reported \ {c}
  /\ sent' = sent \ {c} /\ written' = written \ {c}
  /\ To(c, "start")
  /\ UNCHANGED <<closed, cmdID, phase, writer, served, attempts, late, outbox,
                 objects, victims, handlers, acks, faults, restarts>>

\* startBiometricDeliveryWorker and startBiometricDeliveryProcess.
Start(c) == Step(c, "start", IF closed THEN "release" ELSE "claim")

\* Mutation: a worker whose claim is refused returns without the release.
claimBiometricDeployment_leaks(c, granted) ==
  /\ c \notin Deletes
  /\ Step(c, "claim", IF granted THEN "supersede" ELSE None)

\* The cloud grants the claim, names another command or attempt, or does not
\* answer; a cancelled request looks the same.
claimBiometricDeployment(c, granted) ==
  /\ c \notin Deletes
  /\ Step(c, "claim", IF granted THEN "supersede" ELSE "release")

\* A deletion makes the claim twice: the second time, before it is queued, the
\* cloud must grant the same attempt (ProcessBiometricDeletion).
claimBiometricDeletion(c, granted) ==
  /\ c \in Deletes
  /\ \/ Step(c, "claim", IF granted THEN "supersede" ELSE "release")
     \/ Step(c, "recheck", IF granted THEN "enqueue" ELSE "release")

\* supersedeSecretDeployment, first critical section.
supersedeSecretDeployment(c) ==
  /\ wpc[c] = "supersede"
  /\ LET V == {i \in Obj({"queued", "pending"}) :
                 cmd[i] # c /\ DeploymentOf[cmd[i]] = DeploymentOf[c]}
     IN /\ Detach(V, "superseded")
        /\ victims' = [victims EXCEPT ![c] = V]
  /\ To(c, "zeroing")
  /\ UNCHANGED <<outbox, handlers, ghosts>>

\* Mutation: the ids of the superseded commands stay reserved.
SupersedeRelease_forgets(c) ==
  /\ wpc[c] = "zeroing"
  /\ \A i \in victims[c] : phase[i] = "zeroed"
  /\ Gone(victims[c])
  /\ victims' = [victims EXCEPT ![c] = {}]
  /\ To(c, IF c \in Deletes THEN "render" ELSE "fetch")
  /\ UNCHANGED <<closed, reserved, cmdID, writer, cmd, live, outbox, handlers, ghosts>>

\* Its second one, when it has zeroed every object it removed.
SupersedeRelease(c) ==
  /\ wpc[c] = "zeroing"
  /\ \A i \in victims[c] : phase[i] = "zeroed"
  /\ reserved' = reserved \ {cmd[i] : i \in victims[c]}
  /\ Gone(victims[c])
  /\ victims' = [victims EXCEPT ![c] = {}]
  /\ To(c, IF c \in Deletes THEN "render" ELSE "fetch")
  /\ UNCHANGED <<closed, cmdID, writer, cmd, live, outbox, handlers, ghosts>>

\* Once claimed, a failure is reported; a cancellation, by shutdown, is not ...
Attempt(c, from, to) ==
  \/ Step(c, from, "report")
  \/ closed /\ Step(c, from, "release")
  \/ Step(c, from, to)

\* ... and neither is one the cloud tells of (deployment_cancelled).
fetchBiometricDeploymentPayload(c) ==
  c \notin Deletes /\ (Attempt(c, "fetch", "render") \/ Step(c, "fetch", "release"))

\* Rendering, against the protocol state of the scanner.
renderBiometricDeploymentCommand(c) == c \notin Deletes /\ Attempt(c, "render", "enqueue")
renderBiometricDeletionCommand(c)   == c \in Deletes /\ Attempt(c, "render", "recheck")

\* Mutation: neither shutdown nor the reservation is looked at.
enqueueSecretCommand_unchecked(c) ==
  /\ wpc[c] = "enqueue"
  /\ cmdID < MaxID
  /\ cmdID' = cmdID + 1
  /\ phase' = [phase EXCEPT ![cmdID'] = "queued"]
  /\ cmd'   = [cmd EXCEPT ![cmdID'] = c]
  /\ live'  = [live EXCEPT ![cmdID'] = TRUE]
  /\ To(c, None)
  /\ UNCHANGED <<fate, closed, reserved, writer, served, attempts, late,
                 outbox, victims, handlers, ghosts>>

\* enqueueSecretCommand refuses after shutdown and without a reservation.
enqueueSecretCommand(c) ==
  /\ wpc[c] = "enqueue"
  /\ IF closed \/ c \notin reserved \/ Cardinality(reserved) > MaxActive
       THEN To(c, "release") /\ UNCHANGED <<cmdID, phase, objects>>
       ELSE /\ cmdID < MaxID
            /\ cmdID' = cmdID + 1
            /\ phase' = [phase EXCEPT ![cmdID'] = "queued"]
            /\ cmd'   = [cmd EXCEPT ![cmdID'] = c]
            /\ live'  = [live EXCEPT ![cmdID'] = TRUE]
            /\ To(c, None) /\ UNCHANGED fate
  /\ UNCHANGED <<closed, reserved, writer, served, attempts, late, outbox,
                 victims, handlers, ghosts>>

\* reportBiometricDeploymentFailure, reportBiometricDeletionFailure.
Report(c, ok) ==
  /\ wpc[c] = "report"
  /\ enqueueBiometricResultLocked(c, "failed", ok)
  /\ To(c, None)
  /\ UNCHANGED <<closed, cmdID, phase, writer, served, attempts, late, objects,
                 victims, handlers, acks, sent, written, reported, restarts>>

\* releaseSecretCommand, deferred to the end of a worker that queued nothing.
releaseSecretCommand(c) ==
  /\ wpc[c] = "release"
  /\ reserved' = reserved \ {c}
  /\ To(c, None)
  /\ UNCHANGED <<closed, cmdID, phase, writer, served, attempts, late, outbox,
                 objects, victims, handlers, ghosts>>

-----------------------------------------------------------------------------
(***************************************************************************)
(* A scanner's getrequest.                                                 *)
(***************************************************************************)
HTo(h, p) ==
  /\ hpc'  = [hpc EXCEPT ![h] = p]
  /\ hobj' = [hobj EXCEPT ![h] = IF p = None THEN 0 ELSE @]

PendingAt(d) == {i \in Pending : DeviceAt(i) = d}
QueuedAt(d)  == {i \in Obj({"queued"}) : DeviceAt(i) = d}

\* Mutation: the active writer is not looked at.
ClaimAgain_ignoresWriter(h, d) ==
  /\ hpc[h] = None
  /\ \E i \in PendingAt(d) :
       /\ attempts[i] < MaxServeAttempts
       /\ writer' = [writer EXCEPT ![i] = TRUE]
       /\ attempts' = [attempts EXCEPT ![i] = @ + 1]
       /\ hpc' = [hpc EXCEPT ![h] = "compat"]
       /\ hobj' = [hobj EXCEPT ![h] = i]
  /\ UNCHANGED <<closed, reserved, cmdID, phase, served, late, outbox,
                 objects, workers, ghosts>>

\* claimSecretCommandWriter.  The pending object of the device comes first:
\* with another writer the handler just answers OK (no step); spent, it fails;
\* otherwise it is served again ...
ClaimAgain(h, d) ==
  /\ hpc[h] = None
  /\ \E i \in PendingAt(d) :
       /\ ~writer[i]
       /\ IF attempts[i] >= MaxServeAttempts \/ late[i]
            THEN Removed({i}, "failed") /\ UNCHANGED handlers
            ELSE /\ writer' = [writer EXCEPT ![i] = TRUE]
                 /\ attempts' = [attempts EXCEPT ![i] = @ + 1]
                 /\ hpc' = [hpc EXCEPT ![h] = "compat"]
                 /\ hobj' = [hobj EXCEPT ![h] = i]
                 /\ UNCHANGED <<closed, reserved, cmdID, phase, served, late,
                                outbox, objects, workers, ghosts>>

\* Mutation: the next command is served before the pending one is settled.
ClaimFirst_overtakes(h, d) ==
  /\ hpc[h] = None
  /\ \E i \in QueuedAt(d) :
       /\ phase' = [phase EXCEPT ![i] = "pending"]
       /\ writer' = [writer EXCEPT ![i] = TRUE]
       /\ attempts' = [attempts EXCEPT ![i] = 1]
       /\ hpc' = [hpc EXCEPT ![h] = "compat"]
       /\ hobj' = [hobj EXCEPT ![h] = i]
  /\ UNCHANGED <<closed, reserved, cmdID, served, late, outbox, objects,
                 workers, ghosts>>

\* ... without one, the head of the queue becomes pending.
ClaimFirst(h, d) ==
  /\ hpc[h] = None /\ PendingAt(d) = {}
  /\ \E i \in QueuedAt(d) :
       /\ \A j \in QueuedAt(d) : i <= j
       /\ phase' = [phase EXCEPT ![i] = "pending"]
       /\ writer' = [writer EXCEPT ![i] = TRUE]
       /\ attempts' = [attempts EXCEPT ![i] = 1]
       /\ hpc' = [hpc EXCEPT ![h] = "compat"]
       /\ hobj' = [hobj EXCEPT ![h] = i]
  /\ UNCHANGED <<closed, reserved, cmdID, served, late, outbox, objects,
                 workers, ghosts>>

\* failServedSecretCommand / discardSecretCommandWithoutResult: nothing when
\* somebody else has detached the object.
TakeAway(h, f) ==
  /\ Removed({hobj[h]} \cap Pending, f)
  /\ HTo(h, None)

\* releaseSecretCommandWriter.
releaseSecretCommandWriter(h) ==
  /\ writer' = [writer EXCEPT ![hobj[h]] = @ /\ phase[hobj[h]] # "pending"]
  /\ HTo(h, None)
  /\ UNCHANGED <<closed, reserved, cmdID, phase, served, attempts, late,
                 outbox, objects, workers, ghosts>>

GoOn(h, p) == HTo(h, p) /\ UNCHANGED <<shared, outbox, objects, workers, ghosts>>

\* queuedSecretCommandCompatibility against the live protocol state.
Compat(h) ==
  /\ hpc[h] = "compat"
  /\ \/ TakeAway(h, "failed")
     \/ GoOn(h, IF cmd[hobj[h]] \in Deletes THEN "recheck" ELSE "pin")

\* The deletion's claim is checked with the cloud once more: unreachable, or a
\* lease too short for the write, gives the object back; a claim that is gone
\* discards it; then compatibility again.
ServeRecheck(h) ==
  /\ hpc[h] = "recheck"
  /\ releaseSecretCommandWriter(h) \/ TakeAway(h, "release") \/ TakeAway(h, "failed") \/ GoOn(h, "pin")

\* Lock payloadMu, and look under s.mu whether the object is still ours.
Pin(h) ==
  /\ hpc[h] = "pin"
  /\ Unpinned(hobj[h])
  /\ LET i == hobj[h]
     IN \/ /\ phase[i] # "pending" \/ ~writer[i]
           /\ GoOn(h, None)
        \/ /\ phase[i] = "pending" /\ writer[i] /\ ~live[i]
           /\ releaseSecretCommandWriter(h)
        \/ /\ phase[i] = "pending" /\ writer[i] /\ live[i]
           /\ HTo(h, "writing")
           /\ sent' = sent \cup {cmd[i]}
           /\ acks' = acks \cup {<<DeviceAt(i), i>>}
           /\ UNCHANGED <<shared, outbox, objects, workers, written, reported, faults,
                          restarts>>

\* writeSecretADMSCommandLocked: complete, timed out, or broken off.
Write(h) ==
  /\ hpc[h] = "writing"
  /\ \E p \in {"mark", "fail", "drop"} :
       /\ HTo(h, p)
       /\ written' = IF p = "mark" THEN written \cup {cmd[hobj[h]]} ELSE written
  /\ UNCHANGED <<shared, outbox, objects, workers, acks, sent, reported, faults, restarts>>

\* Mutation: a write that was broken off counts as served.
AfterWrite_marksBroken(h) ==
  \/ /\ hpc[h] \in {"mark", "drop"}
     /\ LET mine == phase[hobj[h]] = "pending"
        IN /\ served' = [served EXCEPT ![hobj[h]] = @ \/ mine]
           /\ writer' = [writer EXCEPT ![hobj[h]] = @ /\ ~mine]
     /\ HTo(h, None)
     /\ UNCHANGED <<closed, reserved, cmdID, phase, attempts, late, outbox,
                    objects, workers, ghosts>>
  \/ hpc[h] = "fail" /\ TakeAway(h, "failed")

\* markSecretCommandServed, and the two failures.
AfterWrite(h) ==
  \/ /\ hpc[h] = "mark"
     /\ LET mine == phase[hobj[h]] = "pending"
        IN /\ served' = [served EXCEPT ![hobj[h]] = @ \/ mine]
           /\ writer' = [writer EXCEPT ![hobj[h]] = @ /\ ~mine]
     /\ HTo(h, None)
     /\ UNCHANGED <<closed, reserved, cmdID, phase, attempts, late, outbox,
                    objects, workers, ghosts>>
  \/ hpc[h] = "fail" /\ TakeAway(h, "failed")
  \/ hpc[h] = "drop" /\ releaseSecretCommandWriter(h)

-----------------------------------------------------------------------------
(***************************************************************************)
(* Acknowledgements, timers, the outbox, shutdown and restart.             *)
(***************************************************************************)
\* completeSecretCommand: a scanner answers a local id it was sent.
completeSecretCommand(d, i, v) ==
  /\ <<d, i>> \in acks
  /\ phase[i] = "pending" /\ DeviceAt(i) = d
  /\ cmd[i] \in Deletes => served[i]
  /\ Removed({i}, v) /\ UNCHANGED handlers

\* secretCommandServeDeadline after the first claim ...
DeadlinePasses(i) ==
  /\ phase[i] = "pending" /\ ~late[i]
  /\ late' = [late EXCEPT ![i] = TRUE]
  /\ UNCHANGED <<closed, reserved, cmdID, phase, writer, served, attempts,
                 outbox, objects, workers, handlers, ghosts>>

\* ... expirePendingSecretCommand.
expirePendingSecretCommand(i) ==
  /\ phase[i] = "pending" /\ late[i]
  /\ Removed({i}, "failed") /\ UNCHANGED handlers

\* expireQueuedDeleteCommand.
expireQueuedDeleteCommand(i) ==
  /\ phase[i] = "queued" /\ cmd[i] \in Deletes
  /\ Removed({i}, "release") /\ UNCHANGED handlers

\* The outbox worker: a held result is written, a written one is answered.
FlushHeld(c) ==
  /\ working /\ held[c] # None /\ records[c] = None /\ Cardinality(Kept(records)) < Capacity
  /\ records' = [records EXCEPT ![c] = held[c]]
  /\ held' = [held EXCEPT ![c] = None]
  /\ reserved' = reserved \ {c}
  /\ UNCHANGED <<closed, cmdID, phase, writer, served, attempts, late, working, objects,
                 workers, handlers, ghosts>>

ResultAnswered(c) ==
  /\ working /\ records[c] # None
  /\ records' = [records EXCEPT ![c] = None]
  /\ reported' = reported \cup {c}
  /\ UNCHANGED <<shared, held, working, objects, workers, handlers, acks, sent, written,
                 faults, restarts>>

\* disableBiometricResultOutbox: after an answer the record cannot be removed, or
\* after none its retry cannot be written, and the worker returns.
disableBiometricResultOutbox(c) ==
  /\ working /\ records[c] # None
  /\ working' = FALSE
  /\ UNCHANGED <<shared, held, records, objects, workers, handlers, ghosts>>

\* Mutation: the queues are dropped, their payloads not zeroed.
shutdownBiometricDelivery_dropsQueue ==
  /\ ~closed /\ closed' = TRUE
  /\ reserved' = {}
  /\ phase'  = [i \in IDs |-> CASE phase[i] = "queued"  -> "gone"
                               [] phase[i] = "pending" -> "detached"
                               [] OTHER                -> phase[i]]
  /\ writer' = [i \in IDs |-> FALSE]
  /\ fate'   = [i \in IDs |-> IF phase[i] = "pending" THEN "closed" ELSE fate[i]]
  /\ UNCHANGED <<cmdID, served, attempts, late, cmd, live, outbox, workers,
                 handlers, ghosts>>

\* shutdownBiometricDelivery: everything queued or pending is drained.
shutdownBiometricDelivery ==
  /\ ~closed /\ closed' = TRUE
  /\ reserved' = {}
  /\ LET S == Obj({"queued", "pending"})
     IN /\ phase'  = [i \in IDs |-> IF i \in S THEN "detached" ELSE phase[i]]
        /\ writer' = [i \in IDs |-> IF i \in S THEN FALSE ELSE writer[i]]
        /\ fate'   = [i \in IDs |-> IF i \in S THEN "closed" ELSE fate[i]]
  /\ UNCHANGED <<cmdID, served, attempts, late, cmd, live, outbox, workers,
                 handlers, ghosts>>

\* A crash and the next start: the outbox survives, with some of the results
\* that were still in memory, and so do the answers the scanners owe.  The next
\* process may be unable to open it.
Restart(S) ==
  /\ restarts < MaxRestarts /\ restarts' = restarts + 1
  /\ Fresh
  /\ records' = [c \in Commands |-> IF c \in S THEN held[c] ELSE records[c]]
  /\ working' \in BOOLEAN
  /\ UNCHANGED <<acks, sent, written, reported, faults>>

WorkerStep(c) ==
  \/ Start(c) \/ supersedeSecretDeployment(c) \/ SupersedeRelease(c)
  \/ fetchBiometricDeploymentPayload(c)
  \/ renderBiometricDeploymentCommand(c) \/ renderBiometricDeletionCommand(c)
  \/ enqueueSecretCommand(c) \/ releaseSecretCommand(c)
  \/ \E b \in BOOLEAN :
       claimBiometricDeployment(c, b) \/ claimBiometricDeletion(c, b) \/ Report(c, b)

HandlerStep(h) ==
  Compat(h) \/ ServeRecheck(h) \/ Pin(h) \/ Write(h) \/ AfterWrite(h)

ObjectStep(i) ==
  \/ zeroPayload(i) \/ DeadlinePasses(i) \/ expirePendingSecretCommand(i) \/ expireQueuedDeleteCommand(i)
  \/ \E ok \in BOOLEAN : Settle(i, ok)

OutboxStep(c) == FlushHeld(c) \/ ResultAnswered(c) \/ disableBiometricResultOutbox(c)

Next ==
  \/ \E c \in Commands : interceptBiometricDeploymentReference(c) \/ WorkerStep(c) \/ OutboxStep(c)
  \/ \E h \in Handlers : \/ HandlerStep(h)
                         \/ \E d \in Devices : ClaimAgain(h, d) \/ ClaimFirst(h, d)
  \/ \E i \in IDs : \/ ObjectStep(i)
                    \/ \E d \in Devices, v \in Results : completeSecretCommand(d, i, v)
  \/ shutdownBiometricDelivery
  \/ \E S \in SUBSET Kept(held) : Restart(S)

Spec == Init /\ [][Next]_vars

-----------------------------------------------------------------------------
(***************************************************************************)
(* Safety.                                                                 *)
(***************************************************************************)
Active(i) == i \in Outstanding /\ fate[i] # "closed"

\* The commands some goroutine or map still has to deal with.
InFlight == {c \in Commands : wpc[c] # None \/ \E i \in IDs : Active(i) /\ cmd[i] = c}

\* biometric_delivery.go:1405-1442, 1527-1563, 2067-2074.  Until shutdown an id
\* is reserved exactly while a worker runs for it, an object of it is not
\* settled, or its result waits in memory.  Of the many goroutines that may
\* end a delivery none frees the id early (the cloud's redelivery would start
\* a second one) and none forgets it (16 leaks stop all deliveries).
ReservedExactlyWhileInFlight ==
  ~closed => reserved = InFlight \cup Kept(held)

\* biometric_delivery.go:1879-1891.  A command is in one hand only: its worker,
\* one object, the results in memory or the outbox.  So whichever of ACK,
\* deadline, supersession, failure and shutdown comes first decides, and no
\* command gets a second result.
OneHandPerCommand ==
  \A c \in Commands :
    /\ wpc[c] # None => \A i \in IDs : ~(Active(i) /\ cmd[i] = c)
    /\ \A i, j \in IDs : Active(i) /\ Active(j) /\ cmd[i] = c /\ cmd[j] = c => i = j
    /\ c \in InFlight => held[c] = None /\ records[c] = None
    /\ ~(held[c] # None /\ records[c] # None)

\* biometric_delivery.go:1570-1628.  A scanner has at most one secret command
\* outstanding, however many of its requests are handled at once.
OnePendingPerDevice ==
  \A i, j \in Pending : DeviceAt(i) = DeviceAt(j) => i = j

\* biometric_delivery.go:1576-1579, 1751-1766.  No two handlers work on one
\* object, the one that does on a pending object is marked as its writer, and none
\* begins when the bytes have been sent maxSecretCommandServeAttempts times.
OneWriterPerObject ==
  /\ \A i \in IDs : attempts[i] <= MaxServeAttempts
  /\ \A g, h \in Handlers :
       hpc[g] # None /\ hpc[h] # None /\ hobj[g] = hobj[h] => g = h
  /\ \A i \in Pending : writer[i] <=> \E h \in Handlers : hpc[h] # None /\ hobj[h] = i

\* biometric_delivery.go:119-124, 1749-1772.  While bytes are being written they
\* are intact, and their command is not settled: a result the outbox has, or
\* an id that is free again, is never followed by bytes of that delivery.
WritesPrecedeSettlement ==
  \A h \in Handlers :
    hpc[h] = "writing" => live[hobj[h]] /\ phase[hobj[h]] \in {"pending", "detached"}

\* biometric_delivery.go:2366-2396.  Once shut down the server holds no command
\* it could still serve, also from workers that were under way.
ShutdownIsFinal == closed => Obj({"queued", "pending"}) = {}

\* biometric_delivery.go:1768-1772, 1954-1957.  The cloud is told that a template
\* is deleted only when the command's bytes were written to the end since it was
\* last taken in: not on an answer to bytes of which only a part was written, nor
\* on the late answer to a delivery of an earlier process with the same local id.
AppliedDeletionWasWritten ==
  \A c \in Deletes : "applied" \in {held[c], records[c]} => c \in written

\* biometric_delivery_test.go:934-938: "stale scanner result reported
\* completion".  A command counts as applied only if its bytes have been sent to
\* the scanner since it was taken in.
AppliedWasSent == \A i \in IDs : fate[i] = "applied" => cmd[i] \in sent

-----------------------------------------------------------------------------
(***************************************************************************)
(* Liveness.  Goroutines run, timers fire, a blocked write ends at its     *)
(* deadline, requests to the cloud end at their timeout.  Nothing is       *)
(* assumed of the scanners: one that never polls again is allowed.  The    *)
(* outbox's worker runs until a failed write ends it.                      *)
(***************************************************************************)
Fairness ==
  /\ \A c \in Commands : WF_vars(WorkerStep(c)) /\ WF_vars(FlushHeld(c) /\ ~closed)
  /\ \A h \in Handlers : WF_vars(HandlerStep(h))
  /\ \A i \in IDs : WF_vars(ObjectStep(i))

FairSpec == Spec /\ Fairness

Waiting(c) == \E i \in IDs : phase[i] = "queued" /\ cmd[i] = c /\ c \notin Deletes

\* biometric_delivery.go:1503-1525, 1661-1683, 2092-2117.  Every reservation
\* ends, unless its deployment waits for a scanner that does not poll, or its
\* result waits in memory for an outbox whose worker has ended
\* (biometric_result_outbox.go:544-560): only a restart frees that id.
ReservationsEnd ==
  \A c \in Commands :
    c \in reserved ~> (c \notin reserved \/ Waiting(c) \/ (~working /\ held[c] # None))

\* biometric_delivery.go:2392-2395.  A shutdown ends: the workers finish and no
\* payload is left, even if a handler was in the middle of a write.
ShutdownCompletes ==
  closed ~> ( \/ ~closed
              \/ /\ \A c \in Commands : wpc[c] = None
                 /\ \A i \in IDs : ~live[i])

-----------------------------------------------------------------------------
(***************************************************************************)
(* The deliveries keep the promise of ResultLedger.                        *)
(***************************************************************************)
stageOf(c) ==
  CASE c \in InFlight     -> "inflight"
    [] held[c] # None     -> "held"
    [] records[c] # None  -> "durable"
    [] c \in reported     -> "reported"
    [] OTHER              -> "idle"

valueOf(c) ==
  CASE stageOf(c) = "held"    -> held[c]
    [] stageOf(c) = "durable" -> records[c]
    [] OTHER                  -> None

Ledger == INSTANCE ResultLedger WITH
            stage <- [c \in Commands |-> stageOf(c)],
            value <- [c \in Commands |-> valueOf(c)]

\* Every delivery ends in exactly one way: abandoned, or with one result that
\* is kept until the cloud has answered it.
ImplementsLedger == Ledger!Spec
=============================================================================
