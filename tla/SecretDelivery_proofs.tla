------------------------ MODULE SecretDelivery_proofs ------------------------
(***************************************************************************)
(* The deliveries, for any number of commands, scanners, requests at once, *)
(* attempts, faults and crashes: a command is in one hand, its id is       *)
(* reserved exactly then, its bytes are written before it is settled, and  *)
(* the whole implements ResultLedger.                                      *)
(*                                                                         *)
(* The proof has two layers.  Below, what every step does to the objects   *)
(* and the goroutines.  Above, what that amounts to for the commands       *)
(* (Moves): of the many ways a delivery can end each is an Abandons or a   *)
(* Settles.  The reservations and the refinement are proved from the       *)
(* moves alone.                                                            *)
(***************************************************************************)
EXTENDS SecretDelivery, FiniteSetTheorems, TLAPS

\* What was detached has a fate, and nothing else has one.
FatesAgree ==
  \A i \in IDs :
    /\ phase[i] \in {"detached", "zeroed"} <=> fate[i] # None
    /\ phase[i] = "zeroed" => fate[i] # "closed"

\* The objects a supersession has detached are its own until it releases them.
VictimsAgree ==
  \A c \in Commands :
    /\ victims[c] # {} => wpc[c] = "zeroing"
    /\ \A i \in victims[c] : phase[i] \in {"detached", "zeroed"} /\ fate[i] = "superseded"
    /\ \A d \in Commands \ {c} : victims[c] \cap victims[d] = {}

\* A handler has an object that was claimed.
HandlersClaimed == \A h \in Handlers : hpc[h] # None => phase[hobj[h]] \notin {"unused", "queued"}

\* The first half of OneHandPerCommand: a worker or one object.
SingleHand ==
  \A c \in Commands :
    /\ wpc[c] # None => \A i \in IDs : ~(Active(i) /\ cmd[i] = c)
    /\ \A i, j \in IDs : Active(i) /\ Active(j) /\ cmd[i] = c /\ cmd[j] = c => i = j

\* The second half, with the commands the cloud is done with.
OneStage ==
  \A c \in Commands :
    /\ c \in InFlight => held[c] = None /\ records[c] = None /\ c \notin reported
    /\ held[c] # None => records[c] = None /\ c \notin reported
    /\ records[c] # None => c \notin reported

\* A deletion is detached as applied only once it is marked as served.
AppliedDeletionWasServed ==
  \A i \in IDs : fate[i] = "applied" /\ cmd[i] \in Deletes => served[i]

ObjectInv ==
  /\ TypeOK /\ FatesAgree /\ VictimsAgree /\ HandlersClaimed /\ SingleHand
  /\ OnePendingPerDevice /\ OneWriterPerObject /\ WritesPrecedeSettlement
  /\ ShutdownIsFinal /\ AppliedDeletionWasServed

IInv == ObjectInv /\ OneStage /\ ReservedExactlyWhileInFlight

-----------------------------------------------------------------------------
(* Types.                                                                  *)

\* Detaching and forgetting objects that exist keeps the types.
LEMMA DetachTypes ==
  ASSUME TypeOK, NEW S \in SUBSET (IDs \ Obj({"unused"})), NEW f \in Fates, Detach(S, f),
         UNCHANGED <<outbox, workers, ghosts>>,
         UNCHANGED handlers \/ \E h \in Handlers : HTo(h, None)
  PROVE  TypeOK'
<1>1. writer' \in [IDs -> BOOLEAN]
  BY DEF TypeOK, Detach
<1>2. phase' \in [IDs -> Phases] /\ fate' \in [IDs -> Fates]
      /\ \A i \in IDs : phase'[i] # "unused" <=> phase[i] # "unused"
  BY DEF TypeOK, Detach, Obj, Phases
<1>3. /\ hpc' \in [Handlers -> HPCs] /\ hobj' \in [Handlers -> 0..MaxID]
      /\ \A h \in Handlers : hpc'[h] # None => hobj'[h] \in IDs
  BY DeliveryAssumption DEF TypeOK, HTo, HPCs, None, handlers
<1> QED BY <1>1, <1>2, <1>3 DEF TypeOK, Detach, outbox, workers, ghosts

LEMMA GoneTypes ==
  ASSUME TypeOK, NEW S \in SUBSET (IDs \ Obj({"unused"})), Gone(S)
  PROVE  /\ phase' \in [IDs -> Phases] /\ fate' \in [IDs -> Fates]
         /\ served' \in [IDs -> BOOLEAN] /\ late' \in [IDs -> BOOLEAN]
         /\ attempts' \in [IDs -> 0..MaxServeAttempts]
         /\ \A i \in IDs : phase'[i] # "unused" <=> phase[i] # "unused"
<1>1. served' \in [IDs -> BOOLEAN] /\ late' \in [IDs -> BOOLEAN]
  BY DEF TypeOK, Gone
<1>2. attempts' \in [IDs -> 0..MaxServeAttempts] /\ None \in Fates
  BY DeliveryAssumption DEF TypeOK, Gone, Fates
<1> QED BY <1>1, <1>2 DEF TypeOK, Gone, Obj, Phases

LEMMA ResultTypes ==
  ASSUME TypeOK, NEW c \in Commands, NEW v \in Results, NEW ok \in BOOLEAN,
         enqueueBiometricResultLocked(c, v, ok)
  PROVE  /\ reserved' \subseteq Commands /\ faults' \in 0..MaxFaults
         /\ held' \in [Commands -> Results \cup {None}]
         /\ records' \in [Commands -> Results \cup {None}] /\ working' = working
BY DeliveryAssumption DEF TypeOK, enqueueBiometricResultLocked, None

\* A worker that only goes on.
LEMMA StepTypes ==
  ASSUME TypeOK, NEW c \in Commands, NEW p, NEW q \in WPCs, Step(c, p, q)
  PROVE  TypeOK'
BY DEF TypeOK, Step, To, shared, outbox, objects, handlers, ghosts

LEMMA WorkerTypes == ASSUME TypeOK, NEW c \in Commands, WorkerStep(c) PROVE TypeOK'
<1>1. CASE Start(c)
  BY <1>1, StepTypes DEF Start, WPCs
<1>2. CASE \E b \in BOOLEAN : claimBiometricDeployment(c, b) \/ claimBiometricDeletion(c, b)
  BY <1>2, StepTypes DEF claimBiometricDeployment, claimBiometricDeletion, WPCs
<1>3. CASE \/ fetchBiometricDeploymentPayload(c) \/ renderBiometricDeploymentCommand(c)
           \/ renderBiometricDeletionCommand(c)
  BY <1>3, StepTypes DEF fetchBiometricDeploymentPayload, renderBiometricDeploymentCommand,
                         renderBiometricDeletionCommand, Attempt, WPCs
<1>4. CASE supersedeSecretDeployment(c)
  <2> DEFINE V == {i \in Obj({"queued", "pending"}) :
                     cmd[i] # c /\ DeploymentOf[cmd[i]] = DeploymentOf[c]}
  <2>1. V \in SUBSET (IDs \ Obj({"unused"})) /\ "superseded" \in Fates
    BY DEF Obj, Fates
  <2>2. Detach(V, "superseded") /\ victims' = [victims EXCEPT ![c] = V] /\ To(c, "zeroing")
        /\ UNCHANGED <<outbox, handlers, ghosts>>
    BY <1>4 DEF supersedeSecretDeployment
  <2> HIDE DEF V
  <2> QED BY <2>1, <2>2 DEF TypeOK, Detach, Obj, Phases, outbox, handlers, ghosts, To, WPCs
<1>5. CASE SupersedeRelease(c)
  <2>1. victims[c] \in SUBSET (IDs \ Obj({"unused"}))
    BY <1>5 DEF SupersedeRelease, TypeOK, Obj
  <2>2. Gone(victims[c])
    BY <1>5 DEF SupersedeRelease
  <2> QED BY <1>5, <2>1, <2>2, GoneTypes
        DEF TypeOK, SupersedeRelease, outbox, handlers, ghosts, To, WPCs
<1>6. CASE enqueueSecretCommand(c)
  <2>1. CASE To(c, "release") /\ UNCHANGED <<cmdID, phase, objects>>
    BY <1>6, <2>1 DEF TypeOK, enqueueSecretCommand, objects, outbox, handlers, ghosts, To, WPCs
  <2>2. CASE ~(To(c, "release") /\ UNCHANGED <<cmdID, phase, objects>>)
    <3>1. /\ cmdID < MaxID /\ cmdID' = cmdID + 1
          /\ phase' = [phase EXCEPT ![cmdID'] = "queued"]
          /\ cmd'   = [cmd EXCEPT ![cmdID'] = c]
          /\ live'  = [live EXCEPT ![cmdID'] = TRUE]
          /\ To(c, None) /\ UNCHANGED fate
      BY <1>6, <2>2 DEF enqueueSecretCommand
    <3>2. cmdID' \in IDs /\ cmdID' \in 0..MaxID
      BY <3>1, DeliveryAssumption DEF TypeOK, IDs
    <3>3. \A i \in IDs : i <= cmdID' <=> i <= cmdID \/ i = cmdID'
      BY <3>1, DeliveryAssumption DEF TypeOK, IDs
    <3>4. phase' \in [IDs -> Phases] /\ live' \in [IDs -> BOOLEAN] /\ cmd' \in [IDs -> Commands \cup {None}]
      BY <3>1, <3>2 DEF TypeOK, Phases
    <3>5. \A i \in IDs : /\ phase'[i] # "unused" <=> i <= cmdID'
                         /\ phase'[i] # "unused" <=> cmd'[i] # None
      BY <3>1, <3>2, <3>3, DeliveryAssumption DEF TypeOK, None
    <3> QED BY <1>6, <3>1, <3>2, <3>4, <3>5
          DEF TypeOK, enqueueSecretCommand, outbox, handlers, ghosts, To, WPCs
  <2> QED BY <2>1, <2>2
<1>7. ASSUME NEW ok \in BOOLEAN, Report(c, ok) PROVE TypeOK'
  BY <1>7, ResultTypes DEF TypeOK, Report, objects, handlers, To, WPCs, Results
<1>8. CASE releaseSecretCommand(c)
  BY <1>8 DEF TypeOK, releaseSecretCommand, objects, outbox, handlers, ghosts, To, WPCs
<1> QED BY <1>1, <1>2, <1>3, <1>4, <1>5, <1>6, <1>7, <1>8 DEF WorkerStep

LEMMA HandlerTypes ==
  ASSUME TypeOK, HandlersClaimed, NEW h \in Handlers,
         HandlerStep(h) \/ \E d \in Devices : ClaimAgain(h, d) \/ ClaimFirst(h, d)
  PROVE  TypeOK'
<1>1. ASSUME NEW f \in Fates, TakeAway(h, f) PROVE TypeOK'
  <2>1. {hobj[h]} \cap Pending \in SUBSET (IDs \ Obj({"unused"}))
    BY DEF Pending, Obj
  <2> QED BY <1>1, <2>1, DetachTypes DEF TakeAway, Removed
<1>2. ASSUME NEW p \in HPCs, GoOn(h, p), hpc[h] # None PROVE TypeOK'
  BY <1>2, DeliveryAssumption DEF TypeOK, GoOn, HTo, shared, outbox, objects, workers, ghosts
<1>3. ASSUME releaseSecretCommandWriter(h), hpc[h] # None PROVE TypeOK'
  <2>1. writer' \in [IDs -> BOOLEAN]
    BY <1>3 DEF TypeOK, releaseSecretCommandWriter
  <2> QED BY <1>3, <2>1, DeliveryAssumption
        DEF TypeOK, releaseSecretCommandWriter, HTo, outbox, objects, workers, ghosts, HPCs
<1>4. "failed" \in Fates /\ "release" \in Fates
  BY DEF Fates, Results
<1>5. {"compat", "recheck", "pin", "writing", "mark", "fail", "drop", None} \subseteq HPCs
  BY DEF HPCs
<1>6. CASE Compat(h)
  BY <1>6, <1>1, <1>2, <1>4, <1>5 DEF Compat, None
<1>7. CASE ServeRecheck(h)
  BY <1>7, <1>1, <1>2, <1>3, <1>4, <1>5 DEF ServeRecheck, None
<1>8. CASE Pin(h)
  <2> DEFINE i == hobj[h]
  <2>1. CASE GoOn(h, None) \/ releaseSecretCommandWriter(h)
    BY <1>8, <2>1, <1>2, <1>3, <1>5 DEF Pin, None
  <2>2. CASE /\ phase[i] = "pending" /\ HTo(h, "writing") /\ sent' = sent \cup {cmd[i]}
             /\ acks' = acks \cup {<<DeviceAt(i), i>>}
             /\ UNCHANGED <<shared, outbox, objects, workers, written, reported, faults, restarts>>
    <3>1. i \in IDs /\ cmd[i] \in Commands
      BY <1>8, <2>2 DEF Pin, TypeOK, None
    <3>2. DeviceAt(i) \in Devices
      BY <3>1, DeliveryAssumption DEF DeviceAt
    <3> QED BY <2>2, <3>1, <3>2, <1>8
          DEF TypeOK, HTo, shared, outbox, objects, workers, HPCs, None
  <2> QED BY <1>8, <2>1, <2>2 DEF Pin
<1>9. CASE Write(h)
  <2>1. PICK p \in {"mark", "fail", "drop"} :
          HTo(h, p) /\ written' = IF p = "mark" THEN written \cup {cmd[hobj[h]]} ELSE written
    BY <1>9 DEF Write
  <2>2. hobj[h] \in IDs /\ phase[hobj[h]] # "unused" /\ p \in HPCs
    BY <1>9, <1>5 DEF Write, TypeOK, None, HandlersClaimed
  <2>3. cmd[hobj[h]] \in Commands
    BY <2>2 DEF TypeOK
  <2>4. UNCHANGED <<shared, outbox, objects, workers, acks, sent, reported, faults, restarts>>
        /\ hpc[h] # None
    BY <1>9 DEF Write, None
  <2> QED BY <2>1, <2>2, <2>3, <2>4
        DEF TypeOK, HTo, shared, outbox, objects, workers, None
<1>10. CASE AfterWrite(h)
  <2>1. CASE hpc[h] = "mark"
    <3>1. writer' \in [IDs -> BOOLEAN] /\ served' \in [IDs -> BOOLEAN]
      BY <1>10, <2>1 DEF AfterWrite, TypeOK
    <3>2. HTo(h, None) /\ UNCHANGED <<closed, reserved, cmdID, phase, attempts, late, outbox,
                                      objects, workers, ghosts>>
      BY <1>10, <2>1 DEF AfterWrite
    <3>3. hpc' \in [Handlers -> HPCs] /\ hobj' \in [Handlers -> 0..MaxID]
          /\ \A g \in Handlers : hpc'[g] # None => hobj'[g] \in IDs
      BY <3>2, <1>5, DeliveryAssumption DEF HTo, TypeOK
    <3> QED BY <3>1, <3>2, <3>3
          DEF TypeOK, outbox, objects, workers, ghosts
  <2> QED BY <1>10, <2>1, <1>1, <1>3, <1>4 DEF AfterWrite, None
<1>11. ASSUME NEW d \in Devices, ClaimAgain(h, d) PROVE TypeOK'
  <2>1. PICK i \in PendingAt(d) :
          IF attempts[i] >= MaxServeAttempts \/ late[i]
            THEN Removed({i}, "failed") /\ UNCHANGED handlers
            ELSE /\ writer' = [writer EXCEPT ![i] = TRUE]
                 /\ attempts' = [attempts EXCEPT ![i] = @ + 1]
                 /\ hpc' = [hpc EXCEPT ![h] = "compat"]
                 /\ hobj' = [hobj EXCEPT ![h] = i]
                 /\ UNCHANGED <<closed, reserved, cmdID, phase, served, late,
                                outbox, objects, workers, ghosts>>
    BY <1>11 DEF ClaimAgain
  <2>2. i \in IDs /\ phase[i] = "pending"
    BY DEF PendingAt, Pending, Obj
  <2>3. CASE attempts[i] >= MaxServeAttempts \/ late[i]
    BY <2>1, <2>2, <2>3, <1>4, DetachTypes DEF Removed, Obj
  <2>4. attempts[i] >= MaxServeAttempts \/ attempts[i] + 1 \in 0..MaxServeAttempts
    BY <2>2, DeliveryAssumption DEF TypeOK
  <2>5. CASE ~(attempts[i] >= MaxServeAttempts \/ late[i])
    <3>0. writer' = [writer EXCEPT ![i] = TRUE] /\ attempts' = [attempts EXCEPT ![i] = attempts[i] + 1]
      BY <2>1, <2>5
    <3>1. writer' \in [IDs -> BOOLEAN] /\ attempts' \in [IDs -> 0..MaxServeAttempts]
      <4>1. writer' \in [IDs -> BOOLEAN]
        BY <3>0 DEF TypeOK
      <4>2. attempts' \in [IDs -> 0..MaxServeAttempts]
        BY <2>4, <2>5, <3>0 DEF TypeOK
      <4> QED BY <4>1, <4>2
    <3>2. hobj' \in [Handlers -> 0..MaxID] /\ hpc' \in [Handlers -> HPCs]
          /\ \A g \in Handlers : hpc'[g] # None => hobj'[g] \in IDs
      <4>1. i \in 0..MaxID /\ "compat" \in HPCs
        BY <2>2 DEF IDs, HPCs
      <4> QED BY <2>1, <2>2, <2>5, <4>1 DEF TypeOK
    <3> QED BY <2>1, <2>5, <3>1, <3>2 DEF TypeOK, outbox, objects, workers, ghosts
  <2> QED BY <2>3, <2>5
<1>12. ASSUME NEW d \in Devices, ClaimFirst(h, d) PROVE TypeOK'
  <2>1. PICK i \in QueuedAt(d) :
             /\ phase' = [phase EXCEPT ![i] = "pending"]
             /\ writer' = [writer EXCEPT ![i] = TRUE]
             /\ attempts' = [attempts EXCEPT ![i] = 1]
             /\ hpc' = [hpc EXCEPT ![h] = "compat"]
             /\ hobj' = [hobj EXCEPT ![h] = i]
    BY <1>12 DEF ClaimFirst
  <2>2. i \in IDs /\ phase[i] = "queued" /\ 1 \in 0..MaxServeAttempts
    BY DeliveryAssumption DEF QueuedAt, Obj
  <2> QED BY <1>12, <2>1, <2>2
        DEF ClaimFirst, TypeOK, outbox, objects, workers, ghosts, HPCs, Phases, IDs, None
<1> QED BY <1>6, <1>7, <1>8, <1>9, <1>10, <1>11, <1>12 DEF HandlerStep

LEMMA StepTypeOK == TypeOK /\ HandlersClaimed /\ [Next]_vars => TypeOK'
<1> SUFFICES ASSUME TypeOK, HandlersClaimed, [Next]_vars PROVE TypeOK'
  OBVIOUS
<1>1. ASSUME NEW c \in Commands, interceptBiometricDeploymentReference(c) PROVE TypeOK'
  BY <1>1 DEF TypeOK, interceptBiometricDeploymentReference, To, WPCs, outbox, objects, handlers
<1>2. ASSUME NEW c \in Commands, OutboxStep(c) PROVE TypeOK'
  <2>1. working' \in BOOLEAN
    BY <1>2 DEF TypeOK, OutboxStep, FlushHeld, ResultAnswered, disableBiometricResultOutbox
  <2> QED BY <1>2, <2>1 DEF TypeOK, OutboxStep, FlushHeld, ResultAnswered,
        disableBiometricResultOutbox, shared, objects, workers, handlers, ghosts
<1>3. ASSUME NEW i \in IDs, ObjectStep(i) PROVE TypeOK'
  <2>1. CASE zeroPayload(i)
    <3>1. CASE fate[i] = "closed"
      <4>1. Gone({i}) /\ {i} \in SUBSET (IDs \ Obj({"unused"}))
        BY <2>1, <3>1 DEF zeroPayload, Obj
      <4> QED BY <2>1, <4>1, GoneTypes DEF TypeOK, zeroPayload, outbox, workers, handlers, ghosts
    <3>2. CASE fate[i] # "closed"
      BY <2>1, <3>2 DEF TypeOK, zeroPayload, Phases, outbox, workers, handlers, ghosts
    <3> QED BY <3>1, <3>2
  <2>2. CASE DeadlinePasses(i)
    BY <2>2 DEF TypeOK, DeadlinePasses, outbox, objects, workers, handlers, ghosts
  <2>3. CASE expirePendingSecretCommand(i) \/ expireQueuedDeleteCommand(i)
    <3>1. {i} \in SUBSET (IDs \ Obj({"unused"})) /\ "failed" \in Fates /\ "release" \in Fates
      BY <2>3 DEF expirePendingSecretCommand, expireQueuedDeleteCommand, Obj, Fates, Results
    <3> QED BY <2>3, <3>1, DetachTypes DEF expirePendingSecretCommand, expireQueuedDeleteCommand, Removed
  <2>4. ASSUME NEW ok \in BOOLEAN, Settle(i, ok) PROVE TypeOK'
    <3>1. Gone({i}) /\ {i} \in SUBSET (IDs \ Obj({"unused"})) /\ cmd[i] \in Commands
      BY <2>4 DEF Settle, Obj, TypeOK
    <3>2. CASE fate[i] \in Results /\ enqueueBiometricResultLocked(cmd[i], fate[i], ok)
      <4>1. /\ reserved' \subseteq Commands /\ faults' \in 0..MaxFaults
            /\ held' \in [Commands -> Results \cup {None}]
            /\ records' \in [Commands -> Results \cup {None}] /\ working' = working
        BY <3>1, <3>2, ResultTypes
      <4> QED BY <2>4, <3>1, <4>1, GoneTypes DEF TypeOK, Settle, workers, handlers
    <3>3. CASE reserved' = reserved \ {cmd[i]} /\ UNCHANGED <<outbox, faults>>
      BY <2>4, <3>1, <3>3, GoneTypes DEF TypeOK, Settle, outbox, workers, handlers
    <3> QED BY <2>4, <3>2, <3>3 DEF Settle
  <2> QED BY <1>3, <2>1, <2>2, <2>3, <2>4 DEF ObjectStep
<1>4. ASSUME NEW i \in IDs, NEW d \in Devices, NEW v \in Results, completeSecretCommand(d, i, v)
      PROVE  TypeOK'
  <2>1. {i} \in SUBSET (IDs \ Obj({"unused"})) /\ v \in Fates
    BY <1>4 DEF completeSecretCommand, Obj, Fates
  <2> QED BY <1>4, <2>1, DetachTypes DEF completeSecretCommand, Removed
<1>5. CASE shutdownBiometricDelivery
  <2>1. Obj({"queued", "pending"}) \subseteq IDs /\ "closed" \in Fates
        /\ \A i \in Obj({"queued", "pending"}) : phase[i] # "unused"
    BY DEF Obj, Fates
  <2> QED BY <1>5, <2>1 DEF TypeOK, shutdownBiometricDelivery, Phases, outbox, workers, handlers, ghosts
<1>6. ASSUME NEW S \in SUBSET Kept(held), Restart(S) PROVE TypeOK'
  <2>1. S \subseteq Commands
    BY DEF Kept
  <2>2. records' \in [Commands -> Results \cup {None}] /\ held' \in [Commands -> Results \cup {None}]
    BY <1>6, <2>1 DEF TypeOK, Restart, Fresh
  <2>3. /\ writer' \in [IDs -> BOOLEAN] /\ served' \in [IDs -> BOOLEAN]
        /\ late' \in [IDs -> BOOLEAN] /\ live' \in [IDs -> BOOLEAN]
    BY <1>6 DEF Restart, Fresh
  <2>6. closed' \in BOOLEAN /\ working' \in BOOLEAN
    BY <1>6 DEF Restart, Fresh
  <2>4. /\ reserved' \subseteq Commands /\ cmdID' \in 0..MaxID
        /\ phase' \in [IDs -> Phases] /\ fate' \in [IDs -> Fates]
        /\ attempts' \in [IDs -> 0..MaxServeAttempts] /\ cmd' \in [IDs -> Commands \cup {None}]
        /\ \A i \in IDs : /\ phase'[i] # "unused" <=> i <= cmdID'
                          /\ phase'[i] # "unused" <=> cmd'[i] # None
    BY <1>6, DeliveryAssumption DEF Restart, Fresh, Phases, Fates, IDs
  <2>5. /\ wpc' \in [Commands -> WPCs] /\ victims' \in [Commands -> SUBSET IDs]
        /\ hpc' \in [Handlers -> HPCs] /\ hobj' \in [Handlers -> 0..MaxID]
        /\ \A h \in Handlers : hpc'[h] # None => hobj'[h] \in IDs
        /\ restarts' \in 0..MaxRestarts
    BY <1>6, DeliveryAssumption DEF TypeOK, Restart, Fresh, WPCs, HPCs
  <2> QED BY <1>6, <2>2, <2>3, <2>4, <2>5, <2>6 DEF TypeOK, Restart
<1>7. CASE UNCHANGED vars
  BY <1>7 DEF TypeOK, vars
<1> QED BY <1>1, <1>2, <1>3, <1>4, <1>5, <1>6, <1>7, WorkerTypes, HandlerTypes DEF Next

-----------------------------------------------------------------------------
(* Objects and goroutines: what becomes of ObjectInv.                      *)

\* What a step does to the commands.  An empty S is a step they do not notice.
Abandons(S) ==
  /\ S \subseteq InFlight /\ InFlight' = InFlight \ S
  /\ UNCHANGED <<held, records, reported>>
  /\ closed' \/ (~closed /\ reserved' = reserved \ S)

Settles(c, v) ==
  /\ c \in InFlight /\ InFlight' = InFlight \ {c}
  /\ UNCHANGED <<reported, closed>>
  /\ \E ok \in BOOLEAN : enqueueBiometricResultLocked(c, v, ok)

Moves ==
  \/ \E S \in SUBSET Commands : Abandons(S)
  \/ \E c \in Commands, v \in Results : Settles(c, v)
  \/ \E c \in Commands : interceptBiometricDeploymentReference(c) /\ InFlight' = InFlight \cup {c}
  \/ \E c \in Commands : OutboxStep(c) /\ InFlight' = InFlight
  \/ \E S \in SUBSET Kept(held) : Restart(S) /\ InFlight' = {}

\* A step that leaves the commands alone.
LEMMA QuietMoves ==
  ASSUME TypeOK, InFlight' = InFlight, UNCHANGED <<held, records, reported, reserved, closed>>
  PROVE  Moves
<1>1. Abandons({})
  BY DEF Abandons, TypeOK
<1> QED BY <1>1 DEF Moves

\* Whose hand a command is in depends on the active objects and the workers.
LEMMA SameFlight ==
  ASSUME SingleHand, cmd' = cmd, \A i \in IDs : Active(i)' <=> Active(i),
         \A c \in Commands : wpc'[c] # None <=> wpc[c] # None
  PROVE  SingleHand' /\ InFlight' = InFlight
BY DEF SingleHand, InFlight

\* Detaching queued or pending objects, for any reason but a shutdown.  A
\* handler that ends meanwhile takes its own object away.
LEMMA DetachKeeps ==
  ASSUME ObjectInv, NEW S \in SUBSET Obj({"queued", "pending"}), NEW f \in Fates \ {None, "closed"},
         Detach(S, f), \A i \in S : f = "applied" /\ cmd[i] \in Deletes => served[i],
         \/ UNCHANGED handlers
         \/ \E h \in Handlers : hpc[h] # None /\ HTo(h, None) /\ {hobj[h]} \cap Pending \subseteq S
  PROVE  /\ FatesAgree' /\ HandlersClaimed' /\ OnePendingPerDevice' /\ OneWriterPerObject'
         /\ WritesPrecedeSettlement' /\ ShutdownIsFinal' /\ AppliedDeletionWasServed'
         /\ \A i \in IDs : Active(i)' <=> Active(i)
<1> USE DEF ObjectInv
<1>0. \A i \in S : i \in IDs /\ phase[i] \in {"queued", "pending"} /\ fate[i] = None
  BY DEF Obj, FatesAgree
<1>1. FatesAgree'
  BY <1>0 DEF FatesAgree, Detach, TypeOK
<1>2. HandlersClaimed'
  BY <1>0 DEF HandlersClaimed, Detach, TypeOK, handlers, HTo, None
<1>3. OnePendingPerDevice' /\ ShutdownIsFinal'
  BY <1>0 DEF OnePendingPerDevice, ShutdownIsFinal, Pending, Obj, DeviceAt, Detach, TypeOK
<1>4. \A i \in IDs : Active(i)' <=> Active(i)
  BY <1>0 DEF Active, Outstanding, Obj, Detach, None
<1>5. AppliedDeletionWasServed'
  BY <1>0 DEF AppliedDeletionWasServed, Detach
<1>6. WritesPrecedeSettlement'
  BY <1>0 DEF WritesPrecedeSettlement, Detach, TypeOK, handlers, HTo, None
<1>7. OneWriterPerObject'
  <2>1. \A i \in Pending' : i \in Pending /\ i \notin S /\ writer'[i] = writer[i]
    BY <1>0 DEF Pending, Obj, Detach
  <2>2. \A g \in Handlers : hpc'[g] # None => hpc[g] # None /\ hobj'[g] = hobj[g]
    BY DEF TypeOK, handlers, HTo, None
  <2>3. \A g \in Handlers, i \in Pending' : hpc[g] # None /\ hobj[g] = i => hpc'[g] # None /\ hobj'[g] = i
    BY <2>1 DEF TypeOK, handlers, HTo, None
  <2>4. \A i \in IDs : attempts'[i] <= MaxServeAttempts
    BY DEF OneWriterPerObject, Detach
  <2>5. \A g, h \in Handlers : hpc'[g] # None /\ hpc'[h] # None /\ hobj'[g] = hobj'[h] => g = h
    BY <2>2 DEF OneWriterPerObject
  <2>6. \A i \in Pending' : writer'[i] <=> \E h \in Handlers : hpc'[h] # None /\ hobj'[h] = i
    <3> SUFFICES ASSUME NEW i \in Pending'
                 PROVE  writer'[i] <=> \E h \in Handlers : hpc'[h] # None /\ hobj'[h] = i
      OBVIOUS
    <3>1. writer'[i] = writer[i] /\ (writer[i] <=> \E h \in Handlers : hpc[h] # None /\ hobj[h] = i)
      BY <2>1 DEF OneWriterPerObject
    <3>2. (\E h \in Handlers : hpc'[h] # None /\ hobj'[h] = i) <=> \E h \in Handlers : hpc[h] # None /\ hobj[h] = i
      BY <2>2, <2>3
    <3> QED BY <3>1, <3>2
  <2> QED BY <2>4, <2>5, <2>6, Zenon DEF OneWriterPerObject
<1> QED BY <1>1, <1>2, <1>3, <1>4, <1>5, <1>6, <1>7

\* The same, when nothing else happens.
LEMMA RemovedKeeps ==
  ASSUME IInv, NEW S \in SUBSET Obj({"queued", "pending"}), NEW f \in Fates \ {None, "closed"},
         Removed(S, f), \A i \in S : f = "applied" /\ cmd[i] \in Deletes => served[i],
         \/ UNCHANGED handlers
         \/ \E h \in Handlers : hpc[h] # None /\ HTo(h, None) /\ {hobj[h]} \cap Pending \subseteq S
  PROVE  ObjectInv' /\ Moves
<1>1. Detach(S, f) /\ UNCHANGED <<outbox, workers, ghosts>>
  BY DEF Removed
<1>2. TypeOK'
  BY <1>1, DetachTypes DEF IInv, ObjectInv, Obj
<1>3. SingleHand' /\ InFlight' = InFlight
  BY <1>1, DetachKeeps, SameFlight DEF IInv, ObjectInv, Detach, workers
<1>4. VictimsAgree'
  <2>1. \A c \in Commands : victims[c] \cap S = {}
    BY DEF IInv, ObjectInv, VictimsAgree, Obj
  <2> QED BY <1>1, <2>1 DEF IInv, ObjectInv, VictimsAgree, Detach, workers, TypeOK
<1>5. ObjectInv'
  BY <1>1, <1>2, <1>3, <1>4, DetachKeeps DEF IInv, ObjectInv
<1>6. Moves
  BY <1>1, <1>3, QuietMoves DEF IInv, ObjectInv, Detach, outbox, ghosts
<1> QED BY <1>5, <1>6

\* A handler goes on, or ends with an object that is no longer pending.
LEMMA GoOnKeeps ==
  ASSUME IInv, TypeOK', NEW h \in Handlers, hpc[h] # None, NEW p \in HPCs, HTo(h, p),
         p # None \/ phase[hobj[h]] # "pending",
         p = "writing" => live[hobj[h]] /\ phase[hobj[h]] = "pending",
         UNCHANGED <<shared, outbox, objects, workers, reported>>
  PROVE  ObjectInv' /\ Moves
<1> USE DEF IInv, ObjectInv
<1>1. phase' = phase /\ fate' = fate /\ writer' = writer /\ cmd' = cmd /\ attempts' = attempts
      /\ live' = live /\ served' = served /\ closed' = closed /\ wpc' = wpc /\ victims' = victims
  BY DEF shared, objects, workers
<1>2. SingleHand' /\ InFlight' = InFlight
  BY <1>1, SameFlight DEF Active, Outstanding, Obj
<1>3. FatesAgree' /\ VictimsAgree' /\ OnePendingPerDevice' /\ ShutdownIsFinal' /\ AppliedDeletionWasServed'
  BY <1>1 DEF FatesAgree, VictimsAgree, OnePendingPerDevice, ShutdownIsFinal, Pending, Obj,
              AppliedDeletionWasServed, DeviceAt
<1>4. HandlersClaimed' /\ WritesPrecedeSettlement'
  BY <1>1 DEF HandlersClaimed, WritesPrecedeSettlement, HTo, TypeOK
<1>5. OneWriterPerObject'
  <2>1. \A g \in Handlers : hpc'[g] # None => hpc[g] # None /\ hobj'[g] = hobj[g]
    BY DEF TypeOK, HTo
  <2>2. \A g \in Handlers, i \in Pending : hpc[g] # None /\ hobj[g] = i => hpc'[g] # None /\ hobj'[g] = i
    BY DEF TypeOK, HTo, Pending, Obj
  <2>3. Pending' = Pending
    BY <1>1 DEF Pending, Obj
  <2>4. \A i \in Pending : (\E g \in Handlers : hpc'[g] # None /\ hobj'[g] = i)
                           <=> \E g \in Handlers : hpc[g] # None /\ hobj[g] = i
    BY <2>1, <2>2
  <2>5. \A f, g \in Handlers : hpc'[f] # None /\ hpc'[g] # None /\ hobj'[f] = hobj'[g] => f = g
    BY <2>1 DEF OneWriterPerObject
  <2>6. \A i \in Pending' : writer'[i] <=> \E g \in Handlers : hpc'[g] # None /\ hobj'[g] = i
    BY <1>1, <2>3, <2>4 DEF OneWriterPerObject
  <2> QED BY <1>1, <2>5, <2>6 DEF OneWriterPerObject
<1>6. Moves
  BY <1>2, QuietMoves DEF shared, outbox
<1> QED BY <1>2, <1>3, <1>4, <1>5, <1>6

\* A handler ends and its object, if it is pending, has no writer any more.
LEMMA LetGoKeeps ==
  ASSUME IInv, TypeOK', NEW h \in Handlers, hpc[h] # None, HTo(h, None),
         writer' = [writer EXCEPT ![hobj[h]] = @ /\ phase[hobj[h]] # "pending"],
         \A i \in IDs : served[i] => served'[i],
         UNCHANGED <<closed, reserved, phase, attempts, outbox, objects, workers, ghosts>>
  PROVE  ObjectInv' /\ Moves
<1> USE DEF IInv, ObjectInv
<1>1. cmd' = cmd /\ live' = live /\ fate' = fate /\ wpc' = wpc /\ victims' = victims
  BY DEF objects, workers
<1>2. SingleHand' /\ InFlight' = InFlight
  BY <1>1, SameFlight DEF Active, Outstanding, Obj
<1>3. FatesAgree' /\ VictimsAgree' /\ OnePendingPerDevice' /\ ShutdownIsFinal'
  BY <1>1 DEF FatesAgree, VictimsAgree, OnePendingPerDevice, ShutdownIsFinal, Pending, Obj, DeviceAt
<1>4. AppliedDeletionWasServed'
  BY <1>1 DEF AppliedDeletionWasServed
<1>5. HandlersClaimed' /\ WritesPrecedeSettlement'
  BY <1>1 DEF HandlersClaimed, WritesPrecedeSettlement, HTo, TypeOK, None
<1>6. OneWriterPerObject'
  <2>0. hobj[h] \in IDs /\ Pending' = Pending
    BY DEF TypeOK, Pending, Obj
  <2>1. \A g \in Handlers : hpc'[g] # None <=> hpc[g] # None /\ g # h
    BY DEF TypeOK, HTo
  <2>2. \A g \in Handlers : g # h => hobj'[g] = hobj[g]
    BY DEF TypeOK, HTo
  <2>3. \A f, g \in Handlers : hpc'[f] # None /\ hpc'[g] # None /\ hobj'[f] = hobj'[g] => f = g
    BY <2>1, <2>2 DEF OneWriterPerObject
  <2>4. ASSUME NEW i \in Pending'
        PROVE  writer'[i] <=> \E g \in Handlers : hpc'[g] # None /\ hobj'[g] = i
    <3>1. i \in IDs /\ phase[i] = "pending"
      BY <2>0 DEF Pending, Obj
    <3>2. CASE i = hobj[h]
      <4>1. ~writer'[i]
        BY <2>0, <3>1, <3>2 DEF TypeOK
      <4>2. \A g \in Handlers : hpc[g] # None /\ hobj[g] = i => g = h
        BY <3>2 DEF OneWriterPerObject
      <4> QED BY <4>1, <4>2, <2>1, <2>2
    <3>3. CASE i # hobj[h]
      <4>1. writer'[i] = writer[i]
        BY <2>0, <3>1, <3>3 DEF TypeOK
      <4>2. (\E g \in Handlers : hpc'[g] # None /\ hobj'[g] = i)
            <=> \E g \in Handlers : hpc[g] # None /\ hobj[g] = i
        BY <2>1, <2>2, <3>3
      <4> QED BY <4>1, <4>2, <2>0 DEF OneWriterPerObject
    <3> QED BY <3>2, <3>3
  <2>5. \A i \in IDs : attempts'[i] <= MaxServeAttempts
    BY DEF OneWriterPerObject
  <2> QED BY <2>3, <2>4, <2>5 DEF OneWriterPerObject
<1>7. Moves
  BY <1>2, QuietMoves DEF outbox, ghosts
<1> QED BY <1>2, <1>3, <1>4, <1>5, <1>6, <1>7

\* A handler claims an object that nobody is working on.
LEMMA ClaimKeeps ==
  ASSUME IInv, TypeOK', NEW h \in Handlers, hpc[h] = None, NEW i \in IDs,
         \/ phase[i] = "pending" /\ ~writer[i] /\ phase' = phase
         \/ /\ phase[i] = "queued" /\ phase' = [phase EXCEPT ![i] = "pending"]
            /\ PendingAt(DeviceAt(i)) = {},
         writer' = [writer EXCEPT ![i] = TRUE],
         hpc' = [hpc EXCEPT ![h] = "compat"], hobj' = [hobj EXCEPT ![h] = i],
         UNCHANGED <<closed, reserved, served, outbox, objects, workers, ghosts>>
  PROVE  ObjectInv' /\ Moves
<1> USE DEF IInv, ObjectInv
<1>1. cmd' = cmd /\ live' = live /\ fate' = fate /\ wpc' = wpc /\ victims' = victims
  BY DEF objects, workers
<1>2. \A j \in IDs : j # i => phase'[j] = phase[j]
  BY DEF TypeOK
<1>3. phase'[i] = "pending" /\ phase[i] \in {"queued", "pending"}
  BY DEF TypeOK
<1>4. SingleHand' /\ InFlight' = InFlight
  <2>1. \A j \in IDs : Active(j)' <=> Active(j)
    BY <1>1, <1>2, <1>3 DEF Active, Outstanding, Obj
  <2> QED BY <1>1, <2>1, SameFlight
<1>5. FatesAgree' /\ VictimsAgree' /\ ShutdownIsFinal' /\ AppliedDeletionWasServed'
  <2>1. FatesAgree'
    BY <1>1, <1>2, <1>3 DEF FatesAgree
  <2>2. VictimsAgree'
    BY <1>1, <1>2, <1>3 DEF VictimsAgree, TypeOK
  <2>3. ShutdownIsFinal'
    BY <1>2, <1>3 DEF ShutdownIsFinal, Obj
  <2> QED BY <1>1, <2>1, <2>2, <2>3 DEF AppliedDeletionWasServed
<1>6. OnePendingPerDevice'
  BY <1>1, <1>2, <1>3 DEF OnePendingPerDevice, Pending, PendingAt, Obj, DeviceAt
<1>7. \A g \in Handlers : hpc[g] # None => hobj[g] # i
  <2>1. CASE phase[i] = "pending" /\ ~writer[i]
    BY <2>1 DEF OneWriterPerObject, Pending, Obj
  <2>2. CASE phase[i] = "queued"
    BY <2>2 DEF HandlersClaimed
  <2> QED BY <2>1, <2>2, <1>3
<1>8. HandlersClaimed' /\ WritesPrecedeSettlement'
  <2>1. hpc'[h] = "compat" /\ hobj'[h] = i
    BY DEF TypeOK
  <2>2. \A g \in Handlers : g # h => hpc'[g] = hpc[g] /\ hobj'[g] = hobj[g]
    BY DEF TypeOK
  <2>3. \A g \in Handlers : hpc[g] # None => hobj[g] \in IDs
    BY DEF TypeOK
  <2>4. HandlersClaimed'
    BY <1>2, <1>3, <2>1, <2>2, <2>3 DEF HandlersClaimed
  <2>5. WritesPrecedeSettlement'
    BY <1>1, <1>2, <1>7, <2>1, <2>2, <2>3 DEF WritesPrecedeSettlement, None
  <2> QED BY <2>4, <2>5
<1>9. OneWriterPerObject'
  <2>1. \A g \in Handlers : g # h => hpc'[g] = hpc[g] /\ hobj'[g] = hobj[g]
    BY DEF TypeOK
  <2>2. hpc'[h] # None /\ hobj'[h] = i
    BY DEF TypeOK, None
  <2>3. \A f, g \in Handlers : hpc'[f] # None /\ hpc'[g] # None /\ hobj'[f] = hobj'[g] => f = g
    BY <2>1, <2>2, <1>7 DEF OneWriterPerObject
  <2>4. ASSUME NEW j \in Pending'
        PROVE  writer'[j] <=> \E g \in Handlers : hpc'[g] # None /\ hobj'[g] = j
    <3>1. CASE j = i
      <4>1. writer'[j]
        BY <3>1 DEF TypeOK
      <4> QED BY <4>1, <3>1, <2>2
    <3>2. CASE j # i
      <4>1. j \in Pending /\ writer'[j] = writer[j]
        BY <1>2, <3>2 DEF Pending, Obj, TypeOK
      <4>2. (\E g \in Handlers : hpc'[g] # None /\ hobj'[g] = j)
            <=> \E g \in Handlers : hpc[g] # None /\ hobj[g] = j
        BY <2>1, <2>2, <3>2
      <4> QED BY <4>1, <4>2 DEF OneWriterPerObject
    <3> QED BY <3>1, <3>2
  <2>5. \A j \in IDs : attempts'[j] <= MaxServeAttempts
    BY DeliveryAssumption DEF TypeOK
  <2> QED BY <2>3, <2>4, <2>5 DEF OneWriterPerObject
<1>10. Moves
  BY <1>4, QuietMoves DEF outbox, ghosts
<1> QED BY <1>4, <1>5, <1>6, <1>8, <1>9, <1>10

LEMMA HandlerKeeps ==
  ASSUME IInv, TypeOK', NEW h \in Handlers,
         HandlerStep(h) \/ \E d \in Devices : ClaimAgain(h, d) \/ ClaimFirst(h, d)
  PROVE  ObjectInv' /\ Moves
<1>1. ASSUME NEW f \in {"failed", "release"}, hpc[h] # None, TakeAway(h, f) PROVE ObjectInv' /\ Moves
  <2>1. {hobj[h]} \cap Pending \in SUBSET Obj({"queued", "pending"})
    BY DEF Pending, Obj
  <2>2. f \in Fates \ {None, "closed"} /\ f # "applied"
    BY DEF Fates, Results, None
  <2> QED BY <1>1, <2>1, <2>2, RemovedKeeps DEF TakeAway
<1>2. ASSUME NEW p \in HPCs \ {None, "writing"}, hpc[h] # None, GoOn(h, p) PROVE ObjectInv' /\ Moves
  BY <1>2, GoOnKeeps DEF GoOn, ghosts
<1>3. ASSUME hpc[h] # None, releaseSecretCommandWriter(h) PROVE ObjectInv' /\ Moves
  BY <1>3, LetGoKeeps DEF releaseSecretCommandWriter
<1>4. {"pin", "recheck", "mark", "fail", "drop"} \subseteq HPCs \ {None, "writing"}
  BY DEF HPCs, None
<1>5. CASE Compat(h)
  BY <1>1, <1>2, <1>4, <1>5 DEF Compat, None
<1>6. CASE ServeRecheck(h)
  BY <1>1, <1>2, <1>3, <1>4, <1>6 DEF ServeRecheck, None
<1>7. CASE Pin(h)
  <2>1. hpc[h] # None /\ None \in HPCs /\ "writing" \in HPCs
    BY <1>7 DEF Pin, None, HPCs
  <2>2. CASE (phase[hobj[h]] # "pending" \/ ~writer[hobj[h]]) /\ GoOn(h, None)
    <3>1. phase[hobj[h]] # "pending"
      BY <2>1, <2>2 DEF IInv, ObjectInv, OneWriterPerObject, Pending, Obj, TypeOK
    <3> QED BY <2>1, <2>2, <3>1, GoOnKeeps DEF GoOn, ghosts, None
  <2>3. CASE releaseSecretCommandWriter(h)
    BY <2>1, <2>3, <1>3
  <2>4. CASE /\ phase[hobj[h]] = "pending" /\ live[hobj[h]] /\ HTo(h, "writing")
             /\ UNCHANGED <<shared, outbox, objects, workers, written, reported, faults, restarts>>
    BY <2>1, <2>4, GoOnKeeps DEF None
  <2> QED BY <1>7, <2>2, <2>3, <2>4 DEF Pin
<1>8. CASE Write(h)
  <2>1. PICK p \in {"mark", "fail", "drop"} : HTo(h, p)
    BY <1>8 DEF Write
  <2>2. hpc[h] # None /\ p \in HPCs \ {None, "writing"}
        /\ UNCHANGED <<shared, outbox, objects, workers, reported>>
    BY <1>4, <1>8 DEF Write, None
  <2> QED BY <2>1, <2>2, GoOnKeeps
<1>9. CASE AfterWrite(h)
  <2>1. CASE hpc[h] = "mark"
    <3>1. /\ writer' = [writer EXCEPT ![hobj[h]] = @ /\ phase[hobj[h]] # "pending"]
          /\ served' = [served EXCEPT ![hobj[h]] = @ \/ phase[hobj[h]] = "pending"]
          /\ HTo(h, None)
          /\ UNCHANGED <<closed, reserved, phase, attempts, outbox, objects, workers, ghosts>>
      BY <1>9, <2>1 DEF AfterWrite
    <3>2. \A i \in IDs : served[i] => served'[i]
      BY <3>1 DEF IInv, ObjectInv, TypeOK
    <3> QED BY <2>1, <3>1, <3>2, LetGoKeeps DEF None
  <2> QED BY <1>1, <1>3, <1>9, <2>1 DEF AfterWrite, None
<1>10. ASSUME NEW d \in Devices, ClaimAgain(h, d) PROVE ObjectInv' /\ Moves
  <2>1. PICK i \in PendingAt(d) :
          /\ ~writer[i]
          /\ IF attempts[i] >= MaxServeAttempts \/ late[i]
            THEN Removed({i}, "failed") /\ UNCHANGED handlers
            ELSE /\ writer' = [writer EXCEPT ![i] = TRUE]
                 /\ attempts' = [attempts EXCEPT ![i] = @ + 1]
                 /\ hpc' = [hpc EXCEPT ![h] = "compat"]
                 /\ hobj' = [hobj EXCEPT ![h] = i]
                 /\ UNCHANGED <<closed, reserved, cmdID, phase, served, late,
                                outbox, objects, workers, ghosts>>
    BY <1>10 DEF ClaimAgain
  <2>2. i \in IDs /\ phase[i] = "pending" /\ hpc[h] = None
    BY <1>10 DEF PendingAt, Pending, Obj, ClaimAgain
  <2>3. CASE Removed({i}, "failed") /\ UNCHANGED handlers
    <3>1. {i} \in SUBSET Obj({"queued", "pending"}) /\ "failed" \in Fates \ {None, "closed"}
      BY <2>2 DEF Obj, Fates, Results, None
    <3> QED BY <2>3, <3>1, RemovedKeeps
  <2> QED BY <2>1, <2>2, <2>3, ClaimKeeps
<1>11. ASSUME NEW d \in Devices, ClaimFirst(h, d) PROVE ObjectInv' /\ Moves
  <2>1. PICK i \in QueuedAt(d) :
             /\ phase' = [phase EXCEPT ![i] = "pending"]
             /\ writer' = [writer EXCEPT ![i] = TRUE]
             /\ hpc' = [hpc EXCEPT ![h] = "compat"]
             /\ hobj' = [hobj EXCEPT ![h] = i]
    BY <1>11 DEF ClaimFirst
  <2>2. i \in IDs /\ phase[i] = "queued" /\ hpc[h] = None /\ PendingAt(DeviceAt(i)) = {}
        /\ UNCHANGED <<closed, reserved, served, outbox, objects, workers, ghosts>>
    BY <1>11 DEF ClaimFirst, QueuedAt, Obj
  <2> QED BY <2>1, <2>2, ClaimKeeps
<1> QED BY <1>5, <1>6, <1>7, <1>8, <1>9, <1>10, <1>11 DEF HandlerStep

\* What a change of the workers and of no object leaves alone.
LEMMA ObjectsSame ==
  ASSUME ObjectInv, UNCHANGED <<closed, phase, writer, served, attempts, objects, handlers>>
  PROVE  /\ FatesAgree' /\ HandlersClaimed' /\ OnePendingPerDevice' /\ OneWriterPerObject'
         /\ WritesPrecedeSettlement' /\ ShutdownIsFinal' /\ AppliedDeletionWasServed'
         /\ cmd' = cmd /\ \A i \in IDs : Active(i)' <=> Active(i)
<1>1. cmd' = cmd /\ live' = live /\ fate' = fate /\ hpc' = hpc /\ hobj' = hobj
  BY DEF objects, handlers
<1>2. FatesAgree' /\ HandlersClaimed' /\ OnePendingPerDevice' /\ ShutdownIsFinal'
  BY <1>1 DEF ObjectInv, FatesAgree, HandlersClaimed, OnePendingPerDevice, ShutdownIsFinal,
              Pending, Obj, DeviceAt
<1>3. OneWriterPerObject' /\ WritesPrecedeSettlement' /\ AppliedDeletionWasServed'
  BY <1>1 DEF ObjectInv, OneWriterPerObject, WritesPrecedeSettlement, AppliedDeletionWasServed,
              Pending, Obj
<1> QED BY <1>1, <1>2, <1>3 DEF Active, Outstanding, Obj

LEMMA StepKeeps ==
  ASSUME IInv, TypeOK', NEW c \in Commands, NEW p, NEW q, p \notin {None, "zeroing"}, q # None,
         Step(c, p, q)
  PROVE  ObjectInv' /\ Moves
<1> USE DEF IInv, ObjectInv
<1>1. wpc[c] = p /\ wpc' = [wpc EXCEPT ![c] = q] /\ victims' = victims
      /\ UNCHANGED <<closed, reserved, phase, writer, served, attempts, objects, handlers,
                     outbox, ghosts>>
  BY DEF Step, To, shared
<1>2. SingleHand' /\ InFlight' = InFlight
  BY <1>1, ObjectsSame, SameFlight DEF TypeOK
<1>3. VictimsAgree'
  BY <1>1 DEF VictimsAgree, TypeOK, objects
<1>4. Moves
  BY <1>1, <1>2, QuietMoves DEF outbox, ghosts
<1> QED BY <1>1, <1>2, <1>3, <1>4, ObjectsSame

\* A worker ends without an object.
LEMMA WorkerEndsKeeps ==
  ASSUME IInv, TypeOK', NEW c \in Commands, wpc[c] \notin {None, "zeroing"}, To(c, None),
         UNCHANGED <<closed, phase, writer, served, attempts, objects, handlers, victims>>
  PROVE  ObjectInv' /\ c \in InFlight /\ InFlight' = InFlight \ {c}
<1> USE DEF IInv, ObjectInv
<1>1. \A d \in Commands : wpc'[d] = IF d = c THEN None ELSE wpc[d]
  BY DEF To, TypeOK
<1>2. c \in InFlight /\ InFlight' = InFlight \ {c}
  BY <1>1, ObjectsSame DEF SingleHand, InFlight
<1>3. SingleHand'
  BY <1>1, ObjectsSame DEF SingleHand
<1>4. VictimsAgree'
  BY <1>1 DEF VictimsAgree, objects
<1> QED BY <1>2, <1>3, <1>4, ObjectsSame

\* Objects whose bytes are zeroed, or are zeroed now while nobody writes them,
\* are forgotten.
LEMMA GoneKeeps ==
  ASSUME ObjectInv, NEW S \in SUBSET IDs, Gone(S),
         \A i \in S : phase[i] = "zeroed" \/ (phase[i] = "detached" /\ Unpinned(i)),
         \A i \in IDs \ S : live'[i] = live[i],
         UNCHANGED <<closed, writer, cmd, handlers>>
  PROVE  /\ FatesAgree' /\ HandlersClaimed' /\ OnePendingPerDevice' /\ OneWriterPerObject'
         /\ WritesPrecedeSettlement' /\ ShutdownIsFinal' /\ AppliedDeletionWasServed'
         /\ \A i \in IDs : Active(i)' <=> Active(i) /\ i \notin S
<1> USE DEF ObjectInv
<1>0. hpc' = hpc /\ hobj' = hobj
  BY DEF handlers
<1>1. \A i \in IDs : phase'[i] = IF i \in S THEN "gone" ELSE phase[i]
  BY DEF Gone
<1>2. \A i \in IDs : fate'[i] = IF i \in S THEN None ELSE fate[i]
  BY DEF Gone
<1>3. FatesAgree' /\ HandlersClaimed'
  BY <1>0, <1>1, <1>2 DEF FatesAgree, HandlersClaimed, TypeOK
<1>4. Pending' = Pending
  BY <1>1 DEF Pending, Obj
<1>5. OnePendingPerDevice' /\ ShutdownIsFinal'
  BY <1>1, <1>4 DEF OnePendingPerDevice, ShutdownIsFinal, Obj, DeviceAt
<1>6. OneWriterPerObject'
  <2>1. \A i \in IDs : attempts'[i] <= MaxServeAttempts
    BY DeliveryAssumption DEF Gone, TypeOK
  <2> QED BY <1>0, <1>4, <2>1 DEF OneWriterPerObject
<1>7. WritesPrecedeSettlement'
  BY <1>0, <1>1 DEF WritesPrecedeSettlement, Unpinned, TypeOK, None
<1>8. AppliedDeletionWasServed'
  BY <1>2 DEF AppliedDeletionWasServed, Gone, None
<1>9. \A i \in IDs : Active(i)' <=> Active(i) /\ i \notin S
  BY <1>1, <1>2 DEF Active, Outstanding, Obj
<1> QED BY <1>3, <1>5, <1>6, <1>7, <1>8, <1>9

\* If they were active, their commands are in flight no longer.
LEMMA GoneFlight ==
  ASSUME TypeOK, SingleHand, NEW S \in SUBSET IDs, \A i \in S : Active(i), cmd' = cmd,
         \A i \in IDs : Active(i)' <=> Active(i) /\ i \notin S,
         \A c \in Commands : wpc'[c] # None <=> wpc[c] # None
  PROVE  /\ SingleHand' /\ {cmd[i] : i \in S} \subseteq InFlight
         /\ InFlight' = InFlight \ {cmd[i] : i \in S}
<1>1. \A i \in S : cmd[i] \in Commands
  BY DEF TypeOK, Active, Outstanding, Obj
<1>2. {cmd[i] : i \in S} \subseteq InFlight
  BY <1>1 DEF InFlight
<1>3. InFlight' = InFlight \ {cmd[i] : i \in S}
  BY <1>1 DEF InFlight, SingleHand
<1>4. SingleHand'
  BY DEF SingleHand
<1> QED BY <1>2, <1>3, <1>4

LEMMA SupersedeKeeps ==
  ASSUME IInv, TypeOK', NEW c \in Commands, supersedeSecretDeployment(c)
  PROVE  ObjectInv' /\ Moves
<1> DEFINE V == {i \in Obj({"queued", "pending"}) :
                   cmd[i] # c /\ DeploymentOf[cmd[i]] = DeploymentOf[c]}
<1>1. /\ Detach(V, "superseded") /\ victims' = [victims EXCEPT ![c] = V]
      /\ wpc[c] = "supersede" /\ To(c, "zeroing") /\ UNCHANGED <<outbox, handlers, ghosts>>
  BY DEF supersedeSecretDeployment
<1>2. V \in SUBSET Obj({"queued", "pending"}) /\ "superseded" \in Fates \ {None, "closed"}
  BY DEF Fates, None
<1> HIDE DEF V
<1>3. /\ FatesAgree' /\ HandlersClaimed' /\ OnePendingPerDevice' /\ OneWriterPerObject'
      /\ WritesPrecedeSettlement' /\ ShutdownIsFinal' /\ AppliedDeletionWasServed'
      /\ \A i \in IDs : Active(i)' <=> Active(i)
  BY <1>1, <1>2, DetachKeeps DEF IInv
<1>4. SingleHand' /\ InFlight' = InFlight
  BY <1>1, <1>3, SameFlight DEF IInv, ObjectInv, Detach, To, TypeOK, None
<1>5. VictimsAgree'
  <2>1. \A d \in Commands : victims[d] \cap V = {}
    BY <1>2 DEF IInv, ObjectInv, VictimsAgree, Obj
  <2>2. victims[c] = {}
    BY <1>1 DEF IInv, ObjectInv, VictimsAgree
  <2>3. \A d \in Commands : victims'[d] = IF d = c THEN V ELSE victims[d]
    BY <1>1 DEF IInv, ObjectInv, TypeOK
  <2>4. \A d \in Commands : wpc'[d] = IF d = c THEN "zeroing" ELSE wpc[d]
    BY <1>1 DEF IInv, ObjectInv, TypeOK, To
  <2>5. \A i \in V : phase'[i] = "detached" /\ fate'[i] = "superseded"
    BY <1>1, <1>2 DEF Detach, Obj
  <2>6. \A i \in IDs \ V : phase'[i] = phase[i] /\ fate'[i] = fate[i]
    BY <1>1 DEF Detach
  <2>7. \A d \in Commands : victims[d] \subseteq IDs
    BY DEF IInv, ObjectInv, TypeOK
  <2> QED BY <2>1, <2>3, <2>4, <2>5, <2>6, <2>7 DEF IInv, ObjectInv, VictimsAgree
<1>6. Moves
  BY <1>1, <1>4, QuietMoves DEF IInv, ObjectInv, Detach, outbox, ghosts
<1> QED BY <1>3, <1>4, <1>5, <1>6 DEF ObjectInv

LEMMA SupersedeReleaseKeeps ==
  ASSUME IInv, TypeOK', NEW c \in Commands, SupersedeRelease(c)
  PROVE  ObjectInv' /\ Moves
<1> USE DEF IInv, ObjectInv
<1> DEFINE S == victims[c]
<1>1. /\ S \in SUBSET IDs /\ Gone(S) /\ \A i \in S : phase[i] = "zeroed"
      /\ victims' = [victims EXCEPT ![c] = {}] /\ reserved' = reserved \ {cmd[i] : i \in S}
      /\ wpc[c] = "zeroing" /\ UNCHANGED <<closed, writer, cmd, live, outbox, handlers, ghosts>>
  BY DEF SupersedeRelease, TypeOK
<1>2. \A d \in Commands : wpc'[d] # None <=> wpc[d] # None
  BY DEF SupersedeRelease, TypeOK, To, None
<1>3. \A d \in Commands \ {c} : wpc'[d] = wpc[d]
  BY DEF SupersedeRelease, TypeOK, To
<1>4. /\ FatesAgree' /\ HandlersClaimed' /\ OnePendingPerDevice' /\ OneWriterPerObject'
      /\ WritesPrecedeSettlement' /\ ShutdownIsFinal' /\ AppliedDeletionWasServed'
      /\ \A i \in IDs : Active(i)' <=> Active(i) /\ i \notin S
  BY <1>1, GoneKeeps
<1>5. \A i \in S : Active(i)
  BY <1>1 DEF Active, Outstanding, Obj, FatesAgree
<1>6. /\ SingleHand' /\ {cmd[i] : i \in S} \subseteq InFlight
      /\ InFlight' = InFlight \ {cmd[i] : i \in S}
  BY <1>1, <1>2, <1>4, <1>5, GoneFlight
<1>7. VictimsAgree'
  <2>1. \A d \in Commands : victims'[d] = IF d = c THEN {} ELSE victims[d]
    BY <1>1 DEF TypeOK
  <2>2. \A i \in IDs \ S : phase'[i] = phase[i] /\ fate'[i] = fate[i]
    BY <1>1 DEF Gone
  <2>3. \A d \in Commands : victims[d] \subseteq IDs
    BY DEF TypeOK
  <2> QED BY <1>3, <2>1, <2>2, <2>3 DEF VictimsAgree
<1>8. Moves
  <2>1. Abandons({cmd[i] : i \in S})
    BY <1>1, <1>6 DEF Abandons, outbox, ghosts, TypeOK
  <2>2. {cmd[i] : i \in S} \in SUBSET Commands
    BY <1>6 DEF InFlight
  <2> QED BY <2>1, <2>2 DEF Moves
<1> QED BY <1>4, <1>6, <1>7, <1>8

LEMMA EnqueueKeeps ==
  ASSUME IInv, TypeOK', NEW c \in Commands, enqueueSecretCommand(c)
  PROVE  ObjectInv' /\ Moves
<1>1. CASE To(c, "release") /\ UNCHANGED <<cmdID, phase, objects>>
  <2>1. Step(c, "enqueue", "release")
    BY <1>1 DEF enqueueSecretCommand, Step, shared
  <2> QED BY <2>1, StepKeeps DEF None
<1>2. CASE ~(To(c, "release") /\ UNCHANGED <<cmdID, phase, objects>>)
  <2> USE DEF IInv, ObjectInv
  <2> DEFINE n == cmdID'
  <2>1. /\ ~closed /\ cmdID < MaxID /\ n = cmdID + 1
        /\ phase' = [phase EXCEPT ![n] = "queued"] /\ cmd' = [cmd EXCEPT ![n] = c]
        /\ live'  = [live EXCEPT ![n] = TRUE] /\ To(c, None) /\ UNCHANGED fate
        /\ wpc[c] = "enqueue"
        /\ UNCHANGED <<closed, reserved, writer, served, attempts, late, outbox,
                       victims, handlers, ghosts>>
    BY <1>2 DEF enqueueSecretCommand
  <2>2. n \in IDs /\ phase[n] = "unused" /\ fate[n] = None
    <3>1. n \in IDs /\ ~(n <= cmdID)
      BY <2>1, DeliveryAssumption DEF TypeOK, IDs
    <3> QED BY <3>1 DEF TypeOK, FatesAgree
  <2> HIDE DEF n
  <2>3. \A i \in IDs : /\ phase'[i] = IF i = n THEN "queued" ELSE phase[i]
                       /\ cmd'[i] = IF i = n THEN c ELSE cmd[i]
    BY <2>1, <2>2 DEF TypeOK
  <2>4. hpc' = hpc /\ hobj' = hobj /\ \A h \in Handlers : hpc[h] # None => hobj[h] \in IDs \ {n}
    BY <2>1, <2>2 DEF handlers, HandlersClaimed, TypeOK
  <2>5. FatesAgree' /\ HandlersClaimed' /\ ShutdownIsFinal'
    BY <2>1, <2>2, <2>3, <2>4 DEF FatesAgree, HandlersClaimed, ShutdownIsFinal
  <2>6. Pending' = Pending /\ \A i \in Pending : i # n
    BY <2>2, <2>3 DEF Pending, Obj
  <2>7. OnePendingPerDevice'
    BY <2>3, <2>6 DEF OnePendingPerDevice, DeviceAt, Pending, Obj
  <2>8. OneWriterPerObject'
    BY <2>1, <2>4, <2>6 DEF OneWriterPerObject
  <2>9. WritesPrecedeSettlement'
    BY <2>1, <2>3, <2>4 DEF WritesPrecedeSettlement, TypeOK, None
  <2>10. AppliedDeletionWasServed'
    BY <2>1, <2>2, <2>3 DEF AppliedDeletionWasServed, None
  <2>11. \A i \in IDs : Active(i)' <=> Active(i) \/ i = n
    BY <2>1, <2>2, <2>3 DEF Active, Outstanding, Obj, None
  <2>12. \A d \in Commands : wpc'[d] = IF d = c THEN None ELSE wpc[d]
    BY <2>1 DEF TypeOK, To
  <2>13. ~Active(n)
    BY <2>2 DEF Active, Outstanding, Obj
  <2>14. SingleHand'
    <3>1. \A i \in IDs : ~(Active(i) /\ cmd[i] = c)
      BY <2>1 DEF SingleHand, None
    <3> QED BY <2>3, <2>11, <2>12, <2>13, <3>1 DEF SingleHand
  <2>15. InFlight' = InFlight
    BY <2>1, <2>2, <2>3, <2>11, <2>12, <2>13 DEF InFlight, None
  <2>16. VictimsAgree'
    BY <2>1, <2>2, <2>3, <2>12 DEF VictimsAgree, TypeOK
  <2>17. Moves
    BY <2>1, <2>15, QuietMoves DEF outbox, ghosts
  <2> QED BY <2>5, <2>7, <2>8, <2>9, <2>10, <2>14, <2>16, <2>17
<1> QED BY <1>1, <1>2

LEMMA WorkerKeeps ==
  ASSUME IInv, TypeOK', NEW c \in Commands, WorkerStep(c)
  PROVE  ObjectInv' /\ Moves
<1>1. CASE Start(c)
  BY <1>1, StepKeeps DEF Start, None
<1>2. CASE \E b \in BOOLEAN : claimBiometricDeployment(c, b) \/ claimBiometricDeletion(c, b)
  BY <1>2, StepKeeps DEF claimBiometricDeployment, claimBiometricDeletion, None
<1>3. CASE \/ fetchBiometricDeploymentPayload(c) \/ renderBiometricDeploymentCommand(c)
           \/ renderBiometricDeletionCommand(c)
  BY <1>3, StepKeeps DEF fetchBiometricDeploymentPayload, renderBiometricDeploymentCommand,
                         renderBiometricDeletionCommand, Attempt, None
<1>4. ASSUME NEW ok \in BOOLEAN, Report(c, ok) PROVE ObjectInv' /\ Moves
  <2>1. ObjectInv' /\ c \in InFlight /\ InFlight' = InFlight \ {c}
    BY <1>4, WorkerEndsKeeps DEF Report, None
  <2>2. Settles(c, "failed") /\ "failed" \in Results
    BY <1>4, <2>1 DEF Settles, Report, Results
  <2> QED BY <2>1, <2>2 DEF Moves
<1>5. CASE releaseSecretCommand(c)
  <2>1. ObjectInv' /\ c \in InFlight /\ InFlight' = InFlight \ {c}
    BY <1>5, WorkerEndsKeeps DEF releaseSecretCommand, None
  <2>2. Abandons({c})
    BY <1>5, <2>1 DEF Abandons, releaseSecretCommand, outbox, ghosts, IInv, ObjectInv, TypeOK
  <2> QED BY <2>1, <2>2 DEF Moves
<1> QED BY <1>1, <1>2, <1>3, <1>4, <1>5, SupersedeKeeps, SupersedeReleaseKeeps, EnqueueKeeps
      DEF WorkerStep

LEMMA ObjectKeeps ==
  ASSUME IInv, TypeOK', NEW i \in IDs, ObjectStep(i)
  PROVE  ObjectInv' /\ Moves
<1> USE DEF IInv, ObjectInv
<1>1. CASE zeroPayload(i)
  <2>1. /\ phase[i] = "detached" /\ Unpinned(i) /\ live' = [live EXCEPT ![i] = FALSE]
        /\ UNCHANGED <<closed, reserved, cmdID, writer, cmd, outbox, workers, handlers, ghosts>>
    BY <1>1 DEF zeroPayload
  <2>2. wpc' = wpc /\ victims' = victims /\ hpc' = hpc /\ hobj' = hobj
    BY <2>1 DEF workers, handlers
  <2>3. CASE fate[i] = "closed"
    <3>1. Gone({i}) /\ ~Active(i)
      BY <1>1, <2>3 DEF zeroPayload, Active
    <3>2. /\ FatesAgree' /\ HandlersClaimed' /\ OnePendingPerDevice' /\ OneWriterPerObject'
          /\ WritesPrecedeSettlement' /\ ShutdownIsFinal' /\ AppliedDeletionWasServed'
          /\ \A j \in IDs : Active(j)' <=> Active(j)
      <4>1. \A j \in IDs \ {i} : live'[j] = live[j]
        BY <2>1 DEF TypeOK
      <4>2. /\ FatesAgree' /\ HandlersClaimed' /\ OnePendingPerDevice' /\ OneWriterPerObject'
            /\ WritesPrecedeSettlement' /\ ShutdownIsFinal' /\ AppliedDeletionWasServed'
            /\ \A j \in IDs : Active(j)' <=> Active(j) /\ j \notin {i}
        BY <2>1, <3>1, <4>1, GoneKeeps
      <4> QED BY <3>1, <4>2
    <3>3. SingleHand' /\ InFlight' = InFlight
      BY <2>1, <2>2, <3>2, SameFlight
    <3>4. VictimsAgree'
      BY <2>2, <2>3, <3>1 DEF VictimsAgree, Gone, TypeOK
    <3> QED BY <2>1, <3>2, <3>3, <3>4, QuietMoves DEF outbox, ghosts
  <2>4. CASE fate[i] # "closed"
    <3>1. phase' = [phase EXCEPT ![i] = "zeroed"] /\ UNCHANGED <<fate, served, late, attempts>>
      BY <1>1, <2>4 DEF zeroPayload
    <3>2. \A j \in IDs : phase'[j] = IF j = i THEN "zeroed" ELSE phase[j]
      BY <3>1 DEF TypeOK
    <3>3. FatesAgree' /\ HandlersClaimed' /\ ShutdownIsFinal' /\ AppliedDeletionWasServed'
      BY <2>1, <2>2, <2>4, <3>1, <3>2 DEF FatesAgree, HandlersClaimed, ShutdownIsFinal, Obj,
                                           AppliedDeletionWasServed, TypeOK
    <3>4. Pending' = Pending
      BY <2>1, <3>2 DEF Pending, Obj
    <3>5. OnePendingPerDevice' /\ OneWriterPerObject'
      BY <2>1, <2>2, <3>1, <3>4 DEF OnePendingPerDevice, OneWriterPerObject, DeviceAt
    <3>6. WritesPrecedeSettlement'
      BY <2>1, <2>2, <3>2 DEF WritesPrecedeSettlement, Unpinned, TypeOK, None
    <3>7. \A j \in IDs : Active(j)' <=> Active(j)
      BY <2>1, <3>1, <3>2 DEF Active, Outstanding, Obj
    <3>8. SingleHand' /\ InFlight' = InFlight
      BY <2>1, <2>2, <3>7, SameFlight
    <3>9. VictimsAgree'
      BY <2>2, <3>1, <3>2 DEF VictimsAgree, TypeOK
    <3> QED BY <2>1, <3>3, <3>5, <3>6, <3>8, <3>9, QuietMoves DEF outbox, ghosts
  <2> QED BY <2>3, <2>4
<1>2. CASE DeadlinePasses(i)
  <2>1. UNCHANGED <<closed, reserved, phase, writer, served, attempts, objects, handlers,
                    outbox, workers, ghosts>>
    BY <1>2 DEF DeadlinePasses
  <2>2. SingleHand' /\ InFlight' = InFlight
    BY <2>1, ObjectsSame, SameFlight DEF workers
  <2>3. VictimsAgree'
    BY <2>1 DEF VictimsAgree, workers, objects
  <2> QED BY <2>1, <2>2, <2>3, ObjectsSame, QuietMoves DEF outbox, ghosts
<1>3. CASE expirePendingSecretCommand(i) \/ expireQueuedDeleteCommand(i)
  <2>1. {i} \in SUBSET Obj({"queued", "pending"})
        /\ {"failed", "release"} \subseteq Fates \ {None, "closed", "applied"}
    BY <1>3 DEF expirePendingSecretCommand, expireQueuedDeleteCommand, Obj, Fates, Results, None
  <2> QED BY <1>3, <2>1, RemovedKeeps DEF expirePendingSecretCommand, expireQueuedDeleteCommand
<1>4. ASSUME NEW ok \in BOOLEAN, Settle(i, ok) PROVE ObjectInv' /\ Moves
  <2>1. /\ phase[i] = "zeroed" /\ Gone({i})
        /\ UNCHANGED <<closed, cmdID, writer, cmd, live, workers, handlers, acks,
                       sent, written, reported, restarts>>
    BY <1>4 DEF Settle
  <2>2. wpc' = wpc /\ victims' = victims
    BY <2>1 DEF workers
  <2>3. fate[i] \in Results \cup {"release"} /\ Active(i)
    BY <1>4, <2>1 DEF Settle, Active, Outstanding, Obj, FatesAgree
  <2>4. /\ FatesAgree' /\ HandlersClaimed' /\ OnePendingPerDevice' /\ OneWriterPerObject'
        /\ WritesPrecedeSettlement' /\ ShutdownIsFinal' /\ AppliedDeletionWasServed'
        /\ \A j \in IDs : Active(j)' <=> Active(j) /\ j \notin {i}
    BY <2>1, GoneKeeps
  <2>5. /\ SingleHand' /\ {cmd[j] : j \in {i}} \subseteq InFlight
        /\ InFlight' = InFlight \ {cmd[j] : j \in {i}}
    BY <2>1, <2>2, <2>3, <2>4, GoneFlight
  <2>6. cmd[i] \in InFlight /\ InFlight' = InFlight \ {cmd[i]} /\ cmd[i] \in Commands
    BY <2>5 DEF InFlight
  <2>7. VictimsAgree'
    BY <2>1, <2>2, <2>3 DEF VictimsAgree, Gone, TypeOK, Results
  <2>8. CASE fate[i] \in Results /\ enqueueBiometricResultLocked(cmd[i], fate[i], ok)
    <3>1. Settles(cmd[i], fate[i])
      BY <2>1, <2>6, <2>8 DEF Settles
    <3> QED BY <2>4, <2>5, <2>6, <2>7, <2>8, <3>1 DEF Moves
  <2>9. CASE reserved' = reserved \ {cmd[i]} /\ UNCHANGED <<outbox, faults>>
    <3>1. Abandons({cmd[i]})
      BY <2>1, <2>6, <2>9 DEF Abandons, outbox, TypeOK
    <3> QED BY <2>4, <2>5, <2>6, <2>7, <3>1 DEF Moves
  <2> QED BY <1>4, <2>8, <2>9 DEF Settle
<1> QED BY <1>1, <1>2, <1>3, <1>4 DEF ObjectStep

LEMMA ShutdownKeeps ==
  ASSUME IInv, TypeOK', shutdownBiometricDelivery
  PROVE  ObjectInv' /\ Moves
<1> USE DEF IInv, ObjectInv
<1> DEFINE S == Obj({"queued", "pending"})
<1>1. /\ closed' /\ phase' = [i \in IDs |-> IF i \in S THEN "detached" ELSE phase[i]]
      /\ fate' = [i \in IDs |-> IF i \in S THEN "closed" ELSE fate[i]]
      /\ UNCHANGED <<cmdID, served, attempts, late, cmd, live, outbox, workers, handlers, ghosts>>
  BY DEF shutdownBiometricDelivery
<1>2. \A i \in IDs : i \in S <=> phase[i] \in {"queued", "pending"}
  BY DEF Obj
<1>3. wpc' = wpc /\ victims' = victims /\ hpc' = hpc /\ hobj' = hobj
  BY <1>1 DEF workers, handlers
<1>4. Obj({"queued", "pending"})' = {} /\ Pending' = {}
  BY <1>1, <1>2 DEF Obj, Pending
<1>5. S \subseteq IDs
  BY DEF Obj
<1> HIDE DEF S
<1>6. FatesAgree' /\ HandlersClaimed'
  BY <1>1, <1>2, <1>3 DEF FatesAgree, HandlersClaimed, TypeOK, None
<1>7. OnePendingPerDevice' /\ ShutdownIsFinal' /\ OneWriterPerObject'
  BY <1>1, <1>3, <1>4 DEF OnePendingPerDevice, ShutdownIsFinal, OneWriterPerObject
<1>8. WritesPrecedeSettlement'
  BY <1>1, <1>3 DEF WritesPrecedeSettlement, TypeOK, None
<1>9. AppliedDeletionWasServed'
  BY <1>1 DEF AppliedDeletionWasServed
<1>10. \A i \in IDs : Active(i)' <=> Active(i) /\ i \notin S
  BY <1>1, <1>2 DEF Active, Outstanding, Obj
<1>11. \A i \in S : Active(i)
  BY <1>2, <1>5 DEF Active, Outstanding, Obj, FatesAgree, None
<1>12. /\ SingleHand' /\ {cmd[i] : i \in S} \subseteq InFlight
       /\ InFlight' = InFlight \ {cmd[i] : i \in S}
  BY <1>1, <1>3, <1>5, <1>10, <1>11, GoneFlight
<1>13. VictimsAgree'
  BY <1>1, <1>2, <1>3 DEF VictimsAgree, TypeOK
<1>14. Abandons({cmd[i] : i \in S}) /\ {cmd[i] : i \in S} \in SUBSET Commands
  <2>1. {cmd[i] : i \in S} \in SUBSET Commands
    BY <1>12 DEF InFlight
  <2> QED BY <1>1, <1>12, <2>1 DEF Abandons, outbox, ghosts
<1> QED BY <1>6, <1>7, <1>8, <1>9, <1>12, <1>13, <1>14 DEF Moves

\* ObjectInv of a process that has just started.
LEMMA FreshKeeps ==
  ASSUME TypeOK', Fresh
  PROVE  ObjectInv' /\ InFlight' = {}
<1>1. \A i \in IDs : phase'[i] = "unused" /\ fate'[i] = None /\ attempts'[i] = 0
  BY DEF Fresh
<1>2. Obj({"queued", "pending"})' = {} /\ Pending' = {}
  BY <1>1 DEF Obj, Pending
<1>3. \A i \in IDs : ~Active(i)'
  BY <1>1 DEF Active, Outstanding, Obj
<1>4. InFlight' = {} /\ SingleHand'
  BY <1>3 DEF InFlight, SingleHand, Fresh
<1>5. FatesAgree' /\ VictimsAgree' /\ HandlersClaimed'
  BY <1>1 DEF FatesAgree, VictimsAgree, HandlersClaimed, Fresh, None
<1>6. OnePendingPerDevice' /\ OneWriterPerObject' /\ ShutdownIsFinal'
  BY <1>1, <1>2, DeliveryAssumption DEF OnePendingPerDevice, OneWriterPerObject, ShutdownIsFinal, Fresh
<1>7. WritesPrecedeSettlement' /\ AppliedDeletionWasServed'
  BY <1>1 DEF WritesPrecedeSettlement, AppliedDeletionWasServed, Fresh, None
<1> QED BY <1>4, <1>5, <1>6, <1>7 DEF ObjectInv

LEMMA InterceptKeeps ==
  ASSUME IInv, TypeOK', NEW c \in Commands, interceptBiometricDeploymentReference(c)
  PROVE  ObjectInv' /\ Moves
<1> USE DEF IInv, ObjectInv
<1>1. /\ wpc[c] = None /\ ~closed /\ c \notin reserved /\ To(c, "start")
      /\ UNCHANGED <<closed, phase, writer, served, attempts, objects, handlers, victims>>
  BY DEF interceptBiometricDeploymentReference
<1>2. c \notin InFlight
  BY <1>1 DEF ReservedExactlyWhileInFlight
<1>3. \A d \in Commands : wpc'[d] = IF d = c THEN "start" ELSE wpc[d]
  BY <1>1 DEF To, TypeOK
<1>4. InFlight' = InFlight \cup {c} /\ SingleHand'
  BY <1>1, <1>2, <1>3, ObjectsSame DEF InFlight, SingleHand, None
<1>5. VictimsAgree'
  BY <1>1, <1>3 DEF VictimsAgree, objects, None
<1>6. Moves
  BY <1>4 DEF Moves
<1> QED BY <1>1, <1>4, <1>5, <1>6, ObjectsSame

LEMMA StepObjects == IInv /\ [Next]_vars => ObjectInv' /\ Moves
<1> SUFFICES ASSUME IInv, [Next]_vars PROVE ObjectInv' /\ Moves
  OBVIOUS
<1>0. TypeOK'
  BY StepTypeOK DEF IInv, ObjectInv
<1>1. ASSUME NEW c \in Commands, OutboxStep(c) PROVE ObjectInv' /\ Moves
  <2>1. UNCHANGED <<closed, phase, writer, served, attempts, objects, handlers, workers>>
    BY <1>1 DEF OutboxStep, FlushHeld, ResultAnswered, disableBiometricResultOutbox, shared
  <2>2. SingleHand' /\ InFlight' = InFlight
    BY <2>1, ObjectsSame, SameFlight DEF IInv, ObjectInv, workers
  <2>3. VictimsAgree'
    BY <2>1 DEF IInv, ObjectInv, VictimsAgree, workers, objects
  <2>4. Moves
    BY <1>1, <2>2 DEF Moves
  <2> QED BY <1>0, <2>1, <2>2, <2>3, <2>4, ObjectsSame DEF IInv, ObjectInv
<1>2. ASSUME NEW i \in IDs, NEW d \in Devices, NEW v \in Results, completeSecretCommand(d, i, v)
      PROVE  ObjectInv' /\ Moves
  <2>1. {i} \in SUBSET Obj({"queued", "pending"}) /\ v \in Fates \ {None, "closed"}
    BY <1>2 DEF completeSecretCommand, Obj, Fates, Results, None
  <2> QED BY <1>2, <2>1, RemovedKeeps DEF completeSecretCommand
<1>3. ASSUME NEW S \in SUBSET Kept(held), Restart(S) PROVE ObjectInv' /\ Moves
  BY <1>0, <1>3, FreshKeeps DEF Restart, Moves
<1>4. CASE UNCHANGED vars
  <2>1. UNCHANGED <<closed, phase, writer, served, attempts, objects, handlers, workers>>
    BY <1>4 DEF vars, objects, handlers, workers
  <2>2. SingleHand' /\ InFlight' = InFlight
    BY <2>1, ObjectsSame, SameFlight DEF IInv, ObjectInv, workers
  <2>3. VictimsAgree'
    BY <2>1 DEF IInv, ObjectInv, VictimsAgree, workers, objects
  <2>4. Moves
    BY <1>4, <2>2, QuietMoves DEF IInv, ObjectInv, vars
  <2> QED BY <1>0, <2>1, <2>2, <2>3, <2>4, ObjectsSame DEF IInv, ObjectInv
<1> QED BY <1>0, <1>1, <1>2, <1>3, <1>4, InterceptKeeps, WorkerKeeps, HandlerKeeps, ObjectKeeps,
           ShutdownKeeps DEF Next

-----------------------------------------------------------------------------
(* Commands: what follows from the moves.                                  *)

\* The outbox of a command in flight.
LEMMA SettlesFacts ==
  ASSUME IInv, NEW c \in Commands, NEW v \in Results, Settles(c, v)
  PROVE  /\ held[c] = None /\ records[c] = None /\ c \notin reported
         /\ \/ records' = [records EXCEPT ![c] = v] /\ held' = held /\ reserved' = reserved \ {c}
            \/ held' = [held EXCEPT ![c] = v] /\ UNCHANGED <<records, reserved>>
<1>1. c \in InFlight /\ held[c] = None /\ records[c] = None /\ c \notin reported
  BY DEF Settles, IInv, OneStage
<1>2. PICK ok \in BOOLEAN : enqueueBiometricResultLocked(c, v, ok)
  BY DEF Settles
<1>3. [held EXCEPT ![c] = None] = held
  BY <1>1 DEF IInv, ObjectInv, TypeOK
<1> QED BY <1>1, <1>2, <1>3 DEF enqueueBiometricResultLocked

LEMMA StepStages == IInv /\ Moves => OneStage' /\ ReservedExactlyWhileInFlight'
<1> SUFFICES ASSUME IInv, Moves PROVE OneStage' /\ ReservedExactlyWhileInFlight'
  OBVIOUS
<1> USE DEF OneStage, ReservedExactlyWhileInFlight, Kept
<1>0. TypeOK /\ OneStage /\ ReservedExactlyWhileInFlight /\ InFlight \subseteq Commands
  BY DEF IInv, ObjectInv, InFlight
<1>1. ASSUME NEW S \in SUBSET Commands, Abandons(S)
      PROVE  OneStage' /\ ReservedExactlyWhileInFlight'
  BY <1>0, <1>1 DEF Abandons
<1>2. ASSUME NEW c \in Commands, NEW v \in Results, Settles(c, v)
      PROVE  OneStage' /\ ReservedExactlyWhileInFlight'
  <2>1. c \in InFlight /\ InFlight' = InFlight \ {c} /\ UNCHANGED <<reported, closed>> /\ v # None
    BY <1>2 DEF Settles, Results, None
  <2>2. CASE records' = [records EXCEPT ![c] = v] /\ held' = held /\ reserved' = reserved \ {c}
    BY <1>0, <1>2, <2>1, <2>2, SettlesFacts DEF TypeOK
  <2>3. CASE held' = [held EXCEPT ![c] = v] /\ UNCHANGED <<records, reserved>>
    BY <1>0, <1>2, <2>1, <2>3, SettlesFacts DEF TypeOK
  <2> QED BY <1>2, <2>2, <2>3, SettlesFacts
<1>3. ASSUME NEW c \in Commands, interceptBiometricDeploymentReference(c), InFlight' = InFlight \cup {c}
      PROVE  OneStage' /\ ReservedExactlyWhileInFlight'
  BY <1>0, <1>3 DEF interceptBiometricDeploymentReference, outbox, TypeOK
<1>4. ASSUME NEW c \in Commands, OutboxStep(c), InFlight' = InFlight
      PROVE  OneStage' /\ ReservedExactlyWhileInFlight'
  <2>1. CASE FlushHeld(c)
    BY <1>0, <1>4, <2>1 DEF FlushHeld, ghosts, TypeOK
  <2>2. CASE ResultAnswered(c)
    BY <1>0, <1>4, <2>2 DEF ResultAnswered, shared, TypeOK
  <2>3. CASE disableBiometricResultOutbox(c)
    BY <1>0, <1>4, <2>3 DEF disableBiometricResultOutbox, shared, ghosts
  <2> QED BY <1>4, <2>1, <2>2, <2>3 DEF OutboxStep
<1>5. ASSUME NEW S \in SUBSET Kept(held), Restart(S), InFlight' = {}
      PROVE  OneStage' /\ ReservedExactlyWhileInFlight'
  BY <1>0, <1>5 DEF Restart, Fresh, TypeOK
<1> QED BY <1>1, <1>2, <1>3, <1>4, <1>5 DEF Moves

LEMMA InitIInv == Init => IInv
<1> SUFFICES ASSUME Init PROVE IInv
  OBVIOUS
<1>1. TypeOK
  <2>1. /\ writer \in [IDs -> BOOLEAN] /\ served \in [IDs -> BOOLEAN] /\ closed \in BOOLEAN
        /\ late \in [IDs -> BOOLEAN] /\ live \in [IDs -> BOOLEAN]
    BY DEF Init
  <2>2. /\ reserved \subseteq Commands /\ cmdID \in 0..MaxID
        /\ phase \in [IDs -> Phases] /\ fate \in [IDs -> Fates]
        /\ attempts \in [IDs -> 0..MaxServeAttempts] /\ cmd \in [IDs -> Commands \cup {None}]
        /\ \A i \in IDs : /\ phase[i] # "unused" <=> i <= cmdID
                          /\ phase[i] # "unused" <=> cmd[i] # None
    BY DeliveryAssumption DEF Init, Phases, Fates, IDs
  <2> QED BY <2>1, <2>2, DeliveryAssumption DEF Init, TypeOK, WPCs, HPCs
<1>2. \A i \in IDs : phase[i] = "unused" /\ fate[i] = None
  BY DEF Init
<1>3. Obj({"queued", "pending"}) = {} /\ Pending = {} /\ \A i \in IDs : ~Active(i)
  BY <1>2 DEF Obj, Pending, Active, Outstanding
<1>4. InFlight = {} /\ SingleHand
  BY <1>3 DEF InFlight, SingleHand, Init
<1>5. FatesAgree /\ VictimsAgree /\ HandlersClaimed
  BY <1>2 DEF FatesAgree, VictimsAgree, HandlersClaimed, Init, None
<1>6. OnePendingPerDevice /\ OneWriterPerObject /\ ShutdownIsFinal
  BY <1>1, <1>3, DeliveryAssumption DEF OnePendingPerDevice, OneWriterPerObject, ShutdownIsFinal, Init
<1>7. WritesPrecedeSettlement /\ AppliedDeletionWasServed
  BY <1>2 DEF WritesPrecedeSettlement, AppliedDeletionWasServed, Init, None
<1>8. OneStage /\ ReservedExactlyWhileInFlight
  BY <1>4 DEF OneStage, ReservedExactlyWhileInFlight, Kept, Init
<1> QED BY <1>1, <1>4, <1>5, <1>6, <1>7, <1>8 DEF IInv, ObjectInv

\* IInv holds in every state.
LEMMA Invariance == Spec => []IInv
<1>1. IInv /\ [Next]_vars => IInv'
  BY StepObjects, StepStages DEF IInv
<1> QED BY <1>1, InitIInv, PTL DEF Spec

-----------------------------------------------------------------------------
\* The types are right.
THEOREM TypeCorrect == Spec => []TypeOK
<1>1. IInv => TypeOK
  BY DEF IInv, ObjectInv
<1> QED BY <1>1, Invariance, PTL

\* secretCmdID has an id exactly while somebody still has to deal with it
\* (biometric_delivery.go): redelivery starts no second delivery, and none of the
\* ways a delivery ends leaks a reservation.
THEOREM NoReservationIsEarlyOrLeaked == Spec => []ReservedExactlyWhileInFlight
<1>1. IInv => ReservedExactlyWhileInFlight
  BY DEF IInv
<1> QED BY <1>1, Invariance, PTL

\* Whichever of answer, deadline, supersession, failure and shutdown takes the
\* object away decides alone: no command is in two hands.
THEOREM OneOutcomePerCommand == Spec => []OneHandPerCommand
<1>1. IInv => OneHandPerCommand
  BY DEF IInv, ObjectInv, SingleHand, OneStage, OneHandPerCommand
<1> QED BY <1>1, Invariance, PTL

\* claimSecretCommandWriter gives a scanner one secret command at a time ...
THEOREM OneCommandAtAScanner == Spec => []OnePendingPerDevice
<1>1. IInv => OnePendingPerDevice
  BY DEF IInv, ObjectInv
<1> QED BY <1>1, Invariance, PTL

\* ... and an object to one handler, maxSecretCommandServeAttempts times.
THEOREM OneHandlerAtAnObject == Spec => []OneWriterPerObject
<1>1. IInv => OneWriterPerObject
  BY DEF IInv, ObjectInv
<1> QED BY <1>1, Invariance, PTL

\* zeroPayload, which waits for payloadMu, and the order of zeroing and settling:
\* no bytes are written that are being zeroed, or after the command is settled.
THEOREM NoWriteAfterSettlement == Spec => []WritesPrecedeSettlement
<1>1. IInv => WritesPrecedeSettlement
  BY DEF IInv, ObjectInv
<1> QED BY <1>1, Invariance, PTL

\* shutdownBiometricDelivery leaves nothing to serve, and no worker adds to it.
THEOREM NothingServedAfterShutdown == Spec => []ShutdownIsFinal
<1>1. IInv => ShutdownIsFinal
  BY DEF IInv, ObjectInv
<1> QED BY <1>1, Invariance, PTL

\* What the bytes that were written have to do with the results.  A served object
\* is not forgotten yet and its bytes were written to the end, and so were those
\* of a pending object that is about to be marked.
WrittenInv ==
  /\ \A i \in IDs : served[i] => phase[i] \in {"pending", "detached", "zeroed"} /\ cmd[i] \in written
  /\ \A i \in IDs : fate[i] = "closed" => closed
  /\ \A h \in Handlers : hpc[h] = "mark" /\ phase[hobj[h]] = "pending" => cmd[hobj[h]] \in written
  /\ AppliedDeletionWasWritten

\* Steps that serve no object and give no deletion the result applied.
LEMMA WrittenSame ==
  ASSUME WrittenInv, TypeOK, written \subseteq written', closed => closed',
         \A i \in IDs : served'[i] => /\ served[i] /\ cmd'[i] = cmd[i]
                                     /\ phase'[i] \in {"pending", "detached", "zeroed"},
         \A i \in IDs : fate'[i] = "closed" => fate[i] = "closed" \/ closed',
         \A h \in Handlers : hpc'[h] = "mark" /\ phase'[hobj'[h]] = "pending" =>
                             \/ cmd'[hobj'[h]] \in written'
                             \/ /\ hpc[h] = "mark" /\ hobj'[h] = hobj[h]
                                /\ phase[hobj[h]] = "pending" /\ cmd'[hobj[h]] = cmd[hobj[h]],
         \A c \in Commands : "applied" \in {held'[c], records'[c]} => "applied" \in {held[c], records[c]}
  PROVE  WrittenInv'
<1>1. \A i \in IDs : served'[i] => phase'[i] \in {"pending", "detached", "zeroed"} /\ cmd'[i] \in written'
  BY DEF WrittenInv
<1>2. \A i \in IDs : fate'[i] = "closed" => closed'
  BY DEF WrittenInv
<1>3. \A h \in Handlers : hpc'[h] = "mark" /\ phase'[hobj'[h]] = "pending" => cmd'[hobj'[h]] \in written'
  BY DEF WrittenInv
<1>4. AppliedDeletionWasWritten'
  BY DeliveryAssumption DEF WrittenInv, AppliedDeletionWasWritten
<1> QED BY <1>1, <1>2, <1>3, <1>4 DEF WrittenInv

\* Objects are detached, perhaps by a handler that ends.
LEMMA DetachWritten ==
  ASSUME WrittenInv, TypeOK, NEW S, NEW f \in Fates \ {"closed"}, Detach(S, f),
         UNCHANGED <<outbox, ghosts>>,
         UNCHANGED handlers \/ \E h \in Handlers : HTo(h, None)
  PROVE  WrittenInv'
<1>1. /\ \A i \in IDs : phase'[i] = IF i \in S THEN "detached" ELSE phase[i]
      /\ \A i \in IDs : fate'[i] = IF i \in S THEN f ELSE fate[i]
      /\ served' = served /\ cmd' = cmd /\ closed' = closed
      /\ written' = written /\ held' = held /\ records' = records
  BY DEF Detach, outbox, ghosts
<1>2. \A h \in Handlers : hpc'[h] = "mark" => hpc[h] = "mark" /\ hobj'[h] = hobj[h] /\ hobj[h] \in IDs
  BY DEF handlers, HTo, TypeOK, None
<1>3. \A h \in Handlers : hpc'[h] = "mark" /\ phase'[hobj'[h]] = "pending" => phase[hobj[h]] = "pending"
  BY <1>1, <1>2
<1>4. \A i \in IDs : served'[i] => phase'[i] \in {"pending", "detached", "zeroed"}
  BY <1>1 DEF WrittenInv
<1> QED BY <1>1, <1>2, <1>3, <1>4, WrittenSame

\* Objects are forgotten.
LEMMA GoneWritten ==
  ASSUME WrittenInv, TypeOK, NEW S, Gone(S), UNCHANGED <<closed, cmd, handlers, written>>,
         \A c \in Commands : "applied" \in {held'[c], records'[c]} => "applied" \in {held[c], records[c]}
  PROVE  WrittenInv'
<1>1. /\ \A i \in IDs : phase'[i] = IF i \in S THEN "gone" ELSE phase[i]
      /\ \A i \in IDs : fate'[i] = IF i \in S THEN None ELSE fate[i]
      /\ \A i \in IDs : served'[i] = IF i \in S THEN FALSE ELSE served[i]
      /\ cmd' = cmd /\ closed' = closed /\ written' = written
  BY DEF Gone
<1>2. hpc' = hpc /\ hobj' = hobj /\ \A h \in Handlers : hpc[h] = "mark" => hobj[h] \in IDs
  BY DEF handlers, TypeOK, None
<1>3. \A h \in Handlers : hpc'[h] = "mark" /\ phase'[hobj'[h]] = "pending" => phase[hobj[h]] = "pending"
  BY <1>1, <1>2
<1>4. \A i \in IDs : served'[i] => served[i] /\ phase'[i] \in {"pending", "detached", "zeroed"}
  BY <1>1 DEF WrittenInv
<1>5. \A i \in IDs : fate'[i] = "closed" => fate[i] = "closed" \/ closed'
  BY <1>1 DEF None
<1> QED BY <1>1, <1>2, <1>3, <1>4, <1>5, WrittenSame

\* No object changes.
LEMMA QuietWritten ==
  ASSUME WrittenInv, TypeOK, UNCHANGED <<closed, phase, served, cmd, fate, handlers, written>>,
         \A c \in Commands : "applied" \in {held'[c], records'[c]} => "applied" \in {held[c], records[c]}
  PROVE  WrittenInv'
<1>1. hpc' = hpc /\ hobj' = hobj
  BY DEF handlers
<1>2. \A i \in IDs : served'[i] => phase'[i] \in {"pending", "detached", "zeroed"}
  BY DEF WrittenInv
<1> QED BY <1>1, <1>2, WrittenSame

\* A handler goes on to something that is not "mark", or ends.
LEMMA HandlerWritten ==
  ASSUME WrittenInv, TypeOK, NEW h \in Handlers, NEW p, p # "mark", HTo(h, p),
         UNCHANGED <<closed, phase, served, objects, outbox, written>>
  PROVE  WrittenInv'
<1>1. \A g \in Handlers : hpc'[g] = "mark" => hpc[g] = "mark" /\ hobj'[g] = hobj[g]
  BY DEF HTo, TypeOK, None
<1>2. \A i \in IDs : served'[i] => phase'[i] \in {"pending", "detached", "zeroed"}
  BY DEF WrittenInv
<1> QED BY <1>1, <1>2, WrittenSame DEF objects, outbox

\* A claimed object is one that is not served, or one that is pending already.
LEMMA ClaimWritten ==
  ASSUME WrittenInv, TypeOK, HandlersClaimed, NEW h \in Handlers, NEW i \in IDs, phase[i] \in {"queued", "pending"},
         phase' = [phase EXCEPT ![i] = "pending"], hpc' = [hpc EXCEPT ![h] = "compat"],
         hobj' = [hobj EXCEPT ![h] = i],
         UNCHANGED <<closed, served, objects, outbox, ghosts>>
  PROVE  WrittenInv'
<1>1. \A g \in Handlers : hpc'[g] = "mark" => g # h /\ hpc[g] = "mark" /\ hobj'[g] = hobj[g]
  BY DEF TypeOK
<1>2. \A j \in IDs : phase'[j] = IF j = i THEN "pending" ELSE phase[j]
  BY DEF TypeOK
<1>3. \A g \in Handlers : hpc[g] = "mark" => hobj[g] \in IDs /\ phase[hobj[g]] # "queued"
  BY DEF TypeOK, HandlersClaimed, None
<1>4. \A g \in Handlers : hpc'[g] = "mark" /\ phase'[hobj'[g]] = "pending" => phase[hobj[g]] = "pending"
  BY <1>1, <1>2, <1>3
<1>5. \A j \in IDs : served'[j] => phase'[j] \in {"pending", "detached", "zeroed"}
  BY <1>2 DEF WrittenInv
<1> QED BY <1>1, <1>4, <1>5, WrittenSame DEF objects, outbox, ghosts

LEMMA HandlersWritten ==
  ASSUME IInv, WrittenInv, NEW h \in Handlers,
         HandlerStep(h) \/ \E d \in Devices : ClaimAgain(h, d) \/ ClaimFirst(h, d)
  PROVE  WrittenInv'
<1>0. TypeOK /\ HandlersClaimed
  BY DEF IInv, ObjectInv
<1>1. ASSUME NEW f \in {"failed", "release"}, TakeAway(h, f) PROVE WrittenInv'
  BY <1>0, <1>1, DetachWritten DEF TakeAway, Removed, Fates, Results
<1>2. ASSUME NEW p, p # "mark", GoOn(h, p) PROVE WrittenInv'
  BY <1>0, <1>2, HandlerWritten DEF GoOn, shared, ghosts
<1>3. ASSUME releaseSecretCommandWriter(h) PROVE WrittenInv'
  BY <1>0, <1>3, HandlerWritten DEF releaseSecretCommandWriter, ghosts, None
<1>4. CASE Compat(h)
  BY <1>1, <1>2, <1>4 DEF Compat
<1>5. CASE ServeRecheck(h)
  BY <1>1, <1>2, <1>3, <1>5 DEF ServeRecheck
<1>6. CASE Pin(h)
  <2>1. CASE GoOn(h, None) \/ releaseSecretCommandWriter(h)
    BY <1>2, <1>3, <2>1 DEF None
  <2>2. CASE HTo(h, "writing") /\ UNCHANGED <<shared, outbox, objects, written>>
    BY <1>0, <2>2, HandlerWritten DEF shared
  <2> QED BY <1>6, <2>1, <2>2 DEF Pin
<1>7. CASE Write(h)
  <2>1. PICK p \in {"mark", "fail", "drop"} :
          HTo(h, p) /\ written' = IF p = "mark" THEN written \cup {cmd[hobj[h]]} ELSE written
    BY <1>7 DEF Write
  <2>2. UNCHANGED <<closed, phase, served, objects, outbox>>
    BY <1>7 DEF Write, shared
  <2>3. CASE p # "mark"
    BY <1>0, <2>1, <2>2, <2>3, HandlerWritten
  <2>4. CASE p = "mark"
    <3>1. \A g \in Handlers : hpc'[g] = "mark" => g = h \/ (hpc[g] = "mark" /\ hobj'[g] = hobj[g])
      BY <1>0, <2>1 DEF HTo, TypeOK
    <3>2. hobj'[h] = hobj[h] /\ cmd[hobj[h]] \in written' /\ written \subseteq written'
      BY <1>0, <2>1, <2>4 DEF HTo, TypeOK, None
    <3>3. \A i \in IDs : served'[i] => phase'[i] \in {"pending", "detached", "zeroed"}
      BY <2>2 DEF WrittenInv
    <3> QED BY <1>0, <2>2, <3>1, <3>2, <3>3, WrittenSame DEF objects, outbox
  <2> QED BY <2>3, <2>4
<1>8. CASE AfterWrite(h)
  <2>1. CASE hpc[h] = "mark"
    <3>1. /\ served' = [served EXCEPT ![hobj[h]] = @ \/ phase[hobj[h]] = "pending"] /\ HTo(h, None)
          /\ UNCHANGED <<closed, phase, outbox, objects, ghosts>>
      BY <1>8, <2>1 DEF AfterWrite
    <3>2. hobj[h] \in IDs
      BY <1>0, <2>1 DEF TypeOK, None
    <3>3. \A i \in IDs : served'[i] <=> served[i] \/ (i = hobj[h] /\ phase[i] = "pending")
      BY <1>0, <3>1, <3>2 DEF TypeOK
    <3>4. \A g \in Handlers : hpc'[g] = "mark" => hpc[g] = "mark" /\ hobj'[g] = hobj[g]
      BY <1>0, <3>1 DEF HTo, TypeOK, None
    <3>5. /\ cmd' = cmd /\ fate' = fate /\ written' = written /\ phase' = phase /\ closed' = closed
          /\ held' = held /\ records' = records
      BY <3>1 DEF objects, outbox, ghosts
    <3>6. \A i \in IDs : served'[i] => phase[i] \in {"pending", "detached", "zeroed"} /\ cmd[i] \in written
      BY <2>1, <3>3 DEF WrittenInv
    <3> QED BY <3>4, <3>5, <3>6 DEF WrittenInv, AppliedDeletionWasWritten
  <2> QED BY <1>1, <1>3, <1>8, <2>1 DEF AfterWrite
<1>9. ASSUME NEW d \in Devices, ClaimAgain(h, d) PROVE WrittenInv'
  <2>1. PICK i \in PendingAt(d) :
          IF attempts[i] >= MaxServeAttempts \/ late[i]
            THEN Removed({i}, "failed") /\ UNCHANGED handlers
            ELSE /\ hpc' = [hpc EXCEPT ![h] = "compat"]
                 /\ hobj' = [hobj EXCEPT ![h] = i]
                 /\ UNCHANGED <<closed, phase, served, outbox, objects, ghosts>>
    BY <1>9 DEF ClaimAgain
  <2>2. i \in IDs /\ phase[i] = "pending" /\ [phase EXCEPT ![i] = "pending"] = phase
    BY <1>0 DEF PendingAt, Pending, Obj, TypeOK
  <2>3. CASE Removed({i}, "failed") /\ UNCHANGED handlers
    BY <1>0, <2>3, DetachWritten DEF Removed, Fates, Results
  <2> QED BY <1>0, <2>1, <2>2, <2>3, ClaimWritten
<1>10. ASSUME NEW d \in Devices, ClaimFirst(h, d) PROVE WrittenInv'
  <2>1. PICK i \in QueuedAt(d) :
             /\ phase' = [phase EXCEPT ![i] = "pending"]
             /\ hpc' = [hpc EXCEPT ![h] = "compat"]
             /\ hobj' = [hobj EXCEPT ![h] = i]
    BY <1>10 DEF ClaimFirst
  <2>2. i \in IDs /\ phase[i] = "queued" /\ UNCHANGED <<closed, served, outbox, objects, ghosts>>
    BY <1>10 DEF ClaimFirst, QueuedAt, Obj
  <2> QED BY <1>0, <2>1, <2>2, ClaimWritten
<1> QED BY <1>4, <1>5, <1>6, <1>7, <1>8, <1>9, <1>10 DEF HandlerStep

\* A result other than applied makes no deletion applied.
LEMMA FailedWritten ==
  ASSUME TypeOK, NEW c \in Commands, NEW v \in Results, v # "applied", NEW ok \in BOOLEAN,
         enqueueBiometricResultLocked(c, v, ok)
  PROVE  \A d \in Commands : "applied" \in {held'[d], records'[d]} => "applied" \in {held[d], records[d]}
BY DEF enqueueBiometricResultLocked, TypeOK, None

LEMMA WorkersWritten ==
  ASSUME IInv, WrittenInv, NEW c \in Commands, WorkerStep(c)
  PROVE  WrittenInv'
<1>0. TypeOK /\ HandlersClaimed
  BY DEF IInv, ObjectInv
<1>1. ASSUME NEW p, NEW q, Step(c, p, q) PROVE WrittenInv'
  BY <1>0, <1>1, QuietWritten DEF Step, shared, outbox, objects, ghosts
<1>2. CASE Start(c) \/ \E b \in BOOLEAN : claimBiometricDeployment(c, b) \/ claimBiometricDeletion(c, b)
  BY <1>1, <1>2 DEF Start, claimBiometricDeployment, claimBiometricDeletion
<1>3. CASE \/ fetchBiometricDeploymentPayload(c) \/ renderBiometricDeploymentCommand(c)
           \/ renderBiometricDeletionCommand(c)
  BY <1>1, <1>3 DEF fetchBiometricDeploymentPayload, renderBiometricDeploymentCommand,
                    renderBiometricDeletionCommand, Attempt
<1>4. CASE supersedeSecretDeployment(c)
  <2>1. "superseded" \in Fates \ {"closed"}
    BY DEF Fates
  <2> QED BY <1>0, <1>4, <2>1, DetachWritten DEF supersedeSecretDeployment
<1>5. CASE SupersedeRelease(c)
  BY <1>0, <1>5, GoneWritten DEF SupersedeRelease, outbox, ghosts
<1>6. CASE enqueueSecretCommand(c)
  <2>0. UNCHANGED <<closed, served, outbox, handlers, ghosts>>
    BY <1>6 DEF enqueueSecretCommand
  <2>1. CASE UNCHANGED <<phase, objects>>
    BY <1>0, <2>0, <2>1, QuietWritten DEF objects, outbox, ghosts
  <2>2. CASE ~UNCHANGED <<phase, objects>>
    <3> DEFINE n == cmdID'
    <3>1. /\ cmdID < MaxID /\ n = cmdID + 1 /\ UNCHANGED fate
          /\ phase' = [phase EXCEPT ![n] = "queued"] /\ cmd' = [cmd EXCEPT ![n] = c]
      BY <1>6, <2>2 DEF enqueueSecretCommand, objects
    <3>2. n \in IDs /\ ~(n <= cmdID)
      BY <1>0, <3>1, DeliveryAssumption DEF TypeOK, IDs
    <3>3. phase[n] = "unused"
      BY <1>0, <3>2 DEF TypeOK
    <3> HIDE DEF n
    <3>4. \A i \in IDs : i # n => phase'[i] = phase[i] /\ cmd'[i] = cmd[i]
      BY <1>0, <3>1 DEF TypeOK
    <3>5. hpc' = hpc /\ hobj' = hobj /\ \A h \in Handlers : hpc[h] = "mark" => hobj[h] \in IDs \ {n}
      BY <1>0, <2>0, <3>3 DEF handlers, HandlersClaimed, TypeOK, None
    <3>6. \A i \in IDs : served'[i] => i # n /\ served[i] /\ phase[i] \in {"pending", "detached", "zeroed"}
      BY <2>0, <3>3 DEF WrittenInv
    <3>7. written' = written /\ closed' = closed /\ held' = held /\ records' = records
      BY <2>0 DEF outbox, ghosts
    <3> QED BY <1>0, <3>1, <3>4, <3>5, <3>6, <3>7, WrittenSame
  <2> QED BY <2>1, <2>2
<1>7. ASSUME NEW ok \in BOOLEAN, Report(c, ok) PROVE WrittenInv'
  <2>1. \A d \in Commands : "applied" \in {held'[d], records'[d]} => "applied" \in {held[d], records[d]}
    BY <1>0, <1>7, FailedWritten DEF Report, Results
  <2> QED BY <1>0, <1>7, <2>1, QuietWritten DEF Report, objects
<1>8. CASE releaseSecretCommand(c)
  BY <1>0, <1>8, QuietWritten DEF releaseSecretCommand, objects, outbox, ghosts
<1> QED BY <1>2, <1>3, <1>4, <1>5, <1>6, <1>7, <1>8 DEF WorkerStep

LEMMA ObjectsWritten ==
  ASSUME IInv, WrittenInv, NEW i \in IDs, ObjectStep(i)
  PROVE  WrittenInv'
<1>0. TypeOK
  BY DEF IInv, ObjectInv
<1>1. CASE zeroPayload(i)
  <2>1. UNCHANGED <<closed, cmd, outbox, handlers, ghosts>> /\ phase[i] = "detached"
    BY <1>1 DEF zeroPayload
  <2>2. CASE fate[i] = "closed"
    BY <1>0, <1>1, <2>1, <2>2, GoneWritten DEF zeroPayload, outbox, ghosts
  <2>3. CASE fate[i] # "closed"
    <3>1. phase' = [phase EXCEPT ![i] = "zeroed"] /\ served' = served /\ fate' = fate
      BY <1>1, <2>3 DEF zeroPayload
    <3>2. \A j \in IDs : phase'[j] = IF j = i THEN "zeroed" ELSE phase[j]
      BY <1>0, <3>1 DEF TypeOK
    <3>3. hpc' = hpc /\ hobj' = hobj /\ \A h \in Handlers : hpc[h] = "mark" => hobj[h] \in IDs
      BY <1>0, <2>1 DEF handlers, TypeOK, None
    <3>4. \A j \in IDs : served'[j] => phase'[j] \in {"pending", "detached", "zeroed"}
      BY <3>1, <3>2 DEF WrittenInv
    <3> QED BY <1>0, <2>1, <3>1, <3>2, <3>3, <3>4, WrittenSame DEF outbox, ghosts
  <2> QED BY <2>2, <2>3
<1>2. CASE DeadlinePasses(i)
  BY <1>0, <1>2, QuietWritten DEF DeadlinePasses, objects, outbox, ghosts
<1>3. CASE expirePendingSecretCommand(i) \/ expireQueuedDeleteCommand(i)
  BY <1>0, <1>3, DetachWritten
     DEF expirePendingSecretCommand, expireQueuedDeleteCommand, Removed, Fates, Results
<1>4. ASSUME NEW ok \in BOOLEAN, Settle(i, ok) PROVE WrittenInv'
  <2>1. phase[i] = "zeroed" /\ Gone({i}) /\ UNCHANGED <<closed, cmd, handlers, written>>
        /\ cmd[i] \in Commands
    BY <1>0, <1>4 DEF Settle, TypeOK
  <2>2. CASE UNCHANGED outbox
    BY <1>0, <2>1, <2>2, GoneWritten DEF outbox
  <2>3. CASE fate[i] \in Results \ {"applied"} /\ enqueueBiometricResultLocked(cmd[i], fate[i], ok)
    BY <1>0, <2>1, <2>3, GoneWritten, FailedWritten
  <2>4. CASE fate[i] = "applied" /\ enqueueBiometricResultLocked(cmd[i], "applied", ok)
    \* The same, and the command, if it is a deletion, was served.
    <3>1. cmd[i] \in Deletes => cmd[i] \in written
      BY <2>4 DEF WrittenInv, IInv, ObjectInv, AppliedDeletionWasServed
    <3>2. \A d \in Commands \ {cmd[i]} : held'[d] = held[d] /\ records'[d] = records[d]
      BY <1>0, <2>4 DEF enqueueBiometricResultLocked, TypeOK
    <3>3. AppliedDeletionWasWritten'
      BY <2>1, <3>1, <3>2, DeliveryAssumption DEF WrittenInv, AppliedDeletionWasWritten
    <3>4. \A j \in IDs : /\ phase'[j] = IF j = i THEN "gone" ELSE phase[j]
                         /\ fate'[j] = IF j = i THEN None ELSE fate[j]
                         /\ served'[j] = IF j = i THEN FALSE ELSE served[j]
      BY <2>1 DEF Gone
    <3>5. hpc' = hpc /\ hobj' = hobj /\ \A h \in Handlers : hpc[h] = "mark" => hobj[h] \in IDs
      BY <1>0, <2>1 DEF handlers, TypeOK, None
    <3>6. \A h \in Handlers : hpc'[h] = "mark" /\ phase'[hobj'[h]] = "pending" => cmd'[hobj'[h]] \in written'
      BY <2>1, <3>4, <3>5 DEF WrittenInv
    <3> QED BY <2>1, <3>3, <3>4, <3>6 DEF WrittenInv, None
  <2> QED BY <1>4, <2>2, <2>3, <2>4 DEF Settle
<1> QED BY <1>1, <1>2, <1>3, <1>4 DEF ObjectStep

LEMMA StepWritten == IInv /\ WrittenInv /\ [Next]_vars => WrittenInv'
<1> SUFFICES ASSUME IInv, WrittenInv, [Next]_vars PROVE WrittenInv'
  OBVIOUS
<1>0. TypeOK /\ HandlersClaimed
  BY DEF IInv, ObjectInv
<1>1. ASSUME NEW c \in Commands, interceptBiometricDeploymentReference(c) PROVE WrittenInv'
  \* No object of a command that is taken in is left, and the cloud has its result.
  <2>1. /\ ~closed /\ c \notin reserved /\ records[c] = None /\ written' = written \ {c}
        /\ UNCHANGED <<closed, phase, served, outbox, objects, handlers>>
    BY <1>1 DEF interceptBiometricDeploymentReference
  <2>2. c \notin InFlight /\ held[c] = None
    BY <2>1 DEF IInv, ReservedExactlyWhileInFlight, Kept
  <2>3. \A i \in IDs : phase[i] \in {"pending", "detached", "zeroed"} => cmd[i] # c
    BY <2>1, <2>2 DEF WrittenInv, InFlight, Active, Outstanding, Obj
  <2>4. \A h \in Handlers : hpc[h] = "mark" => hobj[h] \in IDs
    BY <1>0 DEF TypeOK, None
  <2>5. phase' = phase /\ served' = served /\ cmd' = cmd /\ fate' = fate /\ hpc' = hpc /\ hobj' = hobj
        /\ held' = held /\ records' = records
    BY <2>1 DEF objects, outbox, handlers
  <2>6. AppliedDeletionWasWritten'
    BY <2>1, <2>2, <2>5 DEF WrittenInv, AppliedDeletionWasWritten, None
  <2> QED BY <2>1, <2>3, <2>4, <2>5, <2>6 DEF WrittenInv
<1>2. ASSUME NEW c \in Commands, OutboxStep(c) PROVE WrittenInv'
  <2>1. UNCHANGED <<closed, phase, served, objects, handlers, written>>
    BY <1>2 DEF OutboxStep, FlushHeld, ResultAnswered, disableBiometricResultOutbox, shared, ghosts
  <2>2. \A d \in Commands : "applied" \in {held'[d], records'[d]} => "applied" \in {held[d], records[d]}
    BY <1>0, <1>2 DEF OutboxStep, FlushHeld, ResultAnswered, disableBiometricResultOutbox, TypeOK, None
  <2> QED BY <1>0, <2>1, <2>2, QuietWritten DEF objects
<1>3. ASSUME NEW i \in IDs, NEW d \in Devices, NEW v \in Results, completeSecretCommand(d, i, v)
      PROVE  WrittenInv'
  BY <1>0, <1>3, DetachWritten DEF completeSecretCommand, Removed, Fates, Results
<1>4. CASE shutdownBiometricDelivery
  <2>1. closed' /\ UNCHANGED <<served, cmd, outbox, handlers, ghosts>>
    BY <1>4 DEF shutdownBiometricDelivery
  <2>2. \A i \in IDs : phase'[i] = IF i \in Obj({"queued", "pending"}) THEN "detached" ELSE phase[i]
    BY <1>4 DEF shutdownBiometricDelivery
  <2>3. hpc' = hpc /\ hobj' = hobj /\ \A h \in Handlers : hpc[h] = "mark" => hobj[h] \in IDs
    BY <1>0, <2>1 DEF handlers, TypeOK, None
  <2>4. \A i \in IDs : served'[i] => served[i] /\ phase'[i] \in {"pending", "detached", "zeroed"}
    BY <2>1, <2>2 DEF WrittenInv
  <2>5. \A h \in Handlers : hpc'[h] = "mark" /\ phase'[hobj'[h]] = "pending" => phase[hobj[h]] = "pending"
    BY <2>2, <2>3
  <2> QED BY <1>0, <2>1, <2>3, <2>4, <2>5, WrittenSame DEF outbox, ghosts
<1>5. ASSUME NEW S \in SUBSET Kept(held), Restart(S) PROVE WrittenInv'
  <2>1. /\ \A i \in IDs : served'[i] = FALSE /\ fate'[i] = None
        /\ \A h \in Handlers : hpc'[h] = None
        /\ \A c \in Commands : held'[c] = None /\ records'[c] \in {held[c], records[c]}
        /\ written' = written
    BY <1>5 DEF Restart, Fresh
  <2>2. AppliedDeletionWasWritten'
    BY <2>1, DeliveryAssumption DEF WrittenInv, AppliedDeletionWasWritten, None
  <2> QED BY <2>1, <2>2 DEF WrittenInv, None
<1>6. CASE UNCHANGED vars
  BY <1>0, <1>6, QuietWritten DEF vars, handlers
<1> QED BY <1>1, <1>2, <1>3, <1>4, <1>5, <1>6, WorkersWritten, HandlersWritten, ObjectsWritten DEF Next

\* markSecretCommandServed and completeSecretCommand (biometric_delivery.go): the
\* cloud hears of an applied deletion only when its bytes were written to the
\* end since the command was last taken in.
THEOREM DeletionsAppliedWereWritten == Spec => []AppliedDeletionWasWritten
<1>1. Init => WrittenInv
  BY DeliveryAssumption DEF Init, WrittenInv, AppliedDeletionWasWritten, None
<1>2. WrittenInv => AppliedDeletionWasWritten
  BY DEF WrittenInv
<1> QED BY <1>1, <1>2, StepWritten, Invariance, PTL DEF Spec


-----------------------------------------------------------------------------
(* The refinement.                                                         *)

stage == [c \in Commands |-> stageOf(c)]
value == [c \in Commands |-> valueOf(c)]

\* The stage of a command tells where it is, and the other way round.
StagesTold ==
  \A c \in Commands :
    /\ stage[c] = stageOf(c) /\ value[c] = valueOf(c)
    /\ stageOf(c) \in {"inflight", "held", "durable", "reported", "idle"}
    /\ stageOf(c) = "inflight" <=> c \in InFlight
    /\ stageOf(c) = "held" <=> held[c] # None
    /\ stageOf(c) = "durable" <=> records[c] # None
    /\ stageOf(c) = "reported" <=> c \in reported
    /\ valueOf(c) = IF held[c] # None THEN held[c]
                    ELSE IF records[c] # None THEN records[c] ELSE None

LEMMA StagesAreTold == OneStage => StagesTold
<1> SUFFICES ASSUME OneStage, NEW c \in Commands
             PROVE  /\ stageOf(c) \in {"inflight", "held", "durable", "reported", "idle"}
                    /\ stageOf(c) = "inflight" <=> c \in InFlight
                    /\ stageOf(c) = "held" <=> held[c] # None
                    /\ stageOf(c) = "durable" <=> records[c] # None
                    /\ stageOf(c) = "reported" <=> c \in reported
                    /\ valueOf(c) = IF held[c] # None THEN held[c]
                                    ELSE IF records[c] # None THEN records[c] ELSE None
  BY DEF StagesTold, stage, value
<1>1. CASE c \in InFlight
  <2>1. stageOf(c) = "inflight"
    BY <1>1 DEF stageOf, OneStage
  <2> QED BY <1>1, <2>1 DEF valueOf, OneStage
<1>2. CASE held[c] # None
  <2>1. c \notin InFlight /\ records[c] = None /\ c \notin reported
    BY <1>2 DEF OneStage
  <2>2. stageOf(c) = "held"
    BY <1>2, <2>1 DEF stageOf
  <2> QED BY <1>2, <2>1, <2>2 DEF valueOf
<1>3. CASE records[c] # None
  <2>1. c \notin InFlight /\ held[c] = None /\ c \notin reported
    BY <1>3 DEF OneStage
  <2>2. stageOf(c) = "durable"
    BY <1>3, <2>1 DEF stageOf
  <2> QED BY <1>3, <2>1, <2>2 DEF valueOf
<1>4. CASE c \notin InFlight /\ held[c] = None /\ records[c] = None
  <2>1. stageOf(c) = IF c \in reported THEN "reported" ELSE "idle"
    BY <1>4 DEF stageOf
  <2> QED BY <1>4, <2>1 DEF valueOf
<1> QED BY <1>1, <1>2, <1>3, <1>4

\* Every move is a step of the ledger.
LEMMA MovesAreLedgerSteps == IInv /\ Moves /\ IInv' => [Ledger!Next]_Ledger!vars
<1> SUFFICES ASSUME IInv, Moves, IInv' PROVE [Ledger!Next]_Ledger!vars
  OBVIOUS
<1>0. StagesTold
  BY StagesAreTold DEF IInv
<1>00. StagesTold'
  <2>1. (OneStage => StagesTold)'
    BY StagesAreTold, PTL
  <2> QED BY <2>1 DEF IInv
<1>000. TypeOK /\ OneStage /\ ReservedExactlyWhileInFlight
  BY DEF IInv, ObjectInv
<1>1. ASSUME NEW S \in SUBSET Commands, Abandons(S) PROVE Ledger!AbandonAll(S)
  <2>1. S \subseteq {c \in Commands : stage[c] \in {"inflight"}}
    BY <1>0, <1>1 DEF Abandons, StagesTold
  <2>2. \A c \in Commands : stage'[c] = IF c \in S THEN "idle" ELSE stage[c]
    BY <1>0, <1>00, <1>000, <1>1 DEF Abandons, StagesTold, OneStage
  <2>3. \A c \in Commands : value'[c] = value[c]
    BY <1>0, <1>00, <1>1 DEF Abandons, StagesTold
  <2> QED BY <2>1, <2>2, <2>3 DEF Ledger!AbandonAll, Ledger!In, stage, value
<1>2. ASSUME NEW c \in Commands, NEW v \in Results, Settles(c, v)
      PROVE  Ledger!Commit(c, v) \/ Ledger!Hold(c, v)
  <2>1. /\ held[c] = None /\ records[c] = None /\ c \in InFlight
        /\ InFlight' = InFlight \ {c} /\ reported' = reported /\ v # None
    BY <1>2, SettlesFacts DEF Settles, Results, None
  <2>2. stage[c] = "inflight"
    BY <1>0, <2>1 DEF StagesTold
  <2>3. CASE records' = [records EXCEPT ![c] = v] /\ held' = held
    <3>1. \A d \in Commands : stage'[d] = IF d = c THEN "durable" ELSE stage[d]
      BY <1>0, <1>00, <1>000, <2>1, <2>3 DEF StagesTold, TypeOK
    <3>2. \A d \in Commands : value'[d] = IF d = c THEN v ELSE value[d]
      BY <1>0, <1>00, <1>000, <2>1, <2>3 DEF StagesTold, TypeOK
    <3> QED BY <2>2, <3>1, <3>2 DEF Ledger!Commit, Ledger!Move, stage, value
  <2>4. CASE held' = [held EXCEPT ![c] = v] /\ records' = records
    <3>1. \A d \in Commands : stage'[d] = IF d = c THEN "held" ELSE stage[d]
      BY <1>0, <1>00, <1>000, <2>1, <2>4 DEF StagesTold, TypeOK
    <3>2. \A d \in Commands : value'[d] = IF d = c THEN v ELSE value[d]
      BY <1>0, <1>00, <1>000, <2>1, <2>4 DEF StagesTold, TypeOK
    <3> QED BY <2>2, <3>1, <3>2 DEF Ledger!Hold, Ledger!Move, stage, value
  <2> QED BY <1>2, <2>3, <2>4, SettlesFacts
<1>3. ASSUME NEW c \in Commands, interceptBiometricDeploymentReference(c), InFlight' = InFlight \cup {c}
      PROVE  Ledger!Admit(c)
  <2>1. /\ c \notin reserved /\ ~closed /\ records[c] = None /\ held' = held /\ records' = records
        /\ reported' = reported \ {c} /\ Cardinality(reserved) < MaxActive
        /\ Cardinality(Kept(records)) + Cardinality(reserved) < Capacity
    BY <1>3 DEF interceptBiometricDeploymentReference, outbox
  <2>2. reserved = InFlight \cup Kept(held) /\ c \notin InFlight /\ held[c] = None
    BY <1>000, <2>1 DEF ReservedExactlyWhileInFlight, Kept
  <2>3. {d \in Commands : stage[d] \in {"inflight", "held"}} = reserved
    BY <1>0, <1>000, <2>2 DEF StagesTold, Kept, TypeOK
  <2>4. {d \in Commands : stage[d] \in {"inflight", "held", "durable"}} = reserved \cup Kept(records)
    BY <1>0, <1>000, <2>2 DEF StagesTold, Kept, TypeOK
  <2>5. Cardinality(reserved \cup Kept(records)) < Capacity
    <3>1. IsFiniteSet(reserved) /\ IsFiniteSet(Kept(records))
      BY <1>000, DeliveryAssumption, FS_Subset DEF TypeOK, Kept
    <3>2. reserved \cap Kept(records) = {}
      BY <1>000, <2>2 DEF OneStage, Kept
    <3>3. Cardinality(reserved \cup Kept(records)) = Cardinality(reserved) + Cardinality(Kept(records)) - 0
      BY <3>1, <3>2, FS_Union, FS_EmptySet
    <3>4. Cardinality(reserved) \in Nat /\ Cardinality(Kept(records)) \in Nat
      BY <3>1, FS_CardinalityType
    <3> QED BY <2>1, <3>3, <3>4, DeliveryAssumption
  <2>6. stage[c] \in {"idle", "reported"}
    BY <1>0, <2>1, <2>2 DEF StagesTold
  <2>7. \A d \in Commands : stage'[d] = IF d = c THEN "inflight" ELSE stage[d]
    BY <1>0, <1>00, <1>3, <2>1 DEF StagesTold
  <2>8. \A d \in Commands : value'[d] = value[d]
    BY <1>0, <1>00, <2>1 DEF StagesTold
  <2>9. stage' = [stage EXCEPT ![c] = "inflight"] /\ value' = value
    BY <2>7, <2>8 DEF stage, value
  <2>10. Ledger!In({"inflight", "held"}) = reserved
    BY <2>3 DEF Ledger!In, stage
  <2>11. Ledger!In({"inflight", "held", "durable"}) = reserved \cup Kept(records)
    BY <2>4 DEF Ledger!In, stage
  <2>12. \A T : Ledger!Cardinality(T) = Cardinality(T)
    BY DEF Cardinality, Ledger!Cardinality
  <2> QED BY <2>1, <2>5, <2>6, <2>9, <2>10, <2>11, <2>12 DEF Ledger!Admit, stage, value
<1>4. ASSUME NEW c \in Commands, OutboxStep(c), InFlight' = InFlight
      PROVE  Ledger!Flush(c) \/ Ledger!Report(c) \/ UNCHANGED Ledger!vars
  <2>1. CASE FlushHeld(c)
    <3>1. /\ held[c] # None /\ records[c] = None /\ reported' = reported
          /\ records' = [records EXCEPT ![c] = held[c]] /\ held' = [held EXCEPT ![c] = None]
      BY <2>1 DEF FlushHeld, ghosts
    <3>2. stage[c] = "held" /\ value[c] = held[c]
      BY <1>0, <3>1 DEF StagesTold
    <3>3. \A d \in Commands : stage'[d] = IF d = c THEN "durable" ELSE stage[d]
      BY <1>0, <1>00, <1>000, <1>4, <3>1 DEF StagesTold, TypeOK
    <3>4. \A d \in Commands : value'[d] = value[d]
      BY <1>0, <1>00, <1>000, <3>1 DEF StagesTold, TypeOK
    <3> QED BY <3>2, <3>3, <3>4 DEF Ledger!Flush, Ledger!Move, stage, value
  <2>2. CASE ResultAnswered(c)
    <3>1. /\ records[c] # None /\ held' = held /\ reported' = reported \cup {c}
          /\ records' = [records EXCEPT ![c] = None]
      BY <2>2 DEF ResultAnswered
    <3>2. stage[c] = "durable"
      BY <1>0, <3>1 DEF StagesTold
    <3>3. \A d \in Commands : stage'[d] = IF d = c THEN "reported" ELSE stage[d]
      BY <1>0, <1>00, <1>000, <1>4, <3>1 DEF StagesTold, TypeOK
    <3>4. \A d \in Commands : value'[d] = IF d = c THEN None ELSE value[d]
      BY <1>0, <1>00, <1>000, <3>1 DEF StagesTold, TypeOK, OneStage
    <3> QED BY <3>2, <3>3, <3>4 DEF Ledger!Report, Ledger!Move, stage, value, None, Ledger!None
  <2>3. CASE disableBiometricResultOutbox(c)
    <3>1. UNCHANGED <<held, records, reported>>
      BY <2>3 DEF disableBiometricResultOutbox, ghosts
    <3>2. \A d \in Commands : stage'[d] = stage[d] /\ value'[d] = value[d]
      BY <1>0, <1>00, <1>4, <3>1 DEF StagesTold
    <3> QED BY <3>2 DEF Ledger!vars, stage, value
  <2> QED BY <1>4, <2>1, <2>2, <2>3 DEF OutboxStep
<1>5. ASSUME NEW S \in SUBSET Kept(held), Restart(S), InFlight' = {} PROVE Ledger!Restart(S)
  <2>1. /\ records' = [c \in Commands |-> IF c \in S THEN held[c] ELSE records[c]]
        /\ held' = [c \in Commands |-> None] /\ reported' = reported
    BY <1>5 DEF Restart, Fresh
  <2>2. S \subseteq {c \in Commands : stage[c] \in {"held"}}
    BY <1>0 DEF StagesTold, Kept
  <2>3. \A c \in Commands : stage'[c] = CASE c \in S -> "durable"
                                          [] stage[c] \in {"durable", "reported"} -> stage[c]
                                          [] OTHER -> "idle"
    <3> SUFFICES ASSUME NEW c \in Commands
                 PROVE  stage'[c] = CASE c \in S -> "durable"
                                      [] stage[c] \in {"durable", "reported"} -> stage[c]
                                      [] OTHER -> "idle"
      OBVIOUS
    <3>1. CASE c \in S
      <4>1. held[c] # None /\ records'[c] # None /\ stage[c] = "held"
        BY <1>0, <2>1, <3>1 DEF Kept, StagesTold
      <4> QED BY <1>00, <3>1, <4>1 DEF StagesTold
    <3>2. CASE c \notin S
      <4>1. records'[c] = records[c] /\ held'[c] = None /\ c \notin InFlight' /\ (c \in reported' <=> c \in reported)
        BY <1>5, <2>1, <3>2
      <4> QED BY <1>0, <1>00, <3>2, <4>1 DEF StagesTold
    <3> QED BY <3>1, <3>2
  <2>4. \A c \in Commands : value'[c] = IF stage'[c] = "durable" THEN value[c] ELSE None
    BY <1>0, <1>00, <1>000, <2>1 DEF StagesTold, Kept, OneStage
  <2> QED BY <2>2, <2>3, <2>4 DEF Ledger!Restart, Ledger!In, stage, value, None, Ledger!None
<1> QED BY <1>1, <1>2, <1>3, <1>4, <1>5 DEF Moves, Ledger!Next, Kept, Results, Ledger!Results

\* What the deliveries promise the cloud, whatever they do to get there: every
\* command taken in is abandoned or has one result, admitted only if that
\* result is sure to have a place, and kept until the cloud has answered it.
THEOREM DeliveriesImplementLedger == Spec => ImplementsLedger
<1>1. Init => Ledger!Init
  <2> SUFFICES ASSUME Init PROVE Ledger!Init
    OBVIOUS
  <2>1. StagesTold /\ InFlight = {}
    <3>1. InFlight = {}
      BY DEF Init, InFlight, Active, Outstanding, Obj
    <3> QED BY <3>1, InitIInv, StagesAreTold DEF IInv
  <2>2. \A c \in Commands : stage[c] = "idle" /\ value[c] = None
    BY <2>1 DEF StagesTold, Init
  <2> QED BY <2>2 DEF Ledger!Init, stage, value, None, Ledger!None
<1>2. IInv /\ [Next]_vars /\ IInv' => [Ledger!Next]_Ledger!vars
  BY StepObjects, MovesAreLedgerSteps
<1> QED BY <1>1, <1>2, Invariance, PTL DEF Spec, ImplementsLedger, Ledger!Spec
=============================================================================
