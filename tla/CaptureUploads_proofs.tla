------------------------ MODULE CaptureUploads_proofs ------------------------
(***************************************************************************)
(* Uploaded templates, for any number of rows, workers and commands, any   *)
(* size of the queue and any time: what is left in memory after the        *)
(* shutdown, the command an upload is filed under, and the write-back.     *)
(*                                                                         *)
(* The shutdown needs two facts: every template in memory is in a row, in  *)
(* the queue or with a worker (Held), and nothing can leave the workers or *)
(* the queue unseen once they have stopped (Stopped).  Filing needs that a *)
(* row's command is the one its handler found or none (Tags).              *)
(***************************************************************************)
EXTENDS CaptureUploads, TLAPS

Served(C) == [cmd : C \cup {None}, at : Nat]

TypeOK ==
  /\ now \in Nat /\ pending \subseteq Commands
  /\ captureCmd \in [Keys -> Served(Enrols)] /\ importQuery \in [Pins -> Served(Imports)]
  /\ where \in [Assets -> {"unsent", "row", "queue", "work", "gone"}]
  /\ key \in [Assets -> Keys \cup {None}] /\ echo \in [Assets -> {None, "due", "written"}]
  /\ tag \in [Assets -> Commands \cup {None}] /\ first \in [Assets -> Commands \cup {None}]
  /\ live \subseteq Assets /\ queue \in Seq(Assets)
  /\ wpc \in [Workers -> {"off", "idle", "taken", "upload", "left"}]
  /\ job \in [Workers -> Assets \cup {None}]
  /\ closed \in BOOLEAN /\ down \in BOOLEAN

\* A worker has a template exactly while it works on it.
Jobs == \A w \in Workers : job[w] # None <=> wpc[w] \in {"taken", "upload"}

\* The bytes in memory belong to a row, to the queue or to a worker.
Queued == {queue[i] : i \in DOMAIN queue}
Held   == \A a \in live : where[a] = "row" \/ a \in Queued \/ \E w \in Workers : job[w] = a

\* Once the shutdown has returned the queue stays empty and the workers stay away.
Stopped == down => closed /\ queue = <<>> /\ \A w \in Workers : wpc[w] \in {"off", "left"}

\* A row's command is the one its handler found, or none.
Tags == \A a \in Assets : tag[a] \in {None, first[a]}

\* A row that may be written back has a slot.
Echoes == \A a \in Assets : echo[a] = "due" => key[a] \in Keys

IInv == TypeOK /\ Jobs /\ Held /\ Stopped /\ Tags /\ Echoes

-----------------------------------------------------------------------------
(* The table of commands.                                                  *)

LEMMA AbsentServed == \A C : Absent \in Served(C)
BY DEF Absent, Served

\* The command in force is an enrolment, an import or none.
LEMMA InForceType ==
  ASSUME TypeOK, NEW k \in Keys
  PROVE  /\ InForce(k) \in Commands \cup {None}
         /\ Valid(captureCmd[k]) => InForce(k) \in Enrols
         /\ ~Valid(captureCmd[k]) /\ Valid(importQuery[Owner[k]]) => InForce(k) \in Imports
         /\ ~Valid(captureCmd[k]) /\ ~Valid(importQuery[Owner[k]]) => InForce(k) = None
<1>1. Owner[k] \in Pins
  BY CaptureAssumption
<1>2. captureCmd[k] \in Served(Enrols) /\ importQuery[Owner[k]] \in Served(Imports)
  BY <1>1 DEF TypeOK
<1>3. captureCmd[k].cmd \in Enrols \cup {None} /\ importQuery[Owner[k]].cmd \in Imports \cup {None}
  BY <1>2 DEF Served
<1>4. /\ Valid(captureCmd[k]) => captureCmd[k].cmd # None
      /\ Valid(importQuery[Owner[k]]) => importQuery[Owner[k]].cmd # None
  BY DEF Valid
<1> QED BY <1>3, <1>4 DEF InForce, Commands

LEMMA DropExpiredTypes ==
  ASSUME TypeOK, NEW k \in Keys, DropExpired(k)
  PROVE  /\ captureCmd' \in [Keys -> Served(Enrols)] /\ importQuery' \in [Pins -> Served(Imports)]
         /\ pending' = pending
<1>1. /\ captureCmd' = captureCmd \/ captureCmd' = [captureCmd EXCEPT ![k] = Absent]
      /\ importQuery' = importQuery \/ importQuery' = [importQuery EXCEPT ![Owner[k]] = Absent]
  BY DEF DropExpired
<1> QED BY <1>1, AbsentServed DEF TypeOK, DropExpired

LEMMA WithoutType ==
  ASSUME NEW C, NEW D, NEW f \in [D -> Served(C)], NEW c PROVE Without(f, c) \in [D -> Served(C)]
BY AbsentServed DEF Without

\* The table changes, and nothing else that the rest relies on.
LEMMA TableKeeps ==
  ASSUME IInv, Table
  PROVE  IInv'
<1> USE DEF IInv
<1>1. UNCHANGED <<where, key, first, tag, echo, live, queue, wpc, job, closed, down>>
  BY DEF Table, Tick, rememberBiometricCaptureCommandLocked, handleDeviceCmd, origin, pool
<1>2. /\ now' \in Nat /\ pending' \subseteq Commands
      /\ captureCmd' \in [Keys -> Served(Enrols)] /\ importQuery' \in [Pins -> Served(Imports)]
  <2>1. CASE Tick
    BY <2>1 DEF Tick, table, TypeOK
  <2>2. ASSUME NEW c \in Commands, rememberBiometricCaptureCommandLocked(c)
        PROVE  /\ now' \in Nat /\ pending' \subseteq Commands
               /\ captureCmd' \in [Keys -> Served(Enrols)] /\ importQuery' \in [Pins -> Served(Imports)]
    <3> DEFINE r == [cmd |-> c, at |-> now]
    <3>1. now' = now /\ pending' = pending \cup {c}
      BY <2>2 DEF rememberBiometricCaptureCommandLocked
    <3>2. CASE c \in Enrols /\ captureCmd' = [captureCmd EXCEPT ![KeyOf[c]] = r] /\ UNCHANGED importQuery
      <4>1. KeyOf[c] \in Keys /\ r \in Served(Enrols)
        BY <3>2, CaptureAssumption DEF Served, TypeOK
      <4> QED BY <3>1, <3>2, <4>1 DEF TypeOK
    <3>3. CASE c \in Imports /\ importQuery' = [importQuery EXCEPT ![PinOf[c]] = r] /\ UNCHANGED captureCmd
      <4>1. PinOf[c] \in Pins /\ r \in Served(Imports)
        BY <3>3, CaptureAssumption DEF Served, TypeOK
      <4> QED BY <3>1, <3>3, <4>1 DEF TypeOK
    <3> QED BY <2>2, <3>2, <3>3 DEF rememberBiometricCaptureCommandLocked
  <2>3. ASSUME NEW c \in Commands, NEW failed \in BOOLEAN, handleDeviceCmd(c, failed)
        PROVE  /\ now' \in Nat /\ pending' \subseteq Commands
               /\ captureCmd' \in [Keys -> Served(Enrols)] /\ importQuery' \in [Pins -> Served(Imports)]
    <3>1. /\ Without(captureCmd, c) \in [Keys -> Served(Enrols)]
          /\ Without(importQuery, c) \in [Pins -> Served(Imports)]
      BY WithoutType DEF TypeOK
    <3> QED BY <2>3, <3>1 DEF handleDeviceCmd, TypeOK
  <2> QED BY <2>1, <2>2, <2>3 DEF Table
<1>3. TypeOK'
  BY <1>1, <1>2 DEF TypeOK
<1>4. Jobs' /\ Held' /\ Stopped' /\ Tags' /\ Echoes'
  BY <1>1 DEF Jobs, Held, Queued, Stopped, Tags, Echoes
<1> QED BY <1>3, <1>4

-----------------------------------------------------------------------------
(* The handlers.                                                           *)

LEMMA CaptureKeeps ==
  ASSUME IInv, NEW a \in Assets, NEW k \in Keys, NEW place \in Places, captureBiometricAssets(a, k, place)
  PROVE  IInv'
<1> USE DEF IInv
<1>1. /\ where[a] = "unsent" /\ key' = [key EXCEPT ![a] = k] /\ tag' = [tag EXCEPT ![a] = InForce(k)]
      /\ first' = [first EXCEPT ![a] = InForce(k)]
      /\ UNCHANGED <<now, queue, wpc, job, closed, down>> /\ DropExpired(k)
  BY DEF captureBiometricAssets, pool
<1>2. PICK p \in {"gone", "row"} :
        where' = [where EXCEPT ![a] = p] /\ live' = IF p = "gone" THEN live ELSE live \cup {a}
  BY DEF captureBiometricAssets
<1>3. echo' = echo \/ echo' = [echo EXCEPT ![a] = "due"]
  BY DEF captureBiometricAssets
<1>4. InForce(k) \in Commands \cup {None}
  BY InForceType
<1>5. TypeOK'
  <2>1. /\ captureCmd' \in [Keys -> Served(Enrols)] /\ importQuery' \in [Pins -> Served(Imports)]
        /\ pending' = pending
    BY <1>1, DropExpiredTypes
  <2>2. where' \in [Assets -> {"unsent", "row", "queue", "work", "gone"}] /\ live' \subseteq Assets
    BY <1>2 DEF TypeOK
  <2>3. /\ key' \in [Assets -> Keys \cup {None}] /\ echo' \in [Assets -> {None, "due", "written"}]
        /\ tag' \in [Assets -> Commands \cup {None}] /\ first' \in [Assets -> Commands \cup {None}]
    BY <1>1, <1>3, <1>4 DEF TypeOK
  <2> QED BY <1>1, <2>1, <2>2, <2>3 DEF TypeOK
<1>6. Jobs' /\ Stopped'
  BY <1>1 DEF Jobs, Stopped
<1>7. Held'
  <2>1. \A b \in Assets \ {a} : where'[b] = where[b]
    BY <1>2 DEF TypeOK
  <2>2. p = "row" => where'[a] = "row"
    BY <1>2 DEF TypeOK
  <2>3. \A b \in live' : b \in Assets /\ (b \in live \/ (b = a /\ p = "row"))
    BY <1>2 DEF TypeOK
  <2>4. Queued' = Queued
    BY <1>1 DEF Queued
  <2> QED BY <1>1, <2>1, <2>2, <2>3, <2>4 DEF Held
<1>8. Tags'
  BY <1>1 DEF Tags, TypeOK
<1>9. Echoes'
  BY <1>1, <1>3 DEF Echoes, TypeOK
<1> QED BY <1>5, <1>6, <1>7, <1>8, <1>9

LEMMA EnqueueKeeps ==
  ASSUME IInv, NEW a \in Assets, enqueueBiometricUpload(a)
  PROVE  IInv'
<1> USE DEF IInv
<1>1. /\ where[a] = "row"
      /\ UNCHANGED <<now, captureCmd, importQuery, pending, key, first, tag, echo, job, closed, down>>
  BY DEF enqueueBiometricUpload, table, origin
<1>2. /\ wpc' \in [Workers -> {"off", "idle", "taken", "upload", "left"}]
      /\ \A w \in Workers : wpc'[w] \in {"taken", "upload"} <=> wpc[w] \in {"taken", "upload"}
      /\ closed => wpc' = wpc
  BY DEF enqueueBiometricUpload, TypeOK
<1>3. Jobs' /\ Tags' /\ Echoes'
  BY <1>1, <1>2 DEF Jobs, Tags, Echoes
<1>4. CASE Refuse(a)
  <2>1. /\ queue' = queue /\ live' = live \ {a} /\ where' = [where EXCEPT ![a] = "gone"]
    BY <1>4 DEF Refuse
  <2>2. TypeOK'
    BY <1>1, <1>2, <2>1 DEF TypeOK
  <2>3. Held'
    BY <1>1, <2>1 DEF Held, Queued, TypeOK
  <2>4. Stopped'
    BY <1>1, <1>2, <2>1 DEF Stopped
  <2> QED BY <1>3, <2>2, <2>3, <2>4
<1>5. CASE ~closed /\ Admit(a)
  <2>1. /\ queue' = Append(queue, a) /\ live' = live /\ where' = [where EXCEPT ![a] = "queue"] /\ queue \in Seq(Assets)
    BY <1>5 DEF Admit, TypeOK
  <2>2. TypeOK'
    <3>1. queue' \in Seq(Assets)
      BY <2>1
    <3>2. where' \in [Assets -> {"unsent", "row", "queue", "work", "gone"}]
      BY <2>1 DEF TypeOK
    <3> QED BY <1>1, <1>2, <2>1, <3>1, <3>2 DEF TypeOK
  <2>3. \A b : b \in Queued' <=> b \in Queued \/ b = a
    <3>1. /\ DOMAIN queue' = DOMAIN queue \cup {Len(queue) + 1} /\ queue'[Len(queue) + 1] = a
          /\ \A i \in DOMAIN queue : queue'[i] = queue[i]
      <4>1. Len(queue) \in Nat /\ DOMAIN queue = 1..Len(queue) /\ DOMAIN queue' = 1..(Len(queue) + 1)
        BY <2>1
      <4>2. queue'[Len(queue) + 1] = a /\ \A i \in DOMAIN queue : queue'[i] = queue[i]
        BY <2>1
      <4> QED BY <4>1, <4>2
    <3> QED BY <3>1 DEF Queued
  <2>4. Held'
    BY <1>1, <2>1, <2>3 DEF Held, TypeOK
  <2>5. Stopped'
    BY <1>1, <1>5 DEF Stopped
  <2> QED BY <1>3, <2>2, <2>4, <2>5
<1> QED BY <1>4, <1>5 DEF enqueueBiometricUpload

LEMMA ReflectKeeps ==
  ASSUME IInv, NEW a \in Assets, reflectBioData(a)
  PROVE  IInv'
<1> USE DEF IInv
<1>1. /\ UNCHANGED <<now, captureCmd, importQuery, pending, where, key, first, tag, live, queue, wpc, job, closed, down>>
      /\ \E x \in {None, "written"} : echo' = [echo EXCEPT ![a] = x]
  BY DEF reflectBioData, table, origin, pool
<1>2. TypeOK'
  BY <1>1 DEF TypeOK
<1>3. Jobs' /\ Held' /\ Stopped' /\ Tags'
  BY <1>1 DEF Jobs, Held, Queued, Stopped, Tags
<1>4. Echoes'
  BY <1>1 DEF Echoes, TypeOK, None
<1> QED BY <1>2, <1>3, <1>4

-----------------------------------------------------------------------------
(* The workers and the shutdown.                                           *)

LEMMA TakeKeeps ==
  ASSUME IInv, NEW w \in Workers, Take(w)
  PROVE  IInv'
<1> USE DEF IInv
<1> DEFINE x == Head(queue)
<1>1. /\ wpc[w] = "idle" /\ queue # <<>> /\ job' = [job EXCEPT ![w] = x] /\ queue' = Tail(queue)
      /\ where' = [where EXCEPT ![x] = "work"] /\ wpc' = [wpc EXCEPT ![w] = "taken"]
      /\ UNCHANGED <<now, captureCmd, importQuery, pending, key, first, tag, echo, live, closed, down>>
  BY DEF Take, table, origin
<1>2. /\ x \in Assets /\ x = queue[1] /\ queue' \in Seq(Assets)
      /\ \A i \in DOMAIN queue \ {1} : i - 1 \in DOMAIN queue' /\ queue'[i - 1] = queue[i]
  <2>1. queue \in Seq(Assets) /\ Len(queue) \in Nat \ {0} /\ DOMAIN queue = 1..Len(queue)
    BY <1>1 DEF TypeOK
  <2>2. x \in Assets /\ x = queue[1] /\ queue' \in Seq(Assets) /\ DOMAIN queue' = 1..(Len(queue) - 1)
    BY <1>1, <2>1
  <2>3. \A i \in 1..(Len(queue) - 1) : queue'[i] = queue[i + 1]
    BY <1>1, <2>1
  <2> QED BY <2>1, <2>2, <2>3
<1>3. x # None
  BY <1>2, CaptureAssumption DEF None
<1> HIDE DEF x
<1>4. TypeOK'
  <2>1. where' \in [Assets -> {"unsent", "row", "queue", "work", "gone"}]
    BY <1>1 DEF TypeOK
  <2>2. wpc' \in [Workers -> {"off", "idle", "taken", "upload", "left"}] /\ job' \in [Workers -> Assets \cup {None}]
    BY <1>1, <1>2 DEF TypeOK
  <2> QED BY <1>1, <1>2, <2>1, <2>2 DEF TypeOK
<1>5. Jobs'
  BY <1>1, <1>3 DEF Jobs, TypeOK
<1>6. Held'
  <2>1. \A a \in Queued : a = x \/ a \in Queued'
    BY <1>2 DEF Queued
  <2>2. \A a \in Assets \ {x} : where'[a] = where[a]
    BY <1>1 DEF TypeOK
  <2>3. job'[w] = x /\ \A v \in Workers \ {w} : job'[v] = job[v]
    BY <1>1 DEF TypeOK
  <2>4. job[w] = None /\ \A a \in live : a # None /\ a \in Assets
    BY <1>1, CaptureAssumption DEF Jobs, TypeOK, None
  <2>5. ASSUME NEW a \in live' PROVE where'[a] = "row" \/ a \in Queued' \/ \E v \in Workers : job'[v] = a
    <3>1. a \in live /\ a \in Assets /\ a # None
      BY <1>1, <2>4, <2>5
    <3>2. CASE a = x
      BY <2>3, <3>2
    <3>3. CASE a # x
      BY <2>1, <2>2, <2>3, <2>4, <3>1, <3>3 DEF Held
    <3> QED BY <3>2, <3>3
  <2> QED BY <2>5 DEF Held
<1>7. Stopped'
  BY <1>1 DEF Stopped
<1>8. Tags' /\ Echoes'
  BY <1>1 DEF Tags, Echoes
<1> QED BY <1>4, <1>5, <1>6, <1>7, <1>8

\* A worker puts its template down, wiped.
LEMMA FinishKeeps ==
  ASSUME IInv, NEW w \in Workers, NEW p \in {"idle", "left"}, Finish(w, p), wpc[w] \in {"taken", "upload"},
         UNCHANGED <<now, table, origin, echo, queue, closed, down>>
  PROVE  IInv'
<1> USE DEF IInv
<1>1. job[w] \in Assets /\ job[w] # None
  BY DEF Jobs, TypeOK
<1>2. /\ live' = live \ {job[w]} /\ where' = [where EXCEPT ![job[w]] = "gone"]
      /\ tag' = [tag EXCEPT ![job[w]] = None] /\ job' = [job EXCEPT ![w] = None] /\ wpc' = [wpc EXCEPT ![w] = p]
      /\ UNCHANGED <<now, captureCmd, importQuery, pending, key, first, echo, queue, closed, down>>
  BY DEF Finish, table, origin
<1>3. TypeOK'
  BY <1>1, <1>2 DEF TypeOK
<1>4. Jobs'
  BY <1>2 DEF Jobs, TypeOK
<1>5. Held'
  <2>1. \A a \in Assets \ {job[w]} : where'[a] = where[a]
    BY <1>2 DEF TypeOK
  <2>2. \A v \in Workers \ {w} : job'[v] = job[v]
    BY <1>2 DEF TypeOK
  <2>3. Queued' = Queued
    BY <1>2 DEF Queued
  <2>4. \A a \in live' : a \in live /\ a \in Assets /\ a # job[w]
    BY <1>2 DEF TypeOK
  <2> QED BY <2>1, <2>2, <2>3, <2>4 DEF Held
<1>6. Stopped'
  BY <1>2 DEF Stopped
<1>7. Tags' /\ Echoes'
  BY <1>1, <1>2 DEF Tags, Echoes, TypeOK
<1> QED BY <1>3, <1>4, <1>5, <1>6, <1>7

LEMMA WorkerKeeps ==
  ASSUME IInv, NEW w \in Workers, Worker(w)
  PROVE  IInv'
<1> USE DEF IInv
<1>1. CASE Take(w)
  BY <1>1, TakeKeeps
<1>2. CASE Abandon(w) \/ UploadBiometricAsset(w)
  BY <1>2, FinishKeeps DEF Abandon, UploadBiometricAsset
<1>3. CASE Leave(w)
  <2>1. /\ wpc[w] = "idle" /\ wpc' = [wpc EXCEPT ![w] = "left"]
        /\ UNCHANGED <<now, captureCmd, importQuery, pending, where, key, first, tag, echo, live, queue, job, closed, down>>
    BY <1>3 DEF Leave, table, origin
  <2>2. TypeOK' /\ Jobs' /\ Stopped'
    BY <2>1 DEF TypeOK, Jobs, Stopped
  <2>3. Held' /\ Tags' /\ Echoes'
    BY <2>1 DEF Held, Queued, Tags, Echoes
  <2> QED BY <2>2, <2>3
<1>4. CASE Begin(w)
  <2> DEFINE a == job[w]
  <2>1. /\ wpc[w] = "taken" /\ wpc' = [wpc EXCEPT ![w] = "upload"]
        /\ UNCHANGED <<now, where, key, first, echo, live, queue, job, closed, down>>
    BY <1>4 DEF Begin, origin
  <2>2. a \in Assets /\ a # None
    BY <2>1 DEF Jobs, TypeOK
  <2>3. /\ captureCmd' \in [Keys -> Served(Enrols)] /\ importQuery' \in [Pins -> Served(Imports)]
        /\ pending' = pending
    <3>1. CASE UNCHANGED table
      BY <3>1 DEF table, TypeOK
    <3>2. CASE DropExpired(key[a])
      <4>1. /\ captureCmd' = captureCmd \/ captureCmd' = [captureCmd EXCEPT ![key[a]] = Absent]
            /\ importQuery' = importQuery \/ importQuery' = [importQuery EXCEPT ![Owner[key[a]]] = Absent]
        BY <3>2 DEF DropExpired
      <4> QED BY <3>2, <4>1, AbsentServed DEF TypeOK, DropExpired
    <3> QED BY <1>4, <3>1, <3>2 DEF Begin
  <2>4. tag' = tag \/ tag' = [tag EXCEPT ![a] = tag[a]] \/ tag' = [tag EXCEPT ![a] = None]
    BY <1>4 DEF Begin
  <2> HIDE DEF a
  <2>5. Tags' /\ tag' \in [Assets -> Commands \cup {None}]
    BY <2>1, <2>2, <2>4 DEF Tags, TypeOK
  <2>6. TypeOK'
    BY <2>1, <2>3, <2>5 DEF TypeOK
  <2>7. Jobs'
    BY <2>1 DEF Jobs, TypeOK
  <2>8. Held' /\ Echoes'
    BY <2>1 DEF Held, Queued, Echoes
  <2>9. Stopped'
    BY <2>1 DEF Stopped
  <2> QED BY <2>5, <2>6, <2>7, <2>8, <2>9
<1> QED BY <1>1, <1>2, <1>3, <1>4 DEF Worker

LEMMA DrainKeeps ==
  ASSUME IInv, shutdownBiometricUploads \/ ShutDown
  PROVE  IInv'
<1> USE DEF IInv
<1>1. /\ queue' = <<>> /\ live' = live \ Queued
      /\ where' = [a \in Assets |-> IF a \in Queued THEN "gone" ELSE where[a]]
      /\ UNCHANGED <<now, captureCmd, importQuery, pending, key, first, tag, echo, wpc, job>>
      /\ closed' = TRUE
  <2>1. Drain /\ UNCHANGED <<now, captureCmd, importQuery, pending, key, first, tag, echo, wpc, job>>
    BY DEF shutdownBiometricUploads, ShutDown, table, origin
  <2>2. closed' = TRUE
    BY DEF shutdownBiometricUploads, ShutDown, TypeOK
  <2> QED BY <2>1, <2>2 DEF Drain, Queued
<1>2. down' \in BOOLEAN /\ (down' => \A w \in Workers : wpc[w] \in {"off", "left"})
  <2>1. CASE shutdownBiometricUploads
    BY <2>1 DEF shutdownBiometricUploads, Stopped, TypeOK
  <2>2. CASE ShutDown
    BY <2>2 DEF ShutDown
  <2> QED BY <2>1, <2>2
<1>3. TypeOK'
  <2>1. where' \in [Assets -> {"unsent", "row", "queue", "work", "gone"}] /\ queue' \in Seq(Assets)
    BY <1>1 DEF TypeOK
  <2> QED BY <1>1, <1>2, <2>1 DEF TypeOK
<1>4. Jobs' /\ Tags' /\ Echoes' /\ Stopped'
  BY <1>1, <1>2 DEF Jobs, Tags, Echoes, Stopped
<1>5. Held'
  <2>1. \A a \in live' : a \in Assets /\ a \in live /\ a \notin Queued
    BY <1>1 DEF TypeOK
  <2> QED BY <1>1, <2>1 DEF Held
<1> QED BY <1>3, <1>4, <1>5

LEMMA InitIInv == Init => IInv
<1> SUFFICES ASSUME Init PROVE IInv
  OBVIOUS
<1>1. TypeOK
  <2>1. captureCmd \in [Keys -> Served(Enrols)] /\ importQuery \in [Pins -> Served(Imports)]
    BY AbsentServed DEF Init
  <2>2. closed \in BOOLEAN /\ down \in BOOLEAN
    BY DEF Init
  <2>3. queue \in Seq(Assets)
    BY DEF Init
  <2> QED BY <2>1, <2>2, <2>3 DEF Init, TypeOK
<1>2. Jobs /\ Held /\ Stopped /\ Tags /\ Echoes
  BY DEF Init, Jobs, Held, Stopped, Tags, Echoes, None
<1> QED BY <1>1, <1>2 DEF IInv

LEMMA Invariance == Spec => []IInv
<1>1. IInv /\ [Next]_vars => IInv'
  <2> SUFFICES ASSUME IInv, [Next]_vars PROVE IInv'
    OBVIOUS
  <2>1. CASE Handler
    BY <2>1, CaptureKeeps, EnqueueKeeps, ReflectKeeps DEF Handler
  <2>2. CASE UNCHANGED vars
    BY <2>2 DEF vars, IInv, TypeOK, Jobs, Held, Queued, Stopped, Tags, Echoes
  <2> QED BY <2>1, <2>2, TableKeeps, WorkerKeeps, DrainKeeps DEF Next
<1> QED BY <1>1, InitIInv, PTL DEF Spec

-----------------------------------------------------------------------------
\* The variables of the uploads keep their types.
THEOREM TypeCorrect == Spec => []TypeOK
BY Invariance, PTL DEF IInv

\* After shutdownBiometricUploads no template is in memory but in a handler's
\* row, whatever the workers and the handlers were doing when it began.
THEOREM NothingIsLeftBehind == Spec => []DownMeansWiped
<1>1. IInv => DownMeansWiped
  <2> SUFFICES ASSUME IInv, down PROVE /\ queue = <<>> /\ \A w \in Workers : job[w] = None
                                       /\ \A a \in live : where[a] = "row"
    BY DEF DownMeansWiped
  <2>1. queue = <<>> /\ \A w \in Workers : job[w] = None
    BY DEF IInv, Stopped, Jobs
  <2>2. Queued = {}
    BY <2>1 DEF Queued
  <2>3. \A a \in live : a # None
    BY CaptureAssumption DEF IInv, TypeOK, None
  <2> QED BY <2>1, <2>2, <2>3 DEF IInv, Held
<1> QED BY <1>1, Invariance, PTL

\* biometricUploadWorker files a template under the command its row was found
\* to answer if that is still in force, or under none.
THEOREM FiledUnderItsOwnCommand == Spec => NoStaleNorNewerCommand
<1> DEFINE A == \A w \in Workers :
                  wpc[w] # "upload" /\ wpc'[w] = "upload" =>
                    LET a == job[w] IN
                    tag'[a] \in {None} \cup ({first[a]} \cap {InForce(key[a])})
<1>1. IInv /\ [Next]_vars => [A]_vars
  <2> SUFFICES ASSUME IInv, Next, NEW w \in Workers, wpc[w] # "upload", wpc'[w] = "upload"
               PROVE  tag'[job[w]] \in {None} \cup ({first[job[w]]} \cap {InForce(key[job[w]])})
    OBVIOUS
  <2>1. ~Table /\ ~shutdownBiometricUploads /\ ~ShutDown
    BY DEF Table, Tick, rememberBiometricCaptureCommandLocked, handleDeviceCmd, pool,
           shutdownBiometricUploads, ShutDown
  <2>2. ~Handler
    BY DEF Handler, captureBiometricAssets, enqueueBiometricUpload, reflectBioData, pool, IInv, TypeOK
  <2>3. Begin(w)
    <3>1. PICK v \in Workers : Worker(v)
      BY <2>1, <2>2 DEF Next
    <3>2. CASE v = w
      BY <3>1, <3>2 DEF Worker, Take, Leave, Abandon, UploadBiometricAsset, Finish, IInv, TypeOK
    <3>3. CASE v # w
      BY <3>1, <3>3 DEF Worker, Take, Leave, Abandon, Begin, UploadBiometricAsset, Finish, IInv, TypeOK
    <3> QED BY <3>2, <3>3
  <2> DEFINE a == job[w]
  <2>4. a \in Assets /\ tag[a] \in {None, first[a]}
    BY <2>3 DEF Begin, IInv, Jobs, Tags, TypeOK
  <2>5. CASE tag[a] = None
    BY <2>3, <2>5 DEF Begin
  <2>6. CASE tag[a] # None
    <3>1. tag'[a] = IF InForce(key[a]) = tag[a] THEN tag[a] ELSE None
      BY <2>3, <2>4, <2>6 DEF Begin, IInv, TypeOK
    <3> QED BY <2>4, <2>6, <3>1
  <2> QED BY <2>5, <2>6
<1> QED BY <1>1, Invariance, PTL DEF Spec, NoStaleNorNewerCommand

\* reflectBioData writes a template back exactly if it does not answer an
\* import, as long as the command it was filed under is in force.
THEOREM WriteBackAgrees == Spec => WriteBackFollowsFiling
<1> DEFINE A == \A a \in Assets :
                  echo[a] = "due" /\ echo'[a] # "due" /\ first[a] = InForce(key[a]) =>
                    (echo'[a] = "written" <=> first[a] \notin Imports)
<1>1. IInv /\ [Next]_vars => [A]_vars
  <2> SUFFICES ASSUME IInv, Next, NEW a \in Assets, echo[a] = "due", echo'[a] # "due", first[a] = InForce(key[a])
               PROVE  echo'[a] = "written" <=> first[a] \notin Imports
    OBVIOUS
  <2>1. ~Table /\ ~shutdownBiometricUploads /\ ~ShutDown
    BY DEF Table, Tick, rememberBiometricCaptureCommandLocked, handleDeviceCmd,
           shutdownBiometricUploads, ShutDown
  <2>2. ASSUME NEW w \in Workers PROVE ~Worker(w)
    BY DEF Worker, Take, Leave, Abandon, Begin, UploadBiometricAsset
  <2>3. reflectBioData(a)
    <3>1. PICK b \in Assets : (\E k \in Keys, p \in Places : captureBiometricAssets(b, k, p))
                              \/ enqueueBiometricUpload(b) \/ reflectBioData(b)
      BY <2>1, <2>2 DEF Next, Handler
    <3>2. ~enqueueBiometricUpload(b)
      BY DEF enqueueBiometricUpload
    <3>3. ~(\E k \in Keys, p \in Places : captureBiometricAssets(b, k, p))
      BY DEF captureBiometricAssets, IInv, TypeOK
    <3>4. b = a
      BY <3>1, <3>2, <3>3 DEF reflectBioData, IInv, TypeOK
    <3> QED BY <3>1, <3>2, <3>3, <3>4
  <2>4. key[a] \in Keys
    BY DEF IInv, Echoes
  <2>5. echo'[a] = IF answersImportQuery(key[a]) THEN None ELSE "written"
    BY <2>3 DEF reflectBioData, IInv, TypeOK
  <2>6. Enrols \cap Imports = {} /\ None \notin Imports
    BY CaptureAssumption DEF None
  <2>7. answersImportQuery(key[a]) <=> InForce(key[a]) \in Imports
    BY <2>4, <2>6, InForceType DEF IInv, answersImportQuery
  <2> QED BY <2>5, <2>7 DEF None
<1> QED BY <1>1, Invariance, PTL DEF Spec, WriteBackFollowsFiling
=============================================================================
