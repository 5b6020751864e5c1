------------------------- MODULE ResultOutbox_proofs -------------------------
(***************************************************************************)
(* Proofs about ResultOutbox, for any number of commands, any capacity and *)
(* any number of failed writes and crashes.                                *)
(*                                                                         *)
(* The invariants of ResultOutbox are not inductive: that an owed result   *)
(* is in every file depends on what the files may hold beyond it, on the   *)
(* record the worker has in its hand, and on the list of due records it    *)
(* takes the next one from.  IInv adds these.                              *)
(***************************************************************************)
EXTENDS ResultOutbox, FiniteSetTheorems, TLAPS

\* A command is in at most one place.
Apart == Held \cap Recs = {} /\ inflight \cap (Recs \cup Held) = {}

\* Every file a crash can leave has only results the process also has, and
\* has all of those the cloud has not answered.
FilesAgree ==
  health # "unavailable" =>
    \A img \in Files, c \in Commands :
      /\ img[c] # None => (c \in Recs /\ img[c] = records[c]) \/ (c \in Held /\ img[c] = held[c])
      /\ c \in Recs /\ c \notin acked => img[c] = records[c]

\* A process that could not open its outbox takes nothing in and writes nothing.
Untouched ==
  health = "unavailable" =>
    /\ Recs = {} /\ Held = {} /\ inflight = {} /\ older = {} /\ pc = "off"
    /\ Cardinality(Kept(disk)) <= Capacity
    /\ \A c \in Commands : given[c] # None => c \in acked \/ given[c] = disk[c]

\* The worker's hand and the due records.
Queue ==
  /\ \A i \in 1..Len(due) : due[i] \in Recs
  /\ \A i, j \in 1..Len(due) : due[i] = due[j] => i = j
  /\ pc \in {"sleep", "post", "delete", "retry"} =>
       cur \in Recs /\ \A i \in 1..Len(due) : due[i] # cur
  /\ pc = "delete" => cur \in acked
  /\ pc = "flushing" => todo \subseteq Held

\* A reservation is what a delivery or a held result has, until shutdown.
Reservations == reserved = IF closed THEN {} ELSE inflight \cup Held

Room == Cardinality(Recs \cup Held \cup inflight) <= Capacity

Kind == /\ Apart /\ FilesAgree /\ Untouched /\ Queue /\ Reservations /\ Room
        /\ HandedResultIsKept

IInv == TypeOK /\ Kind

-----------------------------------------------------------------------------
(***************************************************************************)
(* Types.                                                                  *)
(***************************************************************************)
\* What a write leaves on the disk has the type of a file.
LEMMA PersistType ==
  ASSUME TypeOK, NEW img \in Images, NEW o \in Outcomes, Persist(img, o)
  PROVE  disk' \in Images /\ older' \subseteq Images /\ faults' \in 0..MaxFaults
<1>1. disk' \in Images
  BY DEF TypeOK, Persist
<1>2. older' \subseteq Images
  BY DEF TypeOK, Persist
<1>3. faults' \in 0..MaxFaults
  BY OutboxAssumption DEF TypeOK, Persist, CanFail, Spend
<1>. QED  BY <1>1, <1>2, <1>3

\* The types after a result is written, or not.
LEMMA EnqueueType ==
  ASSUME TypeOK, NEW c \in Commands, NEW v \in Results \cup {None},
         NEW o \in Outcomes, EnqueueWithCommit(c, v, o)
  PROVE  /\ records' \in Images /\ disk' \in Images /\ older' \subseteq Images
         /\ faults' \in 0..MaxFaults /\ due' \in Seq(Commands)
<1>1. CASE c \in Recs \/ Cardinality(Recs) >= Capacity
  BY <1>1 DEF TypeOK, EnqueueWithCommit, NoPersist
<1>2. CASE ~(c \in Recs \/ Cardinality(Recs) >= Capacity)
  <2>1. [records EXCEPT ![c] = v] \in Images
    BY DEF TypeOK, Images
  <2>2. Persist([records EXCEPT ![c] = v], o)
    BY <1>2 DEF EnqueueWithCommit
  <2>3. records' \in Images
    BY <1>2, <2>1 DEF TypeOK, EnqueueWithCommit
  <2>4. due' \in Seq(Commands)
    BY <1>2 DEF TypeOK, EnqueueWithCommit
  <2>. QED  BY <2>1, <2>2, <2>3, <2>4, PersistType
<1>. QED  BY <1>1, <1>2

\* Every step of Next keeps the types.
LEMMA TypeStep == TypeOK /\ [Next]_vars => TypeOK'
<1>. SUFFICES ASSUME TypeOK, [Next]_vars PROVE TypeOK'
  OBVIOUS
<1>. USE DEF Images, Results
<1>1. ASSUME NEW c \in Commands, reserveSecretCommand(c) PROVE TypeOK'
  BY <1>1 DEF TypeOK, reserveSecretCommand, storeVars, workerVars, boundVars
<1>2. ASSUME NEW c \in Commands, releaseSecretCommand(c) PROVE TypeOK'
  BY <1>2 DEF TypeOK, releaseSecretCommand, storeVars, workerVars, boundVars, history
<1>3. ASSUME NEW c \in Commands, NEW v \in Results, NEW o \in Outcomes,
             enqueueBiometricResultLocked(c, v, o)
      PROVE TypeOK'
  <2>1. /\ records' \in Images /\ disk' \in Images /\ older' \subseteq Images
        /\ faults' \in 0..MaxFaults /\ due' \in Seq(Commands)
    BY <1>3, EnqueueType DEF enqueueBiometricResultLocked
  <2>2. held' \in Images /\ given' \in Images /\ reserved' \subseteq Commands /\ inflight' \subseteq Commands
    BY <1>3 DEF TypeOK, enqueueBiometricResultLocked
  <2>. QED
    BY <1>3, <2>1, <2>2 DEF TypeOK, enqueueBiometricResultLocked, Signal, workerVars
<1>4. CASE shutdownBiometricDelivery
  BY <1>4 DEF TypeOK, shutdownBiometricDelivery, storeVars, workerVars, boundVars, history
<1>. USE DEF NoData, Goto, storeVars, boundVars, history, workerVars, PCs
<1>5. CASE FlushStart
  BY <1>5 DEF TypeOK, FlushStart, Held, Kept
<1>6. ASSUME NEW c \in Commands, NEW o \in Outcomes, FlushOne(c, o) PROVE TypeOK'
  <2>1. /\ records' \in Images /\ disk' \in Images /\ older' \subseteq Images
        /\ faults' \in 0..MaxFaults /\ due' \in Seq(Commands)
    BY <1>6, EnqueueType DEF FlushOne, TypeOK
  <2>2. held' \in Images /\ reserved' \subseteq Commands
    BY <1>6 DEF TypeOK, FlushOne
  <2>. QED
    BY <1>6, <2>1, <2>2 DEF TypeOK, FlushOne
<1>7. CASE FlushEnd
  BY <1>7 DEF TypeOK, FlushEnd
<1>8. CASE FlushAgain
  BY <1>8 DEF TypeOK, FlushAgain
<1>9. CASE Pick
  <2>1. CASE due # <<>> /\ cur' = Head(due) /\ due' = Tail(due) /\ pc' = "post"
    <3>1. Head(due) \in Commands /\ Tail(due) \in Seq(Commands)
      BY <2>1 DEF TypeOK
    <3>. QED  BY <1>9, <2>1, <3>1 DEF TypeOK, Pick
  <2>2. CASE due = <<>> /\ (\E c \in Backoff : cur' = c) /\ pc' = "sleep" /\ UNCHANGED due
    BY <1>9, <2>2 DEF TypeOK, Pick, Backoff, Recs, Kept
  <2>3. CASE Recs = {} /\ pc' = "idle" /\ UNCHANGED <<cur, due>>
    BY <1>9, <2>3 DEF TypeOK, Pick
  <2>. QED  BY <1>9, <2>1, <2>2, <2>3 DEF Pick
<1>10. CASE WakeUp
  BY <1>10 DEF TypeOK, WakeUp
<1>11. CASE RetryTimer
  BY <1>11 DEF TypeOK, RetryTimer
<1>12. ASSUME NEW c \in Commands, BecomeDue(c) PROVE TypeOK'
  BY <1>12 DEF TypeOK, BecomeDue
<1>13. CASE WorkerStop
  BY <1>13 DEF TypeOK, WorkerStop
<1>14. ASSUME NEW c \in Commands, PostSettled(c) PROVE TypeOK'
  BY <1>14 DEF TypeOK, PostSettled
<1>15. CASE PostUnsettled
  BY <1>15 DEF TypeOK, PostUnsettled
<1>16. ASSUME NEW o \in Outcomes, deleteRecord(o) PROVE TypeOK'
  <2>1. [records EXCEPT ![cur] = None] \in Images
    BY DEF TypeOK
  <2>2. disk' \in Images /\ older' \subseteq Images /\ faults' \in 0..MaxFaults
    BY <1>16, <2>1, PersistType DEF deleteRecord
  <2>. QED  BY <1>16, <2>1, <2>2 DEF TypeOK, deleteRecord, AfterWrite
<1>17. ASSUME NEW o \in Outcomes, recordRetry(o) PROVE TypeOK'
  <2>1. disk' \in Images /\ older' \subseteq Images /\ faults' \in 0..MaxFaults
    BY <1>17, PersistType DEF recordRetry, TypeOK
  <2>. QED  BY <1>17, <2>1 DEF TypeOK, recordRetry, AfterWrite
<1>18. ASSUME NEW img \in Files, NEW opened \in BOOLEAN, Restart(img, opened) PROVE TypeOK'
  <2>1. img \in Images
    BY DEF Files, TypeOK
  <2>2. faults' \in 0..MaxFaults /\ restarts' \in 0..MaxRestarts
    BY <1>18, OutboxAssumption DEF TypeOK, Restart
  <2>3. Empty \in Images /\ given' \in Images
    BY <1>18 DEF TypeOK, Restart, Empty
  <2>4. due' \in Seq(Commands)
    BY <1>18 DEF Restart
  <2>5. records' \in Images /\ held' \in Images /\ disk' \in Images /\ older' \subseteq Images
    BY <1>18, <2>1, <2>3 DEF Restart
  <2>. QED  BY <1>18, <2>2, <2>3, <2>4, <2>5 DEF TypeOK, Restart
<1>19. CASE UNCHANGED vars
  BY <1>19 DEF TypeOK, vars
<1>. QED
  BY <1>1, <1>2, <1>3, <1>4, <1>5, <1>6, <1>7, <1>8, <1>9, <1>10, <1>11, <1>12,
     <1>13, <1>14, <1>15, <1>16, <1>17, <1>18, <1>19 DEF Next, Worker, Deliveries

\* The initial state has its types.
LEMMA InitType == Init => TypeOK
<1>1. Empty \in Images /\ <<>> \in Seq(Commands)
  BY DEF Empty, Images
<1>2. ASSUME Init PROVE due \in Seq(Commands) /\ faults \in 0..MaxFaults /\ restarts \in 0..MaxRestarts
  BY <1>1, <1>2, OutboxAssumption DEF Init
<1>. QED  BY <1>1, <1>2 DEF Init, TypeOK, PCs

\* The state of the outbox, of the deliveries and of the worker always has
\* its type; in particular the worker never posts without a record.
THEOREM TypeCorrect == Spec => []TypeOK
BY InitType, TypeStep, PTL DEF Spec

-----------------------------------------------------------------------------
(***************************************************************************)
(* Facts the steps rest on.                                                *)
(***************************************************************************)
\* Sets of commands are finite, and smaller ones have fewer elements.
LEMMA CardMono ==
  ASSUME NEW S \in SUBSET Commands, NEW T \in SUBSET S
  PROVE  /\ IsFiniteSet(S) /\ IsFiniteSet(T)
         /\ Cardinality(S) \in Nat /\ Cardinality(T) \in Nat
         /\ Cardinality(T) <= Cardinality(S)
BY OutboxAssumption, FS_Subset, FS_CardinalityType

\* Fewer places taken is room enough.
LEMMA RoomShrinks ==
  ASSUME IInv, Recs' \cup Held' \cup inflight' \subseteq Recs \cup Held \cup inflight
  PROVE  Room'
<1>. DEFINE U == Recs \cup Held \cup inflight  V == Recs' \cup Held' \cup inflight'
<1>1. U \in SUBSET Commands /\ V \in SUBSET U
  BY DEF IInv, TypeOK, Recs, Held, Kept
<1>2. Cardinality(V) <= Cardinality(U) /\ Cardinality(V) \in Nat /\ Cardinality(U) \in Nat
  BY <1>1, CardMono
<1>3. Cardinality(U) <= Capacity
  BY DEF IInv, Kind, Room
<1>4. Cardinality(V) <= Capacity
  <2>. HIDE DEF U, V
  <2>. QED  BY <1>2, <1>3, OutboxAssumption
<1>. QED  BY <1>4 DEF Room

\* What a result that meets no record does to memory and to the files.
LEMMA EnqueueEffect ==
  ASSUME TypeOK, NEW c \in Commands, NEW v \in Results, NEW o \in Outcomes,
         c \notin Recs, EnqueueWithCommit(c, v, o)
  PROVE  \/ /\ Committed(c, v, o)
            /\ records' = [records EXCEPT ![c] = v]
            /\ Files' = {[records EXCEPT ![c] = v]}
            /\ due' = Append(due, c)
         \/ /\ ~Committed(c, v, o)
            /\ records' = records
            /\ Files' \subseteq Files \cup {[records EXCEPT ![c] = v]}
            /\ due' = due
<1>. Cardinality(Recs) \in Nat
  BY CardMono DEF Recs, Kept
<1>1. CASE Cardinality(Recs) >= Capacity
  BY <1>1, OutboxAssumption DEF EnqueueWithCommit, NoPersist, Committed, Files
<1>2. CASE ~(Cardinality(Recs) >= Capacity)
  <2>. Persist([records EXCEPT ![c] = v], o)
    BY <1>2 DEF EnqueueWithCommit
  <2>1. CASE o = "ok"
    BY <1>2, <2>1, OutboxAssumption DEF EnqueueWithCommit, Persist, Committed, Files
  <2>2. CASE o # "ok"
    <3>1. ~Committed(c, v, o)
      BY <2>2 DEF Committed
    <3>2. Files' \subseteq Files \cup {[records EXCEPT ![c] = v]}
      BY <2>2 DEF Persist, Files
    <3>. QED  BY <1>2, <2>2, <3>1, <3>2 DEF EnqueueWithCommit
  <2>. QED  BY <2>1, <2>2
<1>. QED  BY <1>1, <1>2

\* A step of the worker that touches no data keeps what is about data.
LEMMA NoDataFrame ==
  ASSUME Kind, NoData
  PROVE  /\ Apart' /\ FilesAgree' /\ Reservations' /\ Room' /\ HandedResultIsKept'
         /\ pc' = "off" \/ health # "unavailable" => Untouched'
<1>1. /\ Recs' = Recs /\ Held' = Held /\ Files' = Files /\ inflight' = inflight
      /\ health' = health /\ acked' = acked /\ records' = records /\ held' = held
      /\ given' = given /\ disk' = disk /\ older' = older /\ closed' = closed
      /\ reserved' = reserved
  BY DEF NoData, Recs, Held, Kept, Files, storeVars, history
<1>2. Kept(disk)' = Kept(disk)
  BY <1>1 DEF Kept
<1>3. Apart' /\ Reservations' /\ Room'
  BY <1>1 DEF Kind, Apart, Reservations, Room
<1>4. FilesAgree'
  BY <1>1 DEF Kind, FilesAgree
<1>5. HandedResultIsKept'
  BY <1>1 DEF Kind, HandedResultIsKept
<1>6. ASSUME pc' = "off" \/ health # "unavailable" PROVE Untouched'
  BY <1>1, <1>2, <1>6 DEF Kind, Untouched
<1>. QED  BY <1>3, <1>4, <1>5, <1>6

-----------------------------------------------------------------------------
(***************************************************************************)
(* The deliveries.                                                         *)
(***************************************************************************)
\* A command is admitted: there is one place left for its result.
LEMMA ReserveStep ==
  ASSUME IInv, NEW c \in Commands, reserveSecretCommand(c)
  PROVE  Kind'
<1>1. /\ Recs' = Recs /\ Held' = Held /\ Files' = Files /\ health = "ok" /\ health' = health
      /\ c \notin Recs /\ c \notin Held /\ c \notin inflight /\ ~closed
  BY DEF reserveSecretCommand, Admission, storeVars, Recs, Held, Kept, Files, IInv,
         Kind, Reservations
<1>2. Apart'
  BY <1>1 DEF IInv, Kind, Apart, reserveSecretCommand
<1>3. FilesAgree'
  BY <1>1 DEF IInv, Kind, FilesAgree, reserveSecretCommand, storeVars
<1>4. Untouched'
  BY <1>1 DEF Untouched
<1>5. Queue'
  BY <1>1 DEF IInv, Kind, Queue, reserveSecretCommand, workerVars
<1>6. Reservations'
  BY <1>1 DEF IInv, Kind, Reservations, reserveSecretCommand
<1>7. Room'
  <2>. DEFINE A == Recs  B == inflight \cup Held
  <2>1. A \in SUBSET Commands /\ B \in SUBSET Commands
    BY DEF IInv, TypeOK, Recs, Held, Kept
  <2>2. /\ IsFiniteSet(A) /\ IsFiniteSet(B) /\ IsFiniteSet(A \cup B)
        /\ Cardinality(A) \in Nat /\ Cardinality(B) \in Nat /\ Cardinality(A \cup B) \in Nat
    BY <2>1, CardMono
  <2>3. Cardinality(A \cup B) <= Cardinality(A) + Cardinality(B)
    <3>1. Cardinality(A \cap B) \in Nat
      BY <2>1, CardMono
    <3>. HIDE DEF A, B
    <3>2. Cardinality(A \cup B) = Cardinality(A) + Cardinality(B) - Cardinality(A \cap B)
      BY <2>2, FS_Union
    <3>. QED  BY <2>2, <3>1, <3>2
  <2>4. Cardinality(A) + Cardinality(B) < Capacity
    BY <1>1 DEF IInv, Kind, Reservations, reserveSecretCommand, Admission
  <2>5. Recs' \cup Held' \cup inflight' = (A \cup B) \cup {c}
    BY <1>1 DEF reserveSecretCommand
  <2>6. Cardinality((A \cup B) \cup {c}) <= Cardinality(A \cup B) + 1
    <3>. DEFINE W == A \cup B
    <3>1. IsFiniteSet(W) /\ Cardinality(W) \in Nat
      BY <2>2
    <3>. HIDE DEF W
    <3>2. Cardinality(W \cup {c}) = IF c \in W THEN Cardinality(W) ELSE Cardinality(W) + 1
      BY <3>1, FS_AddElement
    <3>3. Cardinality(W \cup {c}) <= Cardinality(W) + 1
      BY <3>1, <3>2
    <3>. QED  BY <3>3 DEF W
  <2>7. Cardinality((A \cup B) \cup {c}) \in Nat
    BY <2>1, CardMono
  <2>8. Cardinality((A \cup B) \cup {c}) <= Capacity
    <3>. HIDE DEF A, B
    <3>. QED  BY <2>2, <2>3, <2>4, <2>6, <2>7, OutboxAssumption
  <2>. QED  BY <2>5, <2>8 DEF Room
<1>8. HandedResultIsKept'
  BY <1>1 DEF IInv, Kind, HandedResultIsKept, reserveSecretCommand, storeVars, TypeOK, Images
<1>. QED  BY <1>2, <1>3, <1>4, <1>5, <1>6, <1>7, <1>8 DEF Kind

\* A delivery ends without a result.
LEMMA ReleaseStep ==
  ASSUME IInv, NEW c \in Commands, releaseSecretCommand(c)
  PROVE  Kind'
<1>1. /\ Recs' = Recs /\ Held' = Held /\ Files' = Files /\ health # "unavailable"
      /\ health' = health /\ c \notin Recs /\ c \notin Held /\ inflight' = inflight \ {c}
  BY DEF releaseSecretCommand, storeVars, Recs, Held, Kept, Files, IInv, Kind, Apart, Untouched
<1>2. Apart'
  BY <1>1 DEF IInv, Kind, Apart
<1>3. FilesAgree'
  BY <1>1 DEF IInv, Kind, FilesAgree, releaseSecretCommand, storeVars, history
<1>4. Untouched'
  BY <1>1 DEF Untouched
<1>5. Queue'
  BY <1>1 DEF IInv, Kind, Queue, releaseSecretCommand, workerVars, history
<1>6. Reservations'
  BY <1>1 DEF IInv, Kind, Reservations, releaseSecretCommand
<1>7. Room'
  BY <1>1, RoomShrinks
<1>8. HandedResultIsKept'
  BY <1>1 DEF IInv, Kind, HandedResultIsKept, releaseSecretCommand, storeVars, history
<1>. QED  BY <1>2, <1>3, <1>4, <1>5, <1>6, <1>7, <1>8 DEF Kind

\* Shutdown clears the reservations and nothing else.
LEMMA ShutdownStep ==
  ASSUME IInv, shutdownBiometricDelivery
  PROVE  Kind'
<1>1. /\ Recs' = Recs /\ Held' = Held /\ Files' = Files /\ inflight' = inflight
      /\ health' = health /\ acked' = acked /\ records' = records /\ held' = held
      /\ given' = given /\ disk' = disk /\ older' = older /\ Kept(disk)' = Kept(disk)
      /\ pc' = pc /\ cur' = cur /\ todo' = todo /\ due' = due
  BY DEF shutdownBiometricDelivery, Recs, Held, Kept, Files, storeVars, history, workerVars
<1>2. Apart' /\ Room'
  BY <1>1 DEF IInv, Kind, Apart, Room
<1>3. FilesAgree'
  BY <1>1 DEF IInv, Kind, FilesAgree
<1>4. Untouched'
  BY <1>1 DEF IInv, Kind, Untouched
<1>5. Queue'
  BY <1>1 DEF IInv, Kind, Queue
<1>6. Reservations'
  BY DEF Reservations, shutdownBiometricDelivery
<1>7. HandedResultIsKept'
  BY <1>1 DEF IInv, Kind, HandedResultIsKept
<1>. QED  BY <1>2, <1>3, <1>4, <1>5, <1>6, <1>7 DEF Kind

\* A due record is added at the end.
LEMMA DueAppend ==
  ASSUME TypeOK, NEW c \in Commands, due' = Append(due, c),
         \A i, j \in 1..Len(due) : due[i] = due[j] => i = j,
         \A i \in 1..Len(due) : due[i] # c
  PROVE  /\ \A i, j \in 1..Len(due') : due'[i] = due'[j] => i = j
         /\ \A i \in 1..Len(due') : due'[i] = c \/ \E j \in 1..Len(due) : due'[i] = due[j]
<1>. due \in Seq(Commands)
  BY DEF TypeOK
<1>1. Len(due') = Len(due) + 1 /\ Len(due) \in Nat
  OBVIOUS
<1>2. \A i \in 1..Len(due) : due'[i] = due[i]
  OBVIOUS
<1>3. due'[Len(due) + 1] = c
  OBVIOUS
<1>4. \A i \in 1..Len(due') : i \in 1..Len(due) \/ i = Len(due) + 1
  BY <1>1
<1>5. \A i \in 1..Len(due') : due'[i] = c \/ \E j \in 1..Len(due) : due'[i] = due[j]
  BY <1>2, <1>3, <1>4
<1>6. ASSUME NEW i \in 1..Len(due'), NEW j \in 1..Len(due'), due'[i] = due'[j] PROVE i = j
  BY <1>2, <1>3, <1>4, <1>6
<1>. QED  BY <1>5, <1>6

\* A delivery hands over its result: it is committed, or it is held.
LEMMA EnqueueStep ==
  ASSUME IInv, NEW c \in Commands, NEW v \in Results, NEW o \in Outcomes,
         enqueueBiometricResultLocked(c, v, o)
  PROVE  Kind'
<1>. DEFINE new == [records EXCEPT ![c] = v]
<1>1. /\ c \notin Recs /\ c \notin Held /\ c \in inflight /\ held[c] = None /\ records[c] = None
      /\ health # "unavailable" /\ health' = health /\ inflight' = inflight \ {c}
      /\ acked' = acked /\ v # None /\ pc # "flushing" /\ EnqueueWithCommit(c, v, o)
      /\ given' = [given EXCEPT ![c] = v] /\ closed' = closed /\ pc' = pc /\ cur' = cur
      /\ records \in Images /\ held \in Images /\ given \in Images
  BY DEF IInv, Kind, Apart, Untouched, enqueueBiometricResultLocked, Recs, Held, Kept, Results,
         None, workerVars, Unlocked, TypeOK
<1>2. \A img \in Files : img[c] = None
  BY <1>1 DEF IInv, Kind, FilesAgree
<1>3. \A i \in 1..Len(due) : due[i] # c
  BY <1>1 DEF IInv, Kind, Queue
<1>4. CASE Committed(c, v, o)
  <2>1. records' = new /\ Files' = {new} /\ due' = Append(due, c)
    BY <1>1, <1>4, EnqueueEffect DEF IInv
  <2>2. held' = held /\ reserved' = reserved \ {c}
    BY <1>1, <1>4 DEF enqueueBiometricResultLocked, Images
  <2>3. Recs' = Recs \cup {c} /\ Held' = Held
    BY <1>1, <2>1, <2>2 DEF Recs, Held, Kept, Images
  <2>4. \A x \in Commands : new[x] = IF x = c THEN v ELSE records[x]
    BY <1>1 DEF Images
  <2>. HIDE DEF new
  <2>5. Apart'
    BY <1>1, <2>3 DEF IInv, Kind, Apart
  <2>6. FilesAgree'
    BY <2>1, <2>3, <2>4 DEF FilesAgree, Recs, Kept
  <2>7. Untouched'
    BY <1>1 DEF Untouched
  <2>8. Queue'
    <3>. \A i, j \in 1..Len(due) : due[i] = due[j] => i = j
      BY DEF IInv, Kind, Queue
    <3>1. /\ \A i, j \in 1..Len(due') : due'[i] = due'[j] => i = j
          /\ \A i \in 1..Len(due') : due'[i] = c \/ \E j \in 1..Len(due) : due'[i] = due[j]
      BY <1>3, <2>1, DueAppend DEF IInv
    <3>. QED  BY <1>1, <2>3, <3>1 DEF IInv, Kind, Queue
  <2>9. Reservations'
    BY <1>1, <2>2, <2>3 DEF IInv, Kind, Reservations
  <2>10. Room'
    BY <1>1, <2>3, RoomShrinks
  <2>11. HandedResultIsKept'
    BY <1>1, <2>1, <2>2, <2>4 DEF IInv, Kind, HandedResultIsKept, Images
  <2>. QED  BY <2>5, <2>6, <2>7, <2>8, <2>9, <2>10, <2>11 DEF Kind
<1>5. CASE ~Committed(c, v, o)
  <2>1. records' = records /\ Files' \subseteq Files \cup {new} /\ due' = due
    BY <1>1, <1>5, EnqueueEffect DEF IInv
  <2>2. held' = [held EXCEPT ![c] = v] /\ reserved' = reserved
    BY <1>1, <1>5 DEF enqueueBiometricResultLocked
  <2>3. Recs' = Recs /\ Held' = Held \cup {c}
    BY <1>1, <2>1, <2>2 DEF Recs, Held, Kept, Images
  <2>4. \A x \in Commands : /\ new[x] = IF x = c THEN v ELSE records[x]
                            /\ held'[x] = IF x = c THEN v ELSE held[x]
    BY <1>1, <2>2 DEF Images
  <2>. HIDE DEF new
  <2>5. Apart'
    BY <1>1, <2>3 DEF IInv, Kind, Apart
  <2>6. FilesAgree'
    BY <1>1, <1>2, <2>1, <2>3, <2>4 DEF IInv, Kind, FilesAgree, Recs, Kept
  <2>7. Untouched'
    BY <1>1 DEF Untouched
  <2>8. Queue'
    BY <1>1, <2>1, <2>3 DEF IInv, Kind, Queue
  <2>9. Reservations'
    BY <1>1, <2>2, <2>3 DEF IInv, Kind, Reservations
  <2>10. Room'
    BY <1>1, <2>3, RoomShrinks
  <2>11. HandedResultIsKept'
    BY <1>1, <2>1, <2>4 DEF IInv, Kind, HandedResultIsKept, Images
  <2>. QED  BY <2>5, <2>6, <2>7, <2>8, <2>9, <2>10, <2>11 DEF Kind
<1>. QED  BY <1>4, <1>5

-----------------------------------------------------------------------------
(***************************************************************************)
(* The worker.                                                             *)
(***************************************************************************)
\* A held result gets its place in the outbox, or stays held.
LEMMA FlushOneStep ==
  ASSUME IInv, NEW c \in Commands, NEW o \in Outcomes, FlushOne(c, o)
  PROVE  Kind'
<1>. DEFINE v == held[c]  new == [records EXCEPT ![c] = v]
<1>1. /\ c \in Held /\ c \notin Recs /\ c \notin inflight /\ v \in Results /\ v # None
      /\ health # "unavailable" /\ health' = health /\ inflight' = inflight
      /\ acked' = acked /\ given' = given /\ closed' = closed
      /\ pc = "flushing" /\ pc' = pc /\ todo' = todo \ {c} /\ EnqueueWithCommit(c, v, o)
      /\ records \in Images /\ held \in Images /\ given \in Images
  BY DEF IInv, Kind, Apart, Untouched, FlushOne, Held, Kept, Queue, TypeOK, history, Images
<1>2. \A i \in 1..Len(due) : due[i] # c
  BY <1>1 DEF IInv, Kind, Queue
<1>. HIDE DEF v
<1>3. CASE Committed(c, v, o)
  <2>1. records' = new /\ Files' = {new} /\ due' = Append(due, c)
    BY <1>1, <1>3, EnqueueEffect DEF IInv
  <2>2. held' = [held EXCEPT ![c] = None] /\ reserved' = reserved \ {c}
    BY <1>3 DEF FlushOne, v
  <2>3. Recs' = Recs \cup {c} /\ Held' = Held \ {c}
    BY <1>1, <2>1, <2>2 DEF Recs, Held, Kept, Images
  <2>4. \A x \in Commands : /\ new[x] = IF x = c THEN v ELSE records[x]
                            /\ held'[x] = IF x = c THEN None ELSE held[x]
    BY <1>1, <2>2 DEF Images
  <2>. HIDE DEF new
  <2>5. Apart'
    BY <1>1, <2>3 DEF IInv, Kind, Apart
  <2>6. FilesAgree'
    BY <2>1, <2>3, <2>4 DEF FilesAgree, Recs, Kept
  <2>7. Untouched'
    BY <1>1 DEF Untouched
  <2>8. Queue'
    <3>. \A i, j \in 1..Len(due) : due[i] = due[j] => i = j
      BY DEF IInv, Kind, Queue
    <3>1. /\ \A i, j \in 1..Len(due') : due'[i] = due'[j] => i = j
          /\ \A i \in 1..Len(due') : due'[i] = c \/ \E j \in 1..Len(due) : due'[i] = due[j]
      BY <1>2, <2>1, DueAppend DEF IInv
    <3>. QED  BY <1>1, <2>3, <3>1 DEF IInv, Kind, Queue
  <2>9. Reservations'
    BY <1>1, <2>2, <2>3 DEF IInv, Kind, Reservations
  <2>10. Room'
    BY <1>1, <2>3, RoomShrinks
  <2>11. HandedResultIsKept'
    <3>. SUFFICES ASSUME NEW x \in Commands, given[x] # None, x \notin acked
                  PROVE  given[x] \in {held'[x], records'[x]}
      BY <1>1 DEF HandedResultIsKept
    <3>1. given[x] \in {held[x], records[x]}
      BY <1>1 DEF IInv, Kind, HandedResultIsKept
    <3>2. x = c => given[x] = v
      BY <1>1, <3>1 DEF v, Recs, Kept
    <3>. QED  BY <2>1, <2>4, <3>1, <3>2
  <2>. QED  BY <2>5, <2>6, <2>7, <2>8, <2>9, <2>10, <2>11 DEF Kind
<1>4. CASE ~Committed(c, v, o)
  <2>1. records' = records /\ Files' \subseteq Files \cup {new} /\ due' = due
    BY <1>1, <1>4, EnqueueEffect DEF IInv
  <2>2. held' = held /\ reserved' = reserved
    BY <1>4 DEF FlushOne, v
  <2>3. Recs' = Recs /\ Held' = Held
    BY <2>1, <2>2 DEF Recs, Held, Kept
  <2>4. \A x \in Commands : new[x] = IF x = c THEN v ELSE records[x]
    BY <1>1 DEF Images
  <2>. HIDE DEF new
  <2>5. Apart'
    BY <1>1, <2>3 DEF IInv, Kind, Apart
  <2>6. FilesAgree'
    BY <1>1, <2>1, <2>2, <2>3, <2>4 DEF IInv, Kind, FilesAgree, Recs, Kept, v
  <2>7. Untouched'
    BY <1>1 DEF Untouched
  <2>8. Queue'
    BY <1>1, <2>1, <2>3 DEF IInv, Kind, Queue
  <2>9. Reservations'
    BY <1>1, <2>2, <2>3 DEF IInv, Kind, Reservations
  <2>10. Room'
    BY <1>1, <2>3, RoomShrinks
  <2>11. HandedResultIsKept'
    BY <1>1, <2>1, <2>2 DEF IInv, Kind, HandedResultIsKept
  <2>. QED  BY <2>5, <2>6, <2>7, <2>8, <2>9, <2>10, <2>11 DEF Kind
<1>. QED  BY <1>3, <1>4

\* The steps of the worker that move no result.
LEMMA ControlStep ==
  ASSUME IInv,
         \/ FlushStart \/ FlushEnd \/ FlushAgain \/ Pick \/ WakeUp \/ RetryTimer
         \/ WorkerStop \/ PostUnsettled \/ \E c \in Commands : BecomeDue(c)
  PROVE  Kind'
<1>. USE DEF Goto, workerVars
<1>1. NoData
  BY DEF FlushStart, FlushEnd, FlushAgain, Pick, WakeUp, RetryTimer, WorkerStop,
         PostUnsettled, BecomeDue
<1>2. Recs' = Recs /\ Held' = Held /\ acked' = acked /\ records' = records /\ health' = health
  BY <1>1 DEF NoData, Recs, Held, Kept, storeVars, history
<1>3. /\ Apart' /\ FilesAgree' /\ Reservations' /\ Room' /\ HandedResultIsKept'
      /\ pc' = "off" \/ health # "unavailable" => Untouched'
  BY <1>1, NoDataFrame DEF IInv
<1>4. pc' = "off" \/ health # "unavailable"
  BY DEF FlushStart, FlushEnd, FlushAgain, Pick, WakeUp, RetryTimer, WorkerStop,
         PostUnsettled, BecomeDue, Backoff, IInv, Kind, Untouched
<1>5. Queue'
  <2>1. CASE FlushStart
    BY <2>1, <1>2 DEF FlushStart, IInv, Kind, Queue
  <2>2. CASE FlushEnd
    BY <2>2, <1>2 DEF FlushEnd, IInv, Kind, Queue
  <2>3. CASE FlushAgain
    BY <2>3, <1>2 DEF FlushAgain, IInv, Kind, Queue
  <2>4. CASE Pick
    <3>1. CASE due # <<>> /\ cur' = Head(due) /\ due' = Tail(due) /\ pc' = "post"
      <4>. due \in Seq(Commands)
        BY DEF IInv, TypeOK
      <4>1. Len(due) \in Nat \ {0} /\ Head(due) = due[1] /\ Len(Tail(due)) = Len(due) - 1
        BY <3>1
      <4>2. \A i \in 1..Len(Tail(due)) : Tail(due)[i] = due[i + 1] /\ i + 1 \in 1..Len(due)
        BY <3>1, <4>1
      <4>3. \A i \in 1..Len(due') : due'[i] \in Recs /\ due'[i] # cur'
        BY <3>1, <4>1, <4>2 DEF IInv, Kind, Queue
      <4>4. \A i, j \in 1..Len(due') : due'[i] = due'[j] => i = j
        BY <3>1, <4>1, <4>2 DEF IInv, Kind, Queue
      <4>5. cur' \in Recs
        BY <3>1, <4>1 DEF IInv, Kind, Queue
      <4>. QED  BY <1>2, <3>1, <4>3, <4>4, <4>5 DEF Queue
    <3>2. CASE due = <<>> /\ (\E c \in Backoff : cur' = c) /\ pc' = "sleep" /\ UNCHANGED due
      BY <1>2, <3>2 DEF Queue, Backoff
    <3>3. CASE Recs = {} /\ pc' = "idle" /\ UNCHANGED <<cur, due>>
      BY <1>2, <3>3 DEF IInv, Kind, Queue
    <3>. QED  BY <2>4, <3>1, <3>2, <3>3 DEF Pick
  <2>5. CASE WakeUp
    BY <2>5, <1>2 DEF WakeUp, IInv, Kind, Queue
  <2>6. CASE RetryTimer
    BY <2>6, <1>2 DEF RetryTimer, IInv, Kind, Queue
  <2>7. CASE WorkerStop
    BY <2>7, <1>2 DEF WorkerStop, IInv, Kind, Queue
  <2>8. CASE PostUnsettled
    BY <2>8, <1>2 DEF PostUnsettled, IInv, Kind, Queue
  <2>9. ASSUME NEW c \in Commands, BecomeDue(c) PROVE Queue'
    <3>. due \in Seq(Commands)
      BY DEF IInv, TypeOK
    <3>1. /\ due' = Append(due, c) /\ c \in Recs /\ pc # "sleep" /\ pc' = pc /\ cur' = cur
          /\ todo' = todo
      BY <2>9 DEF BecomeDue, Backoff
    <3>2. \A i \in 1..Len(due) : due[i] # c
      BY <2>9 DEF BecomeDue, Backoff, DueSet
    <3>3. pc \in {"post", "delete", "retry"} => cur # c
      BY <2>9 DEF BecomeDue, Backoff, InHand
    <3>4. \A i, j \in 1..Len(due) : due[i] = due[j] => i = j
      BY DEF IInv, Kind, Queue
    <3>5. /\ \A i, j \in 1..Len(due') : due'[i] = due'[j] => i = j
          /\ \A i \in 1..Len(due') : due'[i] = c \/ \E j \in 1..Len(due) : due'[i] = due[j]
      BY <3>1, <3>2, <3>4, DueAppend DEF IInv
    <3>. QED  BY <1>2, <3>1, <3>3, <3>5 DEF IInv, Kind, Queue
  <2>. QED  BY <2>1, <2>2, <2>3, <2>4, <2>5, <2>6, <2>7, <2>8, <2>9
<1>. QED  BY <1>3, <1>4, <1>5 DEF Kind

\* The cloud settles the record in hand.
LEMMA SettledStep ==
  ASSUME IInv, NEW c \in Commands, PostSettled(c)
  PROVE  Kind'
<1>1. /\ Recs' = Recs /\ Held' = Held /\ Files' = Files /\ inflight' = inflight
      /\ health' = health /\ acked' = acked \cup {c} /\ records' = records /\ held' = held
      /\ given' = given /\ closed' = closed /\ reserved' = reserved /\ due' = due
      /\ pc = "post" /\ pc' = "delete" /\ cur = c /\ cur' = c
      /\ health # "unavailable"
  BY DEF PostSettled, Goto, Recs, Held, Kept, Files, storeVars, IInv, Kind, Untouched
<1>2. Apart' /\ Room' /\ Reservations' /\ Untouched'
  BY <1>1 DEF IInv, Kind, Apart, Room, Reservations, Untouched
<1>3. FilesAgree'
  BY <1>1 DEF IInv, Kind, FilesAgree
<1>4. Queue'
  BY <1>1 DEF IInv, Kind, Queue
<1>5. HandedResultIsKept'
  BY <1>1 DEF IInv, Kind, HandedResultIsKept
<1>. QED  BY <1>2, <1>3, <1>4, <1>5 DEF Kind

\* The answered record is deleted; a failure turns the worker off.
LEMMA DeleteStep ==
  ASSUME IInv, NEW o \in Outcomes, deleteRecord(o)
  PROVE  Kind'
<1>. DEFINE new == [records EXCEPT ![cur] = None]
<1>1. /\ pc = "delete" /\ cur \in Recs /\ cur \in acked /\ cur \notin Held /\ cur \notin inflight
      /\ health # "unavailable" /\ health' # "unavailable" /\ inflight' = inflight
      /\ acked' = acked /\ given' = given /\ closed' = closed /\ reserved' = reserved
      /\ held' = held /\ Held' = Held /\ due' = due /\ pc' \in {"flush", "off"}
      /\ records \in Images /\ cur \in Commands
  BY DEF IInv, Kind, Apart, Untouched, Queue, deleteRecord, AfterWrite, Held, Kept, history,
         TypeOK
<1>2. \A x \in Commands : new[x] = IF x = cur THEN None ELSE records[x]
  BY <1>1 DEF Images
<1>3. CASE o = "ok"
  <2>1. records' = new /\ Files' = {new}
    BY <1>3 DEF deleteRecord, Persist, Files
  <2>. HIDE DEF new
  <2>2. Recs' = Recs \ {cur}
    BY <1>2, <2>1 DEF Recs, Kept
  <2>3. Apart' /\ Reservations' /\ Untouched'
    BY <1>1, <2>2 DEF IInv, Kind, Apart, Reservations, Untouched
  <2>4. Room'
    BY <1>1, <2>2, RoomShrinks
  <2>5. FilesAgree'
    BY <1>1, <1>2, <2>1, <2>2 DEF FilesAgree, Recs, Kept
  <2>6. Queue'
    BY <1>1, <2>2 DEF IInv, Kind, Queue
  <2>7. HandedResultIsKept'
    BY <1>1, <1>2, <2>1 DEF IInv, Kind, HandedResultIsKept
  <2>. QED  BY <2>3, <2>4, <2>5, <2>6, <2>7 DEF Kind
<1>4. CASE o # "ok"
  <2>1. records' = records /\ Files' \subseteq Files \cup {new} /\ Recs' = Recs
    BY <1>4 DEF deleteRecord, Persist, Files, Recs, Kept
  <2>. HIDE DEF new
  <2>2. Apart' /\ Reservations' /\ Untouched' /\ Room'
    BY <1>1, <2>1 DEF IInv, Kind, Apart, Reservations, Untouched, Room
  <2>3. FilesAgree'
    BY <1>1, <1>2, <2>1 DEF IInv, Kind, FilesAgree, Recs, Kept
  <2>4. Queue'
    BY <1>1, <2>1 DEF IInv, Kind, Queue
  <2>5. HandedResultIsKept'
    BY <1>1, <2>1 DEF IInv, Kind, HandedResultIsKept
  <2>. QED  BY <2>2, <2>3, <2>4, <2>5 DEF Kind
<1>. QED  BY <1>3, <1>4

\* A retry is recorded; the results in the file are what they were.
LEMMA RetryStep ==
  ASSUME IInv, NEW o \in Outcomes, recordRetry(o)
  PROVE  Kind'
<1>1. /\ health # "unavailable" /\ health' # "unavailable" /\ inflight' = inflight
      /\ acked' = acked /\ given' = given /\ closed' = closed /\ reserved' = reserved
      /\ held' = held /\ Held' = Held /\ due' = due /\ pc' \in {"flush", "off"}
      /\ records' = records /\ Recs' = Recs
  BY DEF IInv, Kind, Untouched, recordRetry, AfterWrite, Held, Recs, Kept, history
<1>2. Files' \subseteq Files \cup {records}
  BY DEF recordRetry, Persist, Files
<1>3. Apart' /\ Reservations' /\ Untouched' /\ Room'
  BY <1>1 DEF IInv, Kind, Apart, Reservations, Untouched, Room
<1>4. FilesAgree'
  BY <1>1, <1>2 DEF IInv, Kind, FilesAgree, Recs, Kept
<1>5. Queue'
  BY <1>1 DEF IInv, Kind, Queue
<1>6. HandedResultIsKept'
  BY <1>1 DEF IInv, Kind, HandedResultIsKept
<1>. QED  BY <1>3, <1>4, <1>5, <1>6 DEF Kind

-----------------------------------------------------------------------------
(***************************************************************************)
(* The crash.                                                              *)
(***************************************************************************)
\* Any surviving file fits and agrees with what had been handed over.
LEMMA RestartStep ==
  ASSUME IInv, NEW img \in Files, NEW opened \in BOOLEAN, Restart(img, opened)
  PROVE  Kind'
<1>1. /\ disk' = img /\ older' = {} /\ held' = Empty /\ reserved' = {} /\ inflight' = {}
      /\ closed' = FALSE /\ due' = <<>> /\ acked' = acked /\ pc' \in {"flush", "off"}
      /\ records' = (IF opened THEN img ELSE Empty)
      /\ health' = (IF opened THEN "ok" ELSE "unavailable")
      /\ pc' = (IF opened THEN "flush" ELSE "off")
      /\ given' = [c \in Commands |-> IF img[c] # None THEN given[c] ELSE None]
  BY DEF Restart
<1>2. Held' = {} /\ Recs' = (IF opened THEN Kept(img) ELSE {}) /\ Kept(disk)' = Kept(img) /\ Files' = {img}
  BY <1>1 DEF Held, Recs, Kept, Empty, Files
<1>3. Cardinality(Kept(img)) <= Capacity
  <2>1. CASE health = "unavailable"
    BY <2>1 DEF IInv, Kind, Untouched, Files
  <2>2. CASE health # "unavailable"
    <3>. DEFINE U == Recs \cup Held \cup inflight
    <3>1. U \in SUBSET Commands /\ Kept(img) \in SUBSET U
      BY <2>2 DEF IInv, TypeOK, Kind, FilesAgree, Recs, Held, Kept
    <3>2. Cardinality(Kept(img)) <= Cardinality(U) /\ Cardinality(Kept(img)) \in Nat /\ Cardinality(U) \in Nat
      BY <3>1, CardMono
    <3>3. Cardinality(U) <= Capacity
      BY DEF IInv, Kind, Room
    <3>. HIDE DEF U
    <3>. QED  BY <3>2, <3>3, OutboxAssumption
  <2>. QED  BY <2>1, <2>2
<1>4. \A c \in Commands : given'[c] # None => c \in acked \/ given'[c] = img[c]
  <2>. SUFFICES ASSUME NEW c \in Commands, given'[c] # None, c \notin acked
                PROVE  given'[c] = img[c]
    OBVIOUS
  <2>1. img[c] # None /\ given'[c] = given[c]
    BY <1>1
  <2>2. CASE health = "unavailable"
    BY <2>1, <2>2 DEF IInv, Kind, Untouched, Files
  <2>3. CASE health # "unavailable"
    <3>1. given[c] \in {held[c], records[c]}
      BY <2>1, <2>3 DEF IInv, Kind, HandedResultIsKept
    <3>2. (c \in Recs /\ img[c] = records[c]) \/ (c \in Held /\ img[c] = held[c])
      BY <2>1, <2>3 DEF IInv, Kind, FilesAgree
    <3>3. held[c] = None \/ records[c] = None
      BY DEF IInv, Kind, Apart, Recs, Held, Kept
    <3>. QED  BY <2>1, <3>1, <3>2, <3>3 DEF Recs, Held, Kept
  <2>. QED  BY <2>2, <2>3
<1>5. Apart' /\ Reservations'
  BY <1>1, <1>2 DEF Apart, Reservations
<1>6. FilesAgree'
  BY <1>1, <1>2 DEF FilesAgree, Kept
<1>7. Untouched'
  BY <1>1, <1>2, <1>3, <1>4 DEF Untouched
<1>8. Queue'
  <2>1. Len(due') = 0
    BY <1>1
  <2>. QED  BY <1>1, <2>1 DEF Queue
<1>9. Room'
  <2>1. (Recs \cup Held \cup inflight)' = IF opened THEN Kept(img) ELSE {}
    BY <1>1, <1>2
  <2>2. Cardinality({}) <= Capacity
    BY FS_EmptySet, OutboxAssumption
  <2>. QED  BY <1>3, <2>1, <2>2 DEF Room
<1>10. HandedResultIsKept'
  BY <1>1, <1>4 DEF HandedResultIsKept
<1>. QED  BY <1>5, <1>6, <1>7, <1>8, <1>9, <1>10 DEF Kind

-----------------------------------------------------------------------------
(***************************************************************************)
(* The theorems.                                                           *)
(***************************************************************************)
\* The invariant holds at the start.
LEMMA InitIInv == Init => IInv
<1>. SUFFICES ASSUME Init PROVE IInv
  OBVIOUS
<1>1. TypeOK
  BY InitType
<1>2. Recs = {} /\ Held = {} /\ Files = {Empty} /\ \A c \in Commands : Empty[c] = None
  BY DEF Init, Recs, Held, Kept, Files, Empty
<1>3. Apart /\ Untouched /\ Reservations
  BY <1>2 DEF Init, Apart, Untouched, Reservations
<1>4. FilesAgree /\ HandedResultIsKept
  BY <1>2 DEF Init, FilesAgree, HandedResultIsKept
<1>5. Queue
  <2>1. Len(due) = 0
    BY DEF Init
  <2>. QED  BY <2>1 DEF Init, Queue
<1>6. Room
  <2>1. Recs \cup Held \cup inflight = {}
    BY <1>2 DEF Init
  <2>2. Cardinality({}) = 0 /\ 0 <= Capacity
    BY FS_EmptySet, OutboxAssumption
  <2>3. Cardinality(Recs \cup Held \cup inflight) = 0
    BY <2>1, <2>2
  <2>. QED  BY <2>2, <2>3 DEF Room
<1>. QED  BY <1>1, <1>3, <1>4, <1>5, <1>6 DEF IInv, Kind

\* A step that changes nothing.
LEMMA StutterStep == ASSUME IInv, UNCHANGED vars PROVE Kind'
<1>1. NoData /\ due' = due /\ pc' = pc /\ cur' = cur /\ todo' = todo
  BY DEF vars, NoData, storeVars, history, boundVars
<1>2. Recs' = Recs /\ Held' = Held /\ acked' = acked
  BY DEF vars, Recs, Held, Kept
<1>3. Queue'
  BY <1>1, <1>2 DEF IInv, Kind, Queue
<1>4. pc' = "off" \/ health # "unavailable"
  BY <1>1 DEF IInv, Kind, Untouched
<1>. QED  BY <1>1, <1>3, <1>4, NoDataFrame DEF IInv, Kind

\* Every step keeps the invariant.
LEMMA IInvStep == IInv /\ [Next]_vars => IInv'
<1>. SUFFICES ASSUME IInv, [Next]_vars PROVE Kind'
  BY TypeStep DEF IInv
<1>1. CASE Worker
  BY <1>1, ControlStep, SettledStep, DeleteStep, RetryStep, FlushOneStep DEF Worker
<1>2. CASE Deliveries
  BY <1>2, ReserveStep, ReleaseStep, EnqueueStep, ShutdownStep DEF Deliveries
<1>3. CASE \E c \in Commands : BecomeDue(c)
  BY <1>3, ControlStep
<1>4. CASE \E img \in Files, opened \in BOOLEAN : Restart(img, opened)
  BY <1>4, RestartStep
<1>5. CASE UNCHANGED vars
  BY <1>5, StutterStep
<1>. QED  BY <1>1, <1>2, <1>3, <1>4, <1>5 DEF Next

\* The inductive invariant, from which the safety theorems follow.
THEOREM Inductive == Spec => []IInv
BY InitIInv, IInvStep, PTL DEF Spec

\* persistLocked and its callers: no order of failed writes, rollbacks and
\* crashes loses or alters a result the agent has committed to.
THEOREM OwedResultsSurvive == Spec => []OwedResultsAreOnDisk
<1>1. IInv => OwedResultsAreOnDisk
  BY DEF IInv, Kind, Untouched, FilesAgree, OwedResultsAreOnDisk, Owed, Store, Files, Recs, Kept
<1>. QED  BY <1>1, Inductive, PTL

\* admission with reserveSecretCommand: a result that can still arrive always
\* meets a free place and no other record of its command.
THEOREM ResultsFit == Spec => []EveryResultHasAPlace
<1>1. IInv => EveryResultHasAPlace
  BY DEF IInv, Kind, Apart, Room, EveryResultHasAPlace
<1>. QED  BY <1>1, Inductive, PTL

\* enqueueBiometricResultLocked and flushPendingBiometricResults: a result
\* handed over is kept, unchanged, until the cloud has answered it.
THEOREM HandedResultsAreKept == Spec => []HandedResultIsKept
<1>1. IInv => HandedResultIsKept
  BY DEF IInv, Kind
<1>. QED  BY <1>1, Inductive, PTL

\* The reservations are neither leaked nor lost before shutdown.
THEOREM NoReservationLeaks == Spec => []ReservedExactlyWhileUnsettled
<1>1. IInv => ReservedExactlyWhileUnsettled
  BY DEF IInv, Kind, Reservations, ReservedExactlyWhileUnsettled
<1>. QED  BY <1>1, Inductive, PTL

\* A command under execution has no result in any file a crash can leave, so
\* openBiometricResultOutbox never finds the outcome of an earlier execution.
THEOREM NoEarlierResultOnDisk == Spec => []ExecutionHasNoEarlierResult
<1>1. IInv => ExecutionHasNoEarlierResult
  <2> SUFFICES ASSUME IInv, NEW c \in inflight, NEW img \in Files PROVE img[c] = None
    BY DEF ExecutionHasNoEarlierResult
  <2>1. c \in Commands /\ c \notin Recs \cup Held /\ health # "unavailable"
    BY DEF IInv, TypeOK, Kind, Apart, Untouched
  <2> QED BY <2>1 DEF IInv, Kind, FilesAgree
<1>. QED  BY <1>1, Inductive, PTL

-----------------------------------------------------------------------------
(***************************************************************************)
(* The refinement of ResultLedger.                                         *)
(***************************************************************************)
\* The cloud has not answered what the agent is still working on.
Unanswered == (inflight \cup Held) \cap acked = {}

\* The results the agent is bound to keep.
Bound == IF health = "unavailable" THEN disk ELSE records

\* Unanswered holds on top of IInv: what is answered was a record, and the
\* answer is forgotten when the command is taken in again.
LEMMA UnansweredStep == IInv /\ Unanswered /\ [Next]_vars => Unanswered'
<1>. SUFFICES ASSUME IInv, Unanswered, [Next]_vars PROVE Unanswered'
  OBVIOUS
<1>. USE DEF Unanswered, Held, Kept
<1>1. ASSUME NEW c \in Commands, reserveSecretCommand(c) PROVE Unanswered'
  BY <1>1 DEF reserveSecretCommand
<1>2. ASSUME NEW c \in Commands, releaseSecretCommand(c) PROVE Unanswered'
  BY <1>2 DEF releaseSecretCommand, history
<1>3. ASSUME NEW c \in Commands, NEW v \in Results, NEW o \in Outcomes,
             enqueueBiometricResultLocked(c, v, o)
      PROVE Unanswered'
  <2>1. c \in inflight /\ inflight' = inflight \ {c} /\ acked' = acked
    BY <1>3 DEF enqueueBiometricResultLocked
  <2>2. \A x \in Commands \ {c} : held'[x] = held[x]
    BY <1>3 DEF enqueueBiometricResultLocked, IInv, TypeOK, Images
  <2>. QED  BY <2>1, <2>2
<1>4. CASE shutdownBiometricDelivery
  BY <1>4 DEF shutdownBiometricDelivery, history
<1>5. CASE NoData
  BY <1>5 DEF NoData, history
<1>6. ASSUME NEW c \in Commands, NEW o \in Outcomes, FlushOne(c, o) PROVE Unanswered'
  <2>1. inflight' = inflight /\ acked' = acked
    BY <1>6 DEF FlushOne, history
  <2>2. \A x \in Commands : held'[x] # None => held[x] # None
    BY <1>6 DEF FlushOne, IInv, TypeOK, Images
  <2>. QED  BY <2>1, <2>2
<1>7. ASSUME NEW c \in Commands, PostSettled(c) PROVE Unanswered'
  BY <1>7 DEF PostSettled, IInv, Kind, Queue, Apart
<1>8. ASSUME NEW o \in Outcomes, deleteRecord(o) \/ recordRetry(o) PROVE Unanswered'
  BY <1>8 DEF deleteRecord, recordRetry, history
<1>9. ASSUME NEW img \in Files, NEW opened \in BOOLEAN, Restart(img, opened) PROVE Unanswered'
  BY <1>9 DEF Restart, Empty
<1>10. CASE UNCHANGED vars
  BY <1>10 DEF vars
<1>11. ASSUME \/ FlushStart \/ FlushEnd \/ FlushAgain \/ Pick \/ WakeUp \/ RetryTimer
              \/ WorkerStop \/ PostUnsettled \/ \E c \in Commands : BecomeDue(c)
       PROVE  NoData
  BY <1>11 DEF FlushStart, FlushEnd, FlushAgain, Pick, WakeUp, RetryTimer, WorkerStop,
               PostUnsettled, BecomeDue
<1>. QED
  BY <1>1, <1>2, <1>3, <1>4, <1>5, <1>6, <1>7, <1>8, <1>9, <1>10, <1>11 DEF Next, Worker, Deliveries

LedgerInv == IInv /\ Unanswered

LEMMA LedgerInvariance == Spec => []LedgerInv
<1>1. Init => LedgerInv
  BY InitIInv DEF Init, LedgerInv, Unanswered
<1>2. LedgerInv /\ [Next]_vars => LedgerInv'
  BY IInvStep, UnansweredStep DEF LedgerInv
<1>. QED  BY <1>1, <1>2, PTL DEF Spec

stage == [c \in Commands |-> stageOf(c)]
value == [c \in Commands |-> valueOf(c)]

\* The stage of a command tells where it is, and the other way round.
StagesTold ==
  \A c \in Commands :
    /\ stage[c] = stageOf(c) /\ value[c] = valueOf(c)
    /\ stageOf(c) \in {"inflight", "held", "durable", "reported", "idle"}
    /\ stageOf(c) = "inflight" <=> c \in inflight
    /\ stageOf(c) = "held" <=> held[c] # None
    /\ stageOf(c) = "durable" <=> Bound[c] # None /\ c \notin acked
    /\ stageOf(c) = "reported" <=> c \in acked
    /\ valueOf(c) = IF held[c] # None THEN held[c]
                    ELSE IF Bound[c] # None /\ c \notin acked THEN Bound[c] ELSE None

LEMMA StagesAreTold == LedgerInv => StagesTold
<1>. SUFFICES ASSUME LedgerInv, NEW c \in Commands
              PROVE  /\ stageOf(c) \in {"inflight", "held", "durable", "reported", "idle"}
                     /\ stageOf(c) = "inflight" <=> c \in inflight
                     /\ stageOf(c) = "held" <=> held[c] # None
                     /\ stageOf(c) = "durable" <=> Bound[c] # None /\ c \notin acked
                     /\ stageOf(c) = "reported" <=> c \in acked
                     /\ valueOf(c) = IF held[c] # None THEN held[c]
                                     ELSE IF Bound[c] # None /\ c \notin acked THEN Bound[c] ELSE None
  BY DEF StagesTold, stage, value
<1>1. /\ c \in Held <=> held[c] # None
      /\ c \in Owed <=> Bound[c] # None /\ c \notin acked
  BY DEF Held, Owed, Store, Bound, Recs, Kept
<1>2. /\ c \in inflight => held[c] = None /\ Bound[c] = None /\ c \notin acked
      /\ held[c] # None => Bound[c] = None /\ c \notin acked
  BY DEF LedgerInv, IInv, Kind, Apart, Untouched, Unanswered, Held, Bound, Recs, Kept
<1>3. CASE c \in inflight
  <2>1. stageOf(c) = "inflight"
    BY <1>1, <1>2, <1>3 DEF stageOf
  <2>. QED  BY <1>1, <1>2, <1>3, <2>1 DEF valueOf
<1>4. CASE held[c] # None
  <2>1. stageOf(c) = "held"
    BY <1>1, <1>2, <1>4 DEF stageOf
  <2>. QED  BY <1>1, <1>2, <1>4, <2>1 DEF valueOf
<1>5. CASE c \notin inflight /\ held[c] = None /\ Bound[c] # None /\ c \notin acked
  <2>1. stageOf(c) = "durable"
    BY <1>1, <1>2, <1>5 DEF stageOf
  <2>2. valueOf(c) = Bound[c]
    BY <2>1 DEF valueOf, Bound
  <2>. QED  BY <1>1, <1>2, <1>5, <2>1, <2>2
<1>6. CASE c \notin inflight /\ held[c] = None /\ ~(Bound[c] # None /\ c \notin acked)
  <2>1. stageOf(c) = IF c \in acked THEN "reported" ELSE "idle"
    BY <1>1, <1>2, <1>6 DEF stageOf
  <2>. QED  BY <1>1, <1>2, <1>6, <2>1 DEF valueOf
<1>. QED  BY <1>3, <1>4, <1>5, <1>6

\* A step that does not touch what the stages tell is a stutter of the ledger.
LEMMA LedgerStutters ==
  ASSUME StagesTold, StagesTold', inflight' = inflight, held' = held, acked' = acked,
         \A c \in Commands : c \in acked \/ Bound'[c] = Bound[c]
  PROVE  UNCHANGED Ledger!vars
<1>1. \A c \in Commands : stageOf(c)' = stageOf(c) /\ valueOf(c)' = valueOf(c)
  BY DEF StagesTold
<1>. QED  BY <1>1 DEF Ledger!vars

\* A command moves from one stage to the next.
LEMMA LedgerMoves ==
  ASSUME NEW c \in Commands, NEW from, NEW to, NEW v, stage[c] = from,
         \A d \in Commands : stage'[d] = IF d = c THEN to ELSE stage[d],
         \A d \in Commands : value'[d] = IF d = c THEN v ELSE value[d]
  PROVE  Ledger!Move(c, from, to, v)
BY DEF Ledger!Move, stage, value

\* The deliveries.
LEMMA AdmitRefines ==
  ASSUME LedgerInv, StagesTold, StagesTold', NEW c \in Commands, reserveSecretCommand(c)
  PROVE  Ledger!Admit(c)
<1>1. /\ c \notin reserved /\ c \notin Recs /\ ~closed /\ health = "ok" /\ health' = health
      /\ held' = held /\ records' = records /\ inflight' = inflight \cup {c} /\ acked' = acked \ {c}
      /\ Cardinality(Recs) + Cardinality(reserved) < Capacity /\ Cardinality(reserved) < MaxActive
  BY DEF reserveSecretCommand, Admission, storeVars
<1>2. Bound = records /\ Bound' = records'
  BY <1>1 DEF Bound
<1>3. reserved = inflight \cup Held /\ reserved \cap Recs = {}
  BY <1>1 DEF LedgerInv, IInv, Kind, Reservations, Apart
<1>4. c \notin inflight /\ held[c] = None /\ records[c] = None /\ \A d \in Commands : held[d] # None <=> d \in Held
  BY <1>1, <1>3 DEF Held, Recs, Kept
<1>5. Ledger!In({"inflight", "held"}) = reserved
  <2>1. {d \in Commands : stage[d] \in {"inflight", "held"}} = reserved
    BY <1>3, <1>4 DEF StagesTold, LedgerInv, IInv, TypeOK
  <2>. QED  BY <2>1 DEF Ledger!In, stage
<1>6. Ledger!In({"inflight", "held", "durable"}) \subseteq Recs \cup reserved
  <2>1. {d \in Commands : stage[d] \in {"inflight", "held", "durable"}} \subseteq Recs \cup reserved
    BY <1>2, <1>3, <1>4 DEF StagesTold, Recs, Kept
  <2>. QED  BY <2>1 DEF Ledger!In, stage
<1>7. \A T : Ledger!Cardinality(T) = Cardinality(T)
  BY DEF Cardinality, Ledger!Cardinality
<1>8. Cardinality(Ledger!In({"inflight", "held", "durable"})) < Capacity
  <2>. DEFINE W == Ledger!In({"inflight", "held", "durable"})
  <2>1. Recs \cup reserved \in SUBSET Commands /\ Recs \in SUBSET Commands /\ reserved \in SUBSET Commands
    BY DEF LedgerInv, IInv, TypeOK, Recs, Kept
  <2>2. /\ Cardinality(W) <= Cardinality(Recs \cup reserved) /\ Cardinality(W) \in Nat
        /\ IsFiniteSet(Recs) /\ IsFiniteSet(reserved)
        /\ Cardinality(Recs) \in Nat /\ Cardinality(reserved) \in Nat
    BY <1>6, <2>1, CardMono
  <2>3. Cardinality(Recs \cup reserved) = Cardinality(Recs) + Cardinality(reserved) - 0
    BY <1>3, <2>2, FS_Union, FS_EmptySet
  <2>. HIDE DEF W
  <2>4. Cardinality(W) < Capacity
    BY <1>1, <2>2, <2>3, OutboxAssumption
  <2>. QED  BY <2>4 DEF W
<1>9. stage[c] \in {"idle", "reported"}
  BY <1>2, <1>4 DEF StagesTold
<1>10. \A d \in Commands : stageOf(d)' = IF d = c THEN "inflight" ELSE stageOf(d)
  BY <1>1, <1>2 DEF StagesTold
<1>11. \A d \in Commands : valueOf(d)' = valueOf(d)
  BY <1>1, <1>2, <1>4 DEF StagesTold
<1>12. stage' = [stage EXCEPT ![c] = "inflight"] /\ value' = value
  BY <1>10, <1>11 DEF stage, value
<1>. QED  BY <1>1, <1>5, <1>7, <1>8, <1>9, <1>12 DEF Ledger!Admit, stage, value

LEMMA ReleaseRefines ==
  ASSUME LedgerInv, StagesTold, StagesTold', NEW c \in Commands, releaseSecretCommand(c)
  PROVE  Ledger!Abandon(c)
<1>1. /\ c \in inflight /\ inflight' = inflight \ {c} /\ held' = held /\ Bound' = Bound /\ acked' = acked
  BY DEF releaseSecretCommand, storeVars, history, Bound
<1>2. held[c] = None /\ Bound[c] = None /\ c \notin acked
  BY <1>1 DEF LedgerInv, IInv, Kind, Apart, Untouched, Unanswered, Held, Bound, Recs, Kept
<1>3. stage[c] = "inflight"
  BY <1>1 DEF StagesTold
<1>4. \A d \in Commands : stage'[d] = IF d = c THEN "idle" ELSE stage[d]
  BY <1>1, <1>2 DEF StagesTold
<1>5. \A d \in Commands : value'[d] = IF d = c THEN None ELSE value[d]
  BY <1>1, <1>2 DEF StagesTold
<1>. QED  BY <1>3, <1>4, <1>5, LedgerMoves DEF Ledger!Abandon, None, Ledger!None

LEMMA EnqueueRefines ==
  ASSUME LedgerInv, StagesTold, StagesTold', NEW c \in Commands, NEW v \in Results,
         NEW o \in Outcomes, enqueueBiometricResultLocked(c, v, o)
  PROVE  Ledger!Commit(c, v) \/ Ledger!Hold(c, v)
<1>1. /\ c \in inflight /\ inflight' = inflight \ {c} /\ acked' = acked /\ v # None
      /\ EnqueueWithCommit(c, v, o) /\ health' = health /\ c \notin acked
      /\ records \in Images /\ held \in Images
  BY DEF enqueueBiometricResultLocked, LedgerInv, IInv, TypeOK, Results, None, Unanswered
<1>2. /\ health # "unavailable" /\ c \notin Recs /\ held[c] = None /\ records[c] = None
  BY <1>1 DEF LedgerInv, IInv, Kind, Apart, Untouched, Held, Recs, Kept
<1>3. Bound = records /\ Bound' = records'
  BY <1>1, <1>2 DEF Bound
<1>4. stage[c] = "inflight"
  BY <1>1 DEF StagesTold
<1>5. CASE Committed(c, v, o)
  <2>1. records' = [records EXCEPT ![c] = v]
    BY <1>1, <1>2, <1>5, EnqueueEffect DEF LedgerInv, IInv
  <2>2. held' = held
    BY <1>1, <1>2, <1>5 DEF enqueueBiometricResultLocked, Images
  <2>3. \A d \in Commands : records'[d] = IF d = c THEN v ELSE records[d]
    BY <1>1, <2>1 DEF Images
  <2>4. \A d \in Commands : stage'[d] = IF d = c THEN "durable" ELSE stage[d]
    BY <1>1, <1>3, <2>2, <2>3 DEF StagesTold
  <2>5. \A d \in Commands : value'[d] = IF d = c THEN v ELSE value[d]
    BY <1>1, <1>2, <1>3, <2>2, <2>3 DEF StagesTold
  <2>. QED  BY <1>4, <2>4, <2>5, LedgerMoves DEF Ledger!Commit
<1>6. CASE ~Committed(c, v, o)
  <2>1. records' = records
    BY <1>1, <1>2, <1>6, EnqueueEffect DEF LedgerInv, IInv
  <2>2. held' = [held EXCEPT ![c] = v]
    BY <1>2, <1>6 DEF enqueueBiometricResultLocked
  <2>3. \A d \in Commands : held'[d] = IF d = c THEN v ELSE held[d]
    BY <1>1, <2>2 DEF Images
  <2>4. \A d \in Commands : stage'[d] = IF d = c THEN "held" ELSE stage[d]
    BY <1>1, <1>3, <2>1, <2>3 DEF StagesTold
  <2>5. \A d \in Commands : value'[d] = IF d = c THEN v ELSE value[d]
    BY <1>1, <1>3, <2>1, <2>3 DEF StagesTold
  <2>. QED  BY <1>4, <2>4, <2>5, LedgerMoves DEF Ledger!Hold
<1>. QED  BY <1>5, <1>6

\* The worker.
LEMMA FlushRefines ==
  ASSUME LedgerInv, StagesTold, StagesTold', NEW c \in Commands, NEW o \in Outcomes, FlushOne(c, o)
  PROVE  Ledger!Flush(c) \/ UNCHANGED Ledger!vars
<1>. DEFINE v == held[c]
<1>1. /\ c \in Held /\ v # None /\ v \in Results /\ c \notin Recs /\ c \notin acked
      /\ health # "unavailable" /\ health' = health /\ inflight' = inflight /\ acked' = acked
      /\ EnqueueWithCommit(c, v, o) /\ records \in Images /\ held \in Images
  BY DEF FlushOne, LedgerInv, IInv, Kind, Queue, Apart, Untouched, Unanswered, Held, Kept, TypeOK,
         Images, history
<1>2. Bound = records /\ Bound' = records'
  BY <1>1 DEF Bound
<1>3. CASE Committed(c, v, o)
  <2>1. records' = [records EXCEPT ![c] = v] /\ held' = [held EXCEPT ![c] = None]
    BY <1>1, <1>3, EnqueueEffect DEF FlushOne, LedgerInv, IInv
  <2>2. \A d \in Commands : /\ records'[d] = IF d = c THEN v ELSE records[d]
                            /\ held'[d] = IF d = c THEN None ELSE held[d]
    BY <1>1, <2>1 DEF Images
  <2>3. stage[c] = "held" /\ value[c] = v
    BY <1>1 DEF StagesTold
  <2>4. \A d \in Commands : stage'[d] = IF d = c THEN "durable" ELSE stage[d]
    BY <1>1, <1>2, <2>2 DEF StagesTold
  <2>5. \A d \in Commands : value'[d] = IF d = c THEN value[c] ELSE value[d]
    BY <1>1, <1>2, <2>2 DEF StagesTold
  <2>6. Ledger!Move(c, "held", "durable", value[c])
    BY <2>3, <2>4, <2>5, LedgerMoves
  <2>. QED  BY <2>6 DEF Ledger!Flush, value
<1>4. CASE ~Committed(c, v, o)
  <2>1. records' = records /\ held' = held
    BY <1>1, <1>4, EnqueueEffect DEF FlushOne, LedgerInv, IInv
  <2>. QED  BY <1>1, <1>2, <2>1, LedgerStutters
<1>. QED  BY <1>3, <1>4

LEMMA SettledRefines ==
  ASSUME LedgerInv, StagesTold, StagesTold', NEW c \in Commands, PostSettled(c)
  PROVE  Ledger!Report(c) \/ UNCHANGED Ledger!vars
<1>1. /\ inflight' = inflight /\ held' = held /\ Bound' = Bound /\ acked' = acked \cup {c}
      /\ c \in Recs /\ health # "unavailable"
  BY DEF PostSettled, storeVars, Bound, LedgerInv, IInv, Kind, Queue, Untouched
<1>2. CASE c \in acked
  BY <1>1, <1>2, LedgerStutters
<1>3. CASE c \notin acked
  <2>1. Bound[c] # None /\ held[c] = None
    BY <1>1 DEF Bound, Recs, Held, Kept, LedgerInv, IInv, Kind, Apart
  <2>2. stage[c] = "durable"
    BY <1>3, <2>1 DEF StagesTold
  <2>3. \A d \in Commands : stage'[d] = IF d = c THEN "reported" ELSE stage[d]
    BY <1>1 DEF StagesTold
  <2>4. \A d \in Commands : value'[d] = IF d = c THEN None ELSE value[d]
    BY <1>1, <2>1 DEF StagesTold
  <2>. QED  BY <2>2, <2>3, <2>4, LedgerMoves DEF Ledger!Report, None, Ledger!None
<1>. QED  BY <1>2, <1>3

LEMMA DeleteRefines ==
  ASSUME LedgerInv, StagesTold, StagesTold', NEW o \in Outcomes, deleteRecord(o) \/ recordRetry(o)
  PROVE  UNCHANGED Ledger!vars
<1>1. /\ inflight' = inflight /\ held' = held /\ acked' = acked
      /\ health # "unavailable" /\ health' # "unavailable" /\ records \in Images
  BY DEF deleteRecord, recordRetry, AfterWrite, history, LedgerInv, IInv, Kind, Untouched, TypeOK
<1>2. Bound = records /\ Bound' = records'
  BY <1>1 DEF Bound
<1>3. \A c \in Commands : c \in acked \/ records'[c] = records[c]
  BY <1>1 DEF deleteRecord, recordRetry, LedgerInv, IInv, Kind, Queue, Images
<1>. QED  BY <1>1, <1>2, <1>3, LedgerStutters

\* The crash.
LEMMA RestartRefines ==
  ASSUME LedgerInv, StagesTold, StagesTold', NEW img \in Files, NEW opened \in BOOLEAN,
         Restart(img, opened)
  PROVE  Ledger!Restart({c \in Held : img[c] # None})
<1>. DEFINE S == {c \in Held : img[c] # None}
<1>1. /\ held' = Empty /\ inflight' = {} /\ acked' = acked /\ Bound' = img
      /\ \A c \in Commands : held'[c] = None
  BY DEF Restart, Bound, Empty
<1>2. \A c \in Commands : /\ c \in S <=> held[c] # None /\ img[c] # None
                          /\ c \in S => img[c] = held[c] /\ c \notin acked /\ Bound[c] = None
                          /\ c \notin S /\ c \notin acked => img[c] = Bound[c]
  <2>. SUFFICES ASSUME NEW c \in Commands
                PROVE  /\ c \in S => img[c] = held[c] /\ c \notin acked /\ Bound[c] = None
                       /\ c \notin S /\ c \notin acked => img[c] = Bound[c]
    BY DEF Held, Kept
  <2>1. CASE health = "unavailable"
    BY <2>1 DEF LedgerInv, IInv, Kind, Untouched, Files, Bound
  <2>2. CASE health # "unavailable"
    <3>1. /\ img[c] # None => (c \in Recs /\ img[c] = records[c]) \/ (c \in Held /\ img[c] = held[c])
          /\ c \in Recs /\ c \notin acked => img[c] = records[c]
      BY <2>2 DEF LedgerInv, IInv, Kind, FilesAgree
    <3>2. Bound[c] = records[c] /\ (c \in Recs <=> records[c] # None) /\ ~(c \in Recs /\ c \in Held)
      BY <2>2 DEF Bound, Recs, Kept, LedgerInv, IInv, Kind, Apart
    <3>3. c \in Held => c \notin acked
      BY DEF LedgerInv, Unanswered
    <3>. QED  BY <3>1, <3>2, <3>3
  <2>. QED  BY <2>1, <2>2
<1>. HIDE DEF S
<1>3. S \subseteq {c \in Commands : stage[c] \in {"held"}}
  <2>1. S \subseteq Commands
    BY DEF S, Held, Kept
  <2>. QED  BY <1>2, <2>1 DEF StagesTold
<1>4. \A c \in Commands : stage'[c] = CASE c \in S -> "durable"
                                        [] stage[c] \in {"durable", "reported"} -> stage[c]
                                        [] OTHER -> "idle"
  <2>. SUFFICES ASSUME NEW c \in Commands
                PROVE  stage'[c] = CASE c \in S -> "durable"
                                     [] stage[c] \in {"durable", "reported"} -> stage[c]
                                     [] OTHER -> "idle"
    OBVIOUS
  <2>1. CASE c \in S
    <3>1. stage[c] = "held" /\ stage'[c] = "durable"
      BY <1>1, <1>2, <2>1 DEF StagesTold
    <3>. QED  BY <2>1, <3>1
  <2>2. CASE c \notin S /\ c \in acked
    <3>1. stage[c] = "reported" /\ stage'[c] = "reported"
      BY <1>1, <2>2 DEF StagesTold
    <3>. QED  BY <2>2, <3>1
  <2>3. CASE c \notin S /\ c \notin acked /\ Bound[c] # None
    <3>1. stage[c] = "durable" /\ stage'[c] = "durable"
      BY <1>1, <1>2, <2>3 DEF StagesTold
    <3>. QED  BY <2>3, <3>1
  <2>4. CASE c \notin S /\ c \notin acked /\ Bound[c] = None
    <3>1. stage[c] \notin {"durable", "reported"} /\ stage'[c] = "idle"
      BY <1>1, <1>2, <2>4 DEF StagesTold
    <3>. QED  BY <2>4, <3>1
  <2>. QED  BY <2>1, <2>2, <2>3, <2>4
<1>5. \A c \in Commands : value'[c] = IF stage'[c] = "durable" THEN value[c] ELSE None
  <2>. SUFFICES ASSUME NEW c \in Commands
                PROVE  value'[c] = IF stage'[c] = "durable" THEN value[c] ELSE None
    OBVIOUS
  <2>1. value'[c] = IF img[c] # None /\ c \notin acked THEN img[c] ELSE None
    BY <1>1 DEF StagesTold
  <2>2. stage'[c] = "durable" <=> img[c] # None /\ c \notin acked
    BY <1>1 DEF StagesTold
  <2>3. CASE c \in S
    BY <1>2, <2>1, <2>2, <2>3 DEF StagesTold
  <2>4. CASE c \notin S /\ img[c] # None /\ c \notin acked
    <3>1. held[c] = None /\ Bound[c] = img[c]
      BY <1>2, <2>4
    <3>. QED  BY <2>1, <2>2, <2>4, <3>1 DEF StagesTold
  <2>. QED  BY <2>1, <2>2, <2>3, <2>4
<1>6. S \subseteq Ledger!In({"held"})
  BY <1>3 DEF Ledger!In, stage
<1>7. Ledger!Restart(S)
  BY <1>4, <1>5, <1>6 DEF Ledger!Restart, stage, value, None, Ledger!None
<1>. QED  BY <1>7 DEF S

\* Every step of the outbox, written to whatever file and failed at whatever
\* point, is one step of the ledger or none.
LEMMA LedgerStep == LedgerInv /\ [Next]_vars /\ LedgerInv' => [Ledger!Next]_Ledger!vars
<1>. SUFFICES ASSUME LedgerInv, [Next]_vars, LedgerInv' PROVE Ledger!Next \/ UNCHANGED Ledger!vars
  OBVIOUS
<1>1. StagesTold
  BY StagesAreTold
<1>2. StagesTold'
  <2>1. (LedgerInv => StagesTold)'
    BY StagesAreTold, PTL
  <2>. QED  BY <2>1
<1>3. ASSUME inflight' = inflight, held' = held, acked' = acked, Bound' = Bound PROVE UNCHANGED Ledger!vars
  BY <1>1, <1>2, <1>3, LedgerStutters
<1>4. ASSUME \/ FlushStart \/ FlushEnd \/ FlushAgain \/ Pick \/ WakeUp \/ RetryTimer
             \/ WorkerStop \/ PostUnsettled \/ \E c \in Commands : BecomeDue(c)
      PROVE  UNCHANGED Ledger!vars
  <2>1. NoData
    BY <1>4 DEF FlushStart, FlushEnd, FlushAgain, Pick, WakeUp, RetryTimer, WorkerStop,
                PostUnsettled, BecomeDue
  <2>. QED  BY <1>3, <2>1 DEF NoData, storeVars, history, Bound
<1>5. CASE shutdownBiometricDelivery \/ UNCHANGED vars
  BY <1>3, <1>5 DEF shutdownBiometricDelivery, vars, storeVars, history, Bound
<1>6. ASSUME NEW c \in Commands, reserveSecretCommand(c) \/ releaseSecretCommand(c) \/ PostSettled(c)
      PROVE  Ledger!Next \/ UNCHANGED Ledger!vars
  BY <1>1, <1>2, <1>6, AdmitRefines, ReleaseRefines, SettledRefines DEF Ledger!Next
<1>7. ASSUME NEW c \in Commands, NEW v \in Results, NEW o \in Outcomes,
             enqueueBiometricResultLocked(c, v, o)
      PROVE  Ledger!Next
  <2>1. v \in Ledger!Results
    BY DEF Results, Ledger!Results
  <2>. QED  BY <1>1, <1>2, <1>7, <2>1, EnqueueRefines DEF Ledger!Next
<1>8. ASSUME NEW c \in Commands, NEW o \in Outcomes, FlushOne(c, o)
      PROVE  Ledger!Next \/ UNCHANGED Ledger!vars
  BY <1>1, <1>2, <1>8, FlushRefines DEF Ledger!Next
<1>9. ASSUME NEW o \in Outcomes, deleteRecord(o) \/ recordRetry(o) PROVE UNCHANGED Ledger!vars
  BY <1>1, <1>2, <1>9, DeleteRefines
<1>10. ASSUME NEW img \in Files, NEW opened \in BOOLEAN, Restart(img, opened) PROVE Ledger!Next
  <2>1. {c \in Held : img[c] # None} \in SUBSET Commands
    BY DEF Held, Kept
  <2>. QED  BY <1>1, <1>2, <1>10, <2>1, RestartRefines DEF Ledger!Next
<1>. QED
  BY <1>4, <1>5, <1>6, <1>7, <1>8, <1>9, <1>10 DEF Next, Worker, Deliveries

\* What the outbox promises, with its file, its failed writes and its crashes:
\* a durable result only ever becomes reported, with the value it was given, and
\* a crash forgets only what was never durable.
THEOREM OutboxImplementsLedger == Spec => ImplementsLedger
<1>1. Init => Ledger!Init
  <2>. SUFFICES ASSUME Init PROVE Ledger!Init
    OBVIOUS
  <2>1. StagesTold
    BY InitIInv, StagesAreTold DEF Init, LedgerInv, Unanswered
  <2>2. \A c \in Commands : stage[c] = "idle" /\ value[c] = None
    BY <2>1 DEF StagesTold, Init, Bound, Empty
  <2>. QED  BY <2>2 DEF Ledger!Init, stage, value, None, Ledger!None
<1>. QED  BY <1>1, LedgerStep, LedgerInvariance, PTL DEF Spec, ImplementsLedger, Ledger!Spec
==============================================================================
