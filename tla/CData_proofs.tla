---------------------------- MODULE CData_proofs ----------------------------
(***************************************************************************)
(* The two halves of handleCData, for any number of scanners, requests at  *)
(* once, failures and restarts.                                            *)
(*                                                                         *)
(* Uploads (AttendanceUpload): a scanner forgets only what Plasmatix has,  *)
(* for any punches and any size of batch.                                  *)
(*                                                                         *)
(* Handshakes (Handshake, as Hs, on the variables of DeviceTracker and     *)
(* FullSync): no request for a full synchronisation is cleared before the  *)
(* scanner is told, for any number of requests for it.                     *)
(***************************************************************************)
EXTENDS AttendanceUpload, DeviceTracker, FullSync, TLAPS

CONSTANT MaxRequests
VARIABLE req

Hs == INSTANCE Handshake

\* What a handler knows: the rows it has crossed off are stored, and at "ok"
\* all of them are.  The batch it is sending one by one is part of the rest,
\* so the rest is empty only when the batch is.
Progress(u) ==
  /\ pc[u] \in {"batch", "single"} =>
       /\ rows[u] \ left[u] \subseteq stored
       /\ batch[u] \subseteq left[u]
  /\ pc[u] = "ok" => rows[u] \subseteq stored \cup unread

IInv == TypeOK /\ (\A u \in Uploads : Progress(u)) /\ ForgottenIsStoredOrUnread

\* The initial state.
LEMMA InitIInv == Init => IInv
BY UploadAssumption DEF Init, IInv, TypeOK, Progress, ForgottenIsStoredOrUnread, Forgotten, PCs, None

\* Crossing off S, which is stored now, keeps what handler u knows.
LEMMA AfterKeepsProgress ==
  ASSUME TypeOK, NEW u \in Uploads, Progress(u), pc[u] \in {"batch", "single"},
         NEW S \in SUBSET left[u], After(u, S), S \subseteq stored',
         stored \subseteq stored', UNCHANGED <<rows, unread>>
  PROVE  Progress(u)'
BY DEF TypeOK, Progress, After

\* Other handlers know no less when more is stored.
LEMMA MoreStoredKeepsProgress ==
  ASSUME TypeOK, NEW v \in Uploads, Progress(v), stored \subseteq stored', unread \subseteq unread',
         pc'[v] = pc[v], rows'[v] = rows[v], left'[v] = left[v], batch'[v] = batch[v]
  PROVE  Progress(v)'
BY DEF Progress

\* Each step keeps the types.
LEMMA StepTypeOK == TypeOK /\ [Next]_vars => TypeOK'
<1> SUFFICES ASSUME TypeOK, [Next]_vars PROVE TypeOK'
  OBVIOUS
<1> USE UploadAssumption DEF TypeOK, PCs, None, handler, Goto
<1>1. ASSUME NEW u \in Uploads, Read(u) PROVE TypeOK'
  BY <1>1 DEF Read
<1>2. ASSUME NEW u \in Uploads, Answer(u) PROVE TypeOK'
  BY <1>2 DEF Answer, Finish
<1>3. ASSUME NEW u \in Uploads, NEW S \in SUBSET left[u], NEW T \in SUBSET S,
             postAttendanceBatch(u, S, T)
      PROVE  TypeOK'
  BY <1>3 DEF postAttendanceBatch, After, Fault
<1>4. ASSUME NEW u \in Uploads, NEW p \in batch[u], NEW T \in SUBSET {p},
             postAttendanceRows(u, p, T)
      PROVE  TypeOK'
  BY <1>4 DEF postAttendanceRows, After, Fault
<1>5. ASSUME NEW u \in Uploads, ReadError(u) PROVE TypeOK'
  BY <1>5 DEF ReadError, Fault
<1>6. ASSUME NEW u \in Uploads, NoAnswer(u) PROVE TypeOK'
  BY <1>6 DEF NoAnswer, Finish, Fault
<1>7. ASSUME NEW d \in Scanners, NEW p \in Punches, Punch(d, p) PROVE TypeOK'
  BY <1>7 DEF Punch
<1>8. ASSUME NEW d \in Scanners, NEW p \in Punches, QueriedATTLOG(d, p) PROVE TypeOK'
  BY <1>8 DEF QueriedATTLOG
<1>9. ASSUME NEW d \in Scanners, NEW u \in Uploads,
             NEW S \in {memory[d] \cap Realtime, memory[d] \ Realtime}, Post(u, d, S)
      PROVE  TypeOK'
  BY <1>9 DEF Post
<1>10. CASE UNCHANGED vars
  BY <1>10 DEF vars
<1> QED BY <1>1, <1>2, <1>3, <1>4, <1>5, <1>6, <1>7, <1>8, <1>9, <1>10 DEF Next, Handle

\* Each step keeps the invariant.
LEMMA StepIInv == IInv /\ [Next]_vars => IInv'
<1> SUFFICES ASSUME IInv, [Next]_vars PROVE IInv'
  OBVIOUS
<1>0. TypeOK /\ TypeOK' /\ \A u \in Uploads : Progress(u)
  BY StepTypeOK DEF IInv
<1> USE DEF ForgottenIsStoredOrUnread, Forgotten
<1>1. ASSUME NEW u \in Uploads, Read(u) PROVE IInv'
  BY <1>0, <1>1 DEF IInv, TypeOK, Progress, Read, handler, Goto
<1>2. ASSUME NEW u \in Uploads, Answer(u) PROVE IInv'
  <2>1. \A v \in Uploads : Progress(v)'
    BY <1>0, <1>2 DEF TypeOK, Progress, Answer, Finish, None
  <2>2. pc[u] = "ok" => rows[u] \subseteq stored \cup unread
    BY <1>0 DEF Progress
  <2>3. (pc[u] = "ok" /\ from[u] \in Scanners) \/ memory' = memory
    BY <1>0, <1>2 DEF TypeOK, Answer, None
  <2>4. Forgotten' \subseteq stored' \cup unread'
    BY <1>0, <1>2, <2>2, <2>3 DEF IInv, TypeOK, Answer
  <2> QED BY <1>0, <2>1, <2>4 DEF IInv
<1>3. ASSUME NEW u \in Uploads, NEW S \in SUBSET left[u], NEW T \in SUBSET S,
             postAttendanceBatch(u, S, T)
      PROVE  IInv'
  <2>1. \A v \in Uploads \ {u} : Progress(v)'
    BY <1>0, <1>3, MoreStoredKeepsProgress DEF TypeOK, postAttendanceBatch, After, Goto, handler
  <2>2. Progress(u)'
    <3>1. CASE T = S /\ After(u, S)
      BY <1>0, <1>3, <3>1, AfterKeepsProgress DEF postAttendanceBatch, handler
    <3>2. CASE ~(T = S /\ After(u, S))
      BY <1>0, <1>3, <3>2 DEF TypeOK, Progress, postAttendanceBatch, Goto, handler
    <3> QED BY <3>1, <3>2
  <2> QED BY <1>0, <1>3, <2>1, <2>2 DEF IInv, postAttendanceBatch
<1>4. ASSUME NEW u \in Uploads, NEW p \in batch[u], NEW T \in SUBSET {p},
             postAttendanceRows(u, p, T)
      PROVE  IInv'
  <2>0. pc[u] = "single" /\ p \in left[u]
    BY <1>0, <1>4 DEF Progress, postAttendanceRows
  <2>1. \A v \in Uploads \ {u} : Progress(v)'
    BY <1>0, <1>4, MoreStoredKeepsProgress DEF TypeOK, postAttendanceRows, After, Goto, handler
  <2>2. Progress(u)'
    <3>1. CASE T = {p} /\ After(u, {p})
      BY <1>0, <1>4, <2>0, <3>1, AfterKeepsProgress DEF postAttendanceRows, handler
    <3>2. CASE ~(T = {p} /\ After(u, {p}))
      BY <1>0, <1>4, <3>2 DEF TypeOK, Progress, postAttendanceRows, Goto, handler
    <3> QED BY <3>1, <3>2
  <2> QED BY <1>0, <1>4, <2>1, <2>2 DEF IInv, postAttendanceRows
<1>5. ASSUME NEW u \in Uploads, ReadError(u) PROVE IInv'
  BY <1>0, <1>5 DEF IInv, TypeOK, Progress, ReadError, handler, Goto
<1>6. ASSUME NEW u \in Uploads, NoAnswer(u) PROVE IInv'
  BY <1>0, <1>6 DEF IInv, TypeOK, Progress, NoAnswer, Finish, None
<1>7. ASSUME NEW d \in Scanners, NEW p \in Punches, Punch(d, p) PROVE IInv'
  BY <1>0, <1>7 DEF IInv, TypeOK, Progress, Punch, handler
<1>8. ASSUME NEW d \in Scanners, NEW p \in Punches, QueriedATTLOG(d, p) PROVE IInv'
  BY <1>0, <1>8 DEF IInv, TypeOK, Progress, QueriedATTLOG, handler
<1>9. ASSUME NEW d \in Scanners, NEW u \in Uploads,
             NEW S \in {memory[d] \cap Realtime, memory[d] \ Realtime}, Post(u, d, S)
      PROVE  IInv'
  BY <1>0, <1>9 DEF IInv, TypeOK, Progress, Post, Goto
<1>10. CASE UNCHANGED vars
  BY <1>0, <1>10 DEF IInv, Progress, vars
<1> QED BY <1>1, <1>2, <1>3, <1>4, <1>5, <1>6, <1>7, <1>8, <1>9, <1>10 DEF Next, Handle

\* Whatever breaks, a scanner has only forgotten punches that Plasmatix has or
\* whose upload the agent could not read.
THEOREM NoPunchIsForgotten == Spec => []ForgottenIsStoredOrUnread
<1>1. IInv => ForgottenIsStoredOrUnread
  BY DEF IInv
<1> QED BY <1>1, InitIInv, StepIInv, PTL DEF Spec
-----------------------------------------------------------------------------
(* Handshakes.                                                             *)

\* The functions of FullSync are about all scanners, and requests at work have
\* their fields.
SyncTypes ==
  /\ flag = [d \in Scanners |-> flag[d]] /\ waiting = [d \in Scanners |-> waiting[d]]
  /\ swallowed = [d \in Scanners |-> swallowed[d]]

Fields(r) == r = [pc |-> r.pc, kind |-> r.kind, d |-> r.d, firmware |-> r.firmware] /\ r.d \in Scanners

RequestTypes ==
  /\ req = [c \in DOMAIN req |-> req[c]] /\ DOMAIN req \subseteq Hs!Requests
  /\ \A c \in DOMAIN req : Fields(req[c])

\* Scanner d need not be told any more.
Settled(d) == ~waiting[d] \/ swallowed[d]

\* A handler that is about to acknowledge has told its scanner, has lost its
\* answer, or has been overtaken by a further request: then the exception is
\* noted.
Acknowledging == \A c \in DOMAIN req : req[c].pc = "ack" => Settled(req[c].d)

SyncInv == SyncTypes /\ RequestTypes /\ ClearedMeansTold /\ Acknowledging

\* The initial state.
LEMMA InitSyncInv == Hs!Init => SyncInv
<1> SUFFICES ASSUME Hs!Init PROVE SyncInv
  OBVIOUS
<1>1. SyncTypes /\ ClearedMeansTold
  BY DEF Hs!Init, Hs!SyncInit, SyncTypes, ClearedMeansTold
<1>2. DOMAIN req = {} /\ req = [c \in DOMAIN req |-> req[c]]
  BY DEF Hs!Init
<1> QED BY <1>1, <1>2 DEF SyncInv, RequestTypes, Acknowledging

\* Sending the handler of request c on changes nothing else of requests.
LEMMA GotoFacts ==
  ASSUME RequestTypes, NEW c, NEW p, NEW q, Hs!At(c, q), Hs!Goto(c, p)
  PROVE  /\ RequestTypes' /\ DOMAIN req' = DOMAIN req /\ c \in DOMAIN req
         /\ \A x \in DOMAIN req : req'[x].d = req[x].d /\ (x # c => req'[x] = req[x])
         /\ req'[c].pc = p
<1>1. c \in DOMAIN req /\ req' = [req EXCEPT ![c] = [req[c] EXCEPT !.pc = p]]
  BY DEF Hs!At, Hs!Goto
<1>2. DOMAIN req' = DOMAIN req /\ req'[c] = [req[c] EXCEPT !.pc = p]
      /\ (\A x \in DOMAIN req : x # c => req'[x] = req[x])
      /\ req' = [x \in DOMAIN req' |-> req'[x]]
  BY <1>1 DEF RequestTypes
<1>3. Fields(req[c])
  BY <1>1 DEF RequestTypes
<1>4. req'[c] = [pc |-> p, kind |-> req[c].kind, d |-> req[c].d, firmware |-> req[c].firmware]
  BY <1>2, <1>3 DEF Fields
<1>5. Fields(req'[c]) /\ req'[c].d = req[c].d /\ req'[c].pc = p
  BY <1>3, <1>4 DEF Fields
<1>6. RequestTypes'
  BY <1>2, <1>5 DEF RequestTypes
<1> QED BY <1>1, <1>2, <1>5, <1>6

\* Nor does the end of request c.
LEMMA DoneFacts ==
  ASSUME RequestTypes, NEW c, Hs!Done(c)
  PROVE  RequestTypes' /\ DOMAIN req' \subseteq DOMAIN req /\ \A x \in DOMAIN req' : req'[x] = req[x]
BY DEF RequestTypes, Hs!Done

\* A step that leaves the flags alone and lets no handler begin to acknowledge.
LEMMA NobodyAcknowledges ==
  ASSUME SyncInv, UNCHANGED <<flag, waiting, swallowed>>, RequestTypes',
         \A x \in DOMAIN req' : req'[x].pc = "ack" => x \in DOMAIN req /\ req'[x] = req[x]
  PROVE  SyncInv'
BY DEF SyncInv, SyncTypes, ClearedMeansTold, Acknowledging, Settled

\* The answer to the scanner comes before the acknowledgement.
LEMMA AnswerKeeps == ASSUME SyncInv, NEW c, Hs!Answer(c) PROVE SyncInv'
<1>0. RequestTypes /\ SyncTypes
  BY DEF SyncInv
<1>1. CASE Hs!At(c, "stamp 9999") /\ Hs!Done(c) /\ UNCHANGED Hs!syncVars
  BY <1>0, <1>1, DoneFacts, NobodyAcknowledges DEF Hs!syncVars
<1>2. CASE Hs!At(c, "stamp 0") /\ Hs!Goto(c, "ack") /\ (Hs!Told(req[c].d) \/ Hs!Lost(req[c].d))
  <2>1. /\ RequestTypes' /\ DOMAIN req' = DOMAIN req /\ c \in DOMAIN req
        /\ \A x \in DOMAIN req : req'[x].d = req[x].d /\ (x # c => req'[x] = req[x])
    BY <1>0, <1>2, GotoFacts
  <2>2. req[c].d \in Scanners /\ \A x \in DOMAIN req : req[x].d \in Scanners
    BY <1>0, <2>1 DEF RequestTypes, Fields
  <2>3. SyncTypes' /\ flag' = flag /\ Settled(req[c].d)' /\ \A d \in Scanners : Settled(d) => Settled(d)'
    <3>1. CASE Hs!Told(req[c].d)
      BY <1>0, <2>1, <2>2, <3>1 DEF SyncTypes, Settled, Hs!Told
    <3>2. CASE Hs!Lost(req[c].d)
      BY <1>0, <2>1, <2>2, <3>2 DEF SyncTypes, Settled, Hs!Lost
    <3> QED BY <1>2, <3>1, <3>2
  <2>4. ClearedMeansTold'
    BY <2>3 DEF SyncInv, ClearedMeansTold, Settled
  <2>5. Acknowledging'
    BY <2>1, <2>2, <2>3 DEF SyncInv, Acknowledging, Settled
  <2> QED BY <2>1, <2>3, <2>4, <2>5 DEF SyncInv
<1> QED BY <1>1, <1>2 DEF Hs!Answer

\* Only what is settled is acknowledged.
LEMMA AckKeeps == ASSUME SyncInv, NEW c, Hs!ackFullSync(c) PROVE SyncInv'
<1>0. RequestTypes /\ SyncTypes
  BY DEF SyncInv
<1>1. RequestTypes' /\ DOMAIN req' \subseteq DOMAIN req /\ \A x \in DOMAIN req' : req'[x] = req[x]
  BY <1>0, DoneFacts DEF Hs!ackFullSync
<1>2. CASE UNCHANGED Hs!syncVars
  BY <1>1, <1>2, NobodyAcknowledges DEF Hs!syncVars
<1>3. CASE Hs!Cleared(req[c].d)
  <2>1. c \in DOMAIN req /\ req[c].d \in Scanners /\ Settled(req[c].d)
    BY <1>0 DEF SyncInv, RequestTypes, Fields, Acknowledging, Hs!ackFullSync, Hs!At
  <2>2. waiting' = waiting /\ swallowed' = swallowed /\ SyncTypes'
    BY <1>0, <1>3 DEF SyncTypes, Hs!Cleared
  <2>3. ClearedMeansTold'
    BY <1>0, <1>3, <2>1, <2>2 DEF SyncInv, SyncTypes, ClearedMeansTold, Settled, Hs!Cleared
  <2>4. Acknowledging'
    BY <1>1, <2>2 DEF SyncInv, Acknowledging, Settled
  <2> QED BY <1>1, <2>2, <2>3, <2>4 DEF SyncInv
<1> QED BY <1>2, <1>3 DEF Hs!ackFullSync

\* A further request is noted as swallowed if a handler is about to acknowledge.
LEMMA RequestKeeps == ASSUME SyncInv, NEW d \in Scanners, Hs!RequestFullSync(d) PROVE SyncInv'
<1> DEFINE acking == \E c \in Hs!Requests : Hs!At(c, "ack") /\ req[c].d = d
<1>0. SyncTypes /\ RequestTypes /\ req' = req
  BY DEF SyncInv, Hs!RequestFullSync
<1>1. flag' = [flag EXCEPT ![d] = TRUE] /\ waiting' = [waiting EXCEPT ![d] = TRUE]
      /\ swallowed' = [swallowed EXCEPT ![d] = acking]
  BY DEF Hs!RequestFullSync, Hs!Asked
<1>2. \A c \in DOMAIN req : req[c].pc = "ack" /\ req[c].d = d => acking
  BY <1>0 DEF RequestTypes, Hs!At
<1> HIDE DEF acking
<1>3. SyncTypes' /\ flag'[d] /\ swallowed'[d] = acking
      /\ \A e \in Scanners \ {d} : flag'[e] = flag[e] /\ (Settled(e)' <=> Settled(e))
  BY <1>0, <1>1 DEF SyncTypes, Settled
<1>4. ClearedMeansTold'
  BY <1>3 DEF SyncInv, ClearedMeansTold, Settled
<1>5. Acknowledging'
  BY <1>0, <1>2, <1>3 DEF SyncInv, Acknowledging, Settled, RequestTypes, Fields
<1>6. RequestTypes'
  BY <1>0 DEF RequestTypes
<1> QED BY <1>3, <1>4, <1>5, <1>6 DEF SyncInv

\* Only answers, acknowledgements and requests touch the flags.
LEMMA SyncStep == SyncInv /\ [Hs!Next]_(Hs!vars) => SyncInv'
<1> SUFFICES ASSUME SyncInv, [Hs!Next]_(Hs!vars) PROVE SyncInv'
  OBVIOUS
<1>0. RequestTypes
  BY DEF SyncInv
<1>1. ASSUME NEW c \in Hs!Requests, Hs!Observe(c) PROVE SyncInv'
  <2>1. Hs!Done(c) \/ (Hs!At(c, "observe") /\ Hs!Goto(c, "fetch"))
    BY <1>1 DEF Hs!Observe
  <2> QED BY <1>0, <1>1, <2>1, DoneFacts, GotoFacts, NobodyAcknowledges DEF Hs!Observe, Hs!syncVars
<1>2. ASSUME NEW c \in Hs!Requests, Hs!fetchDeviceState(c) PROVE SyncInv'
  <2>1. PICK p \in {"stamp 0", "stamp 9999"} : Hs!At(c, "fetch") /\ Hs!Goto(c, p)
    BY <1>2 DEF Hs!fetchDeviceState
  <2> QED BY <1>0, <1>2, <2>1, GotoFacts, NobodyAcknowledges DEF Hs!fetchDeviceState, Hs!syncVars
<1>3. ASSUME NEW c \in Hs!Requests, NEW d \in Scanners, NEW k, Hs!Request(c, d, k) PROVE SyncInv'
  <2> DEFINE r == [pc |-> "observe", kind |-> k, d |-> d, firmware |-> firmware[d]]
  <2>1. req' = [x \in DOMAIN req \cup {c} |-> IF x # c THEN req[x] ELSE r] /\ c \notin DOMAIN req
    BY <1>3 DEF Hs!Request
  <2>2. Fields(r) /\ r.pc # "ack"
    BY DEF Fields
  <2> HIDE DEF r
  <2>3. RequestTypes' /\ \A x \in DOMAIN req' : req'[x].pc = "ack" => x \in DOMAIN req /\ req'[x] = req[x]
    BY <1>0, <2>1, <2>2 DEF RequestTypes
  <2> QED BY <1>3, <2>3, NobodyAcknowledges DEF Hs!Request, Hs!syncVars
<1>4. CASE UNCHANGED <<req, flag, waiting, swallowed>>
  BY <1>0, <1>4, NobodyAcknowledges DEF RequestTypes
<1>5. ASSUME NEW d, Hs!handlePing(d) PROVE SyncInv'
  BY <1>4, <1>5 DEF Hs!handlePing, Hs!syncVars
<1>6. CASE (Hs!Tracker \/ Hs!Surroundings) /\ UNCHANGED <<req, Hs!syncVars>>
  BY <1>4, <1>6 DEF Hs!syncVars
<1>7. CASE Hs!Restart
  <2>1. DOMAIN req' = {} /\ req' = [x \in DOMAIN req' |-> req'[x]]
    BY <1>7 DEF Hs!Restart
  <2> QED BY <1>7, <2>1, NobodyAcknowledges DEF Hs!Restart, Hs!syncVars, RequestTypes
<1>8. CASE UNCHANGED Hs!vars
  BY <1>4, <1>8 DEF Hs!vars, Hs!syncVars
<1> QED BY <1>1, <1>2, <1>3, <1>5, <1>6, <1>7, <1>8, AnswerKeeps, AckKeeps, RequestKeeps DEF Hs!Next, Hs!Handle

\* A request for a full synchronisation is cleared only if its scanner has been
\* told since, or one of the two exceptions has happened, for any number of
\* scanners, handshakes under way and requests, whatever faults, changes and
\* restarts there are.
THEOREM ClearedRequestsWereServed == Hs!Spec => []ClearedMeansTold
<1>1. SyncInv => ClearedMeansTold
  BY DEF SyncInv
<1> QED BY <1>1, InitSyncInv, SyncStep, PTL DEF Hs!Spec
=============================================================================
