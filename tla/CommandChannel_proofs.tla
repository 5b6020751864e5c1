------------------------ MODULE CommandChannel_proofs ------------------------
(***************************************************************************)
(* The handlers of the long poll, for any number of commands, pages and    *)
(* faults: one login at a time, a repetition that uses a newer session, a  *)
(* grid that is whole, and a binary to restart from.                       *)
(*                                                                         *)
(* Each property needs what makes it inductive: what is known of a session *)
(* before it is used (Sessions), of a grid before it is complete (Grids),  *)
(* and, for the binary, that the running image can be set aside by one     *)
(* update only (Images).                                                   *)
(***************************************************************************)
EXTENDS CommandChannel, TLAPS

FetchPCs  == {"client", "wait", "login", "query", "list", "refused"}
UpdatePCs == {"download", "clear", "aside", "swap", "rollback", "restart"}
PCs       == FetchPCs \cup UpdatePCs \cup Outside \cup {"respond", "remove"}

Task == [force : BOOLEAN, retried : BOOLEAN, ch : BOOLEAN, session : Nat, page : Nat,
         foreign : BOOLEAN, outcome : {None, "data", "error"}, after : Nat, disturbed : BOOLEAN]

TypeOK ==
  /\ pc \in [Requests -> PCs] /\ task \in [Requests -> Task]
  /\ client \in Nat /\ fresh \in BOOLEAN /\ sessions \in Nat
  /\ loginCh \in Fetches \cup {None}
  /\ live \subseteq Nat /\ query \subseteq Nat \X Requests
  /\ faults \in 0..MaxFaults
  /\ up \in {"up", "down", "gone"} /\ platform \in {"unix", "windows"}
  /\ bin \in {None, "running", "other"} /\ old \in {None, "running", "other"}
  /\ torn \in BOOLEAN

\* A handler is where a command of its kind can be, and only in a process that
\* is up.
Kinds ==
  \A r \in Requests :
    /\ pc[r] \in FetchPCs => r \in Fetches
    /\ pc[r] \in UpdatePCs => r \in Updates
    /\ up # "up" => pc[r] \in Outside
    /\ pc[r] = "held" => ~task[r].retried

\* Sessions are numbered by login: nobody has one that is still to come, and
\* what a repetition finds in the cache was put there after it invalidated.
Sessions ==
  /\ client <= sessions /\ \A s \in live : s <= sessions
  /\ \A r \in Requests :
       /\ task[r].session <= sessions /\ task[r].after <= sessions
       /\ pc[r] \in {"client", "wait", "login"} /\ task[r].retried =>
            client = 0 \/ client > task[r].after

\* While a grid is fetched, ZKBio keeps its query, or another has replaced it.
Grids ==
  \A r \in Requests :
    /\ pc[r] = "query" => ~task[r].foreign
    /\ pc[r] = "list" =>
         /\ ~task[r].foreign \/ task[r].disturbed
         /\ r \in Direct \/ task[r].session \notin live \/ task[r].disturbed
              \/ <<task[r].session, r>> \in query

\* An update that has set the running image aside, until the process ends.
Past(r) == pc[r] \in {"swap", "rollback", "restart"} \/ (pc[r] = "respond" /\ task[r].outcome = "data")

\* On Windows one update at a time is past setting the running image aside,
\* and the image is where it has put it.  On Unix binPath is never empty.
Images ==
  /\ platform = "unix" => bin # None /\ \A r \in Updates : pc[r] \notin {"clear", "aside", "rollback"}
  /\ platform = "windows" /\ up = "up" /\ ~torn =>
       /\ bin # "running" => old = "running"
       /\ \A r \in Updates : Past(r) =>
            old = "running" /\ bin = IF pc[r] \in {"swap", "rollback"} THEN None ELSE "other"
       /\ \A r, q \in Updates : Past(r) /\ Past(q) => r = q

WebInv == /\ TypeOK /\ Kinds /\ OneLogin /\ Sessions /\ RetryUsesANewerSession
          /\ Grids /\ WholeUnlessReplaced

IInv == WebInv /\ Images /\ ImageToRestartFrom

-----------------------------------------------------------------------------
(* Types and kinds.                                                        *)

LEMMA Tasks ==
  /\ Idle \in Task /\ \A o \in {"data", "error"} : Reporting(o) \in Task
  /\ \A t \in Task, s \in Nat : Using(t, s) \in Task
<1>1. Idle \in Task
  BY DEF Idle, Task, None
<1>2. ASSUME NEW o \in {"data", "error"} PROVE Reporting(o) \in Task
  BY <1>1, <1>2 DEF Reporting, Task, Idle
<1>3. ASSUME NEW t \in Task, NEW s \in Nat PROVE Using(t, s) \in Task
  BY <1>3 DEF Using, Task
<1> QED BY <1>1, <1>2, <1>3

\* What a handler reports, and what it knows when it begins to use a session.
LEMMA TaskFields ==
  /\ \A o : LET t == Reporting(o)
            IN ~t.retried /\ ~t.foreign /\ ~t.ch /\ t.session = 0 /\ t.after = 0 /\ t.outcome = o
  /\ ~Idle.retried /\ ~Idle.foreign /\ ~Idle.ch /\ Idle.session = 0 /\ Idle.after = 0 /\ Idle.outcome = None
  /\ \A t \in Task, s \in Nat : LET u == Using(t, s)
       IN /\ u.session = s /\ ~u.foreign /\ u.retried = t.retried /\ u.after = t.after /\ u.ch = t.ch
          /\ u.outcome = t.outcome
BY DEF Reporting, Idle, Using, Task

\* One handler moves: what it knows is a task again.
LEMMA MoveTypes ==
  ASSUME TypeOK, NEW r \in Requests, NEW p \in PCs, NEW t \in Task, Goto(r, p),
         task' = [task EXCEPT ![r] = t]
  PROVE  pc' \in [Requests -> PCs] /\ task' \in [Requests -> Task]
BY DEF TypeOK, Goto

LEMMA FaultType ==
  ASSUME TypeOK, Fault \/ UNCHANGED faults PROVE faults' \in 0..MaxFaults
BY WebSessionAssumption DEF TypeOK, Fault

LEMMA CloseTypes ==
  ASSUME NEW t \in [Requests -> Task]
  PROVE  /\ CloseCh(t) \in [Requests -> Task]
         /\ \A r \in Requests : /\ ~CloseCh(t)[r].ch /\ CloseCh(t)[r].retried = t[r].retried
                                /\ CloseCh(t)[r].foreign = t[r].foreign /\ CloseCh(t)[r].session = t[r].session
                                /\ CloseCh(t)[r].after = t[r].after /\ CloseCh(t)[r].outcome = t[r].outcome
                                /\ CloseCh(t)[r].disturbed = t[r].disturbed
<1>1. ASSUME NEW r \in Requests
      PROVE  LET u == [t[r] EXCEPT !.ch = FALSE]
             IN /\ u \in Task /\ ~u.ch /\ u.retried = t[r].retried /\ u.foreign = t[r].foreign
                /\ u.session = t[r].session /\ u.after = t[r].after /\ u.outcome = t[r].outcome
                /\ u.disturbed = t[r].disturbed
  <2>1. t[r] \in Task
    OBVIOUS
  <2> QED BY <2>1 DEF Task
<1>2. CloseCh(t) = [r \in Requests |-> [t[r] EXCEPT !.ch = FALSE]]
  BY DEF CloseCh
<1> QED BY <1>1, <1>2

LEMMA StopTypes ==
  ASSUME TypeOK, NEW next \in {"down", "gone"}, NEW scripts, Stop(next, scripts), faults' \in 0..MaxFaults, torn' \in BOOLEAN
  PROVE  TypeOK' /\ Kinds' /\ \A r \in Requests : pc'[r] \in Outside /\ task'[r] = Idle
<1>1. \A r \in Requests : pc'[r] \in Outside /\ task'[r] = Idle
  BY DEF Stop, Ended, Outside
<1>2. pc' \in [Requests -> PCs]
  BY DEF Stop, PCs, Ended, Outside, TypeOK
<1>3. task' \in [Requests -> Task]
  BY Tasks DEF Stop
<1>4. TypeOK'
  BY <1>2, <1>3 DEF TypeOK, Stop, zkbioVars
<1>5. Kinds'
  BY <1>1, TaskFields DEF Kinds, FetchPCs, UpdatePCs, Ended, Outside
<1> QED BY <1>1, <1>4, <1>5

-----------------------------------------------------------------------------
(* The sessions and the grids.                                             *)

\* One handler moves, and leaves SessionManager and ZKBio alone.
LEMMA OneMoves ==
  ASSUME WebInv, NEW r \in Requests, NEW p \in PCs, NEW t \in Task, Goto(r, p),
         task' = [task EXCEPT ![r] = t], UNCHANGED <<managerVars, zkbioVars, up>>, TypeOK',
         up = "up", pc[r] # "login", p \notin {"login", "held"},
         p \in FetchPCs => r \in Fetches, p \in UpdatePCs => r \in Updates,
         p = "wait" /\ t.ch => loginCh # None,
         t.session <= sessions, t.after <= sessions,
         p \in {"client", "wait"} /\ t.retried => client = 0 \/ client > t.after,
         p \in {"query", "list"} /\ t.retried => t.session > t.after,
         p = "query" => ~t.foreign,
         p = "list" => /\ ~t.foreign \/ t.disturbed
                       /\ r \in Direct \/ t.session \notin live \/ t.disturbed \/ <<t.session, r>> \in query,
         p = "respond" /\ t.outcome = "data" => ~t.foreign \/ t.disturbed
  PROVE  WebInv'
<1> USE DEF WebInv
<1>1. /\ pc'[r] = p /\ task'[r] = t
      /\ \A x \in Requests \ {r} : pc'[x] = pc[x] /\ task'[x] = task[x]
  BY DEF TypeOK, Goto
<1>2. /\ client' = client /\ sessions' = sessions /\ loginCh' = loginCh /\ live' = live
      /\ query' = query /\ up' = up
  BY DEF managerVars, zkbioVars
<1>3. Fetches \subseteq Requests
  BY DEF Requests
<1>4. Kinds'
  BY <1>1, <1>2 DEF Kinds
<1>5. OneLogin'
  BY <1>1, <1>2, <1>3 DEF OneLogin
<1>6. Sessions'
  BY <1>1, <1>2 DEF Sessions
<1>7. RetryUsesANewerSession'
  BY <1>1, <1>2, <1>3 DEF RetryUsesANewerSession
<1>8. Grids'
  BY <1>1, <1>2 DEF Grids
<1>9. WholeUnlessReplaced'
  BY <1>1, <1>3 DEF WholeUnlessReplaced
<1> QED BY <1>4, <1>5, <1>6, <1>7, <1>8, <1>9

\* A report is nobody's grid; most handlers end that way.
LEMMA ReportKeeps ==
  ASSUME WebInv, NEW r \in Requests, NEW o \in {"data", "error"}, Report(r, o),
         UNCHANGED <<managerVars, zkbioVars, up>>, TypeOK', up = "up", pc[r] # "login"
  PROVE  WebInv'
<1>1. Reporting(o) \in Task /\ "respond" \in PCs \ (FetchPCs \cup UpdatePCs)
  BY Tasks DEF PCs, FetchPCs, UpdatePCs
<1>2. /\ ~Reporting(o).retried /\ ~Reporting(o).foreign
      /\ Reporting(o).session = 0 /\ Reporting(o).after = 0
  BY TaskFields
<1>3. 0 <= sessions
  BY DEF WebInv, TypeOK
<1> QED BY <1>1, <1>2, <1>3, OneMoves DEF Report

\* A handler goes on and knows what it knew.
LEMMA GotoKeeps ==
  ASSUME WebInv, NEW r \in Requests, NEW p \in PCs \ {"login", "held", "query", "list", "wait", "respond"},
         Goto(r, p), UNCHANGED <<task, managerVars, zkbioVars, up>>, TypeOK', up = "up", pc[r] # "login",
         p \in FetchPCs => r \in Fetches, p \in UpdatePCs => r \in Updates,
         p = "client" => ~task[r].retried
  PROVE  WebInv'
<1>1. task[r] \in Task /\ task' = [task EXCEPT ![r] = task[r]]
  BY DEF WebInv, TypeOK
<1>2. task[r].session <= sessions /\ task[r].after <= sessions
  BY DEF WebInv, Sessions
<1> QED BY <1>1, <1>2, OneMoves

\* Every handler ends with the process.
LEMMA StopKeeps ==
  ASSUME WebInv, NEW next \in {"down", "gone"}, NEW scripts, Stop(next, scripts), faults' \in 0..MaxFaults, torn' \in BOOLEAN
  PROVE  WebInv'
<1>1. TypeOK' /\ Kinds' /\ \A r \in Requests : pc'[r] \in Outside /\ task'[r] = Idle
  BY StopTypes DEF WebInv
<1>2. client' = 0 /\ loginCh' = None /\ sessions' = sessions /\ live' = live
  BY DEF Stop, zkbioVars
<1>3. Fetches \subseteq Requests
  BY DEF Requests
<1>4. OneLogin'
  BY <1>1, <1>2, <1>3 DEF OneLogin, Ended, Outside
<1>5. Sessions'
  BY <1>1, <1>2, TaskFields DEF Sessions, WebInv, TypeOK, Ended, Outside
<1>6. RetryUsesANewerSession' /\ WholeUnlessReplaced' /\ Grids'
  BY <1>1, <1>3 DEF RetryUsesANewerSession, WholeUnlessReplaced, Grids, Ended, Outside
<1> QED BY <1>1, <1>4, <1>5, <1>6 DEF WebInv

\* The steps of a fetch that look at SessionManager or at ZKBio only.
LEMMA FetchReads ==
  ASSUME WebInv, NEW r \in Requests, UNCHANGED channelVars,
         ClientCached(r) \/ ClientWait(r) \/ Woken(r) \/ WaitTimeout(r) \/ PostList(r)
  PROVE  WebInv'
<1> USE DEF WebInv
<1>0. /\ task[r] \in Task /\ pc[r] \in FetchPCs /\ r \in Fetches /\ up = "up" /\ up' = up
      /\ sessions \in Nat /\ client \in Nat /\ client <= sessions
      /\ task[r].session <= sessions /\ task[r].after <= sessions
      /\ UNCHANGED <<managerVars, zkbioVars>>
  <2>1. task[r] \in Task /\ sessions \in Nat /\ client \in Nat
    BY DEF TypeOK
  <2>2. pc[r] \in FetchPCs
    BY DEF ClientCached, ClientWait, Woken, WaitTimeout, PostList, FetchPCs
  <2>3. up = "up" /\ r \in Fetches
    BY <2>2 DEF Kinds, FetchPCs, Ended, Outside
  <2> QED BY <2>1, <2>2, <2>3 DEF Sessions, channelVars, ClientCached, ClientWait, Woken, WaitTimeout, PostList
<1>1. ASSUME NEW p \in PCs, NEW t \in Task, Goto(r, p), task' = [task EXCEPT ![r] = t],
             Fault \/ UNCHANGED faults
      PROVE  TypeOK'
  <2>1. pc' \in [Requests -> PCs] /\ task' \in [Requests -> Task] /\ faults' \in 0..MaxFaults
    BY <1>1, MoveTypes, FaultType
  <2> QED BY <1>0, <2>1 DEF TypeOK, channelVars, managerVars, zkbioVars
<1>2. CASE ClientCached(r)
  <2> DEFINE t == Using(task[r], client)
  <2>1. t \in Task /\ CallPC(r) \in {"query", "list"} /\ CallPC(r) \in PCs
    BY <1>0, Tasks DEF CallPC, PCs, FetchPCs
  <2>2. t.session = client /\ ~t.foreign /\ t.retried = task[r].retried /\ t.after = task[r].after
    BY <1>0, TaskFields
  <2>3. Goto(r, CallPC(r)) /\ task' = [task EXCEPT ![r] = t] /\ client # 0 /\ pc[r] = "client" /\ faults' = faults
    BY <1>2 DEF ClientCached, Cached
  <2>4. t.retried => t.session > t.after
    BY <1>0, <2>2, <2>3 DEF Sessions
  <2>5. CallPC(r) = "list" => r \in Direct
    BY DEF CallPC
  <2>6. CallPC(r) \notin UpdatePCs \cup {"login", "held"}
    BY DEF CallPC, UpdatePCs
  <2> HIDE DEF t
  <2>7. TypeOK'
    BY <1>1, <2>1, <2>3
  <2> QED BY <1>0, <2>1, <2>2, <2>3, <2>4, <2>5, <2>6, <2>7, OneMoves
<1>3. CASE ClientWait(r)
  <2> DEFINE t == [task[r] EXCEPT !.ch = TRUE]
  <2>1. /\ t \in Task /\ t.session = task[r].session /\ t.after = task[r].after
        /\ t.retried = task[r].retried
    BY <1>0 DEF Task
  <2>2. Goto(r, "wait") /\ task' = [task EXCEPT ![r] = t] /\ loginCh # None /\ pc[r] = "client" /\ faults' = faults
    BY <1>3 DEF ClientWait
  <2>3. "wait" \in PCs \ UpdatePCs
    BY DEF PCs, FetchPCs, UpdatePCs
  <2>4. t.retried => client = 0 \/ client > t.after
    BY <1>0, <2>1, <2>2 DEF Sessions
  <2> HIDE DEF t
  <2> QED BY <1>0, <1>1, <2>1, <2>2, <2>3, <2>4, OneMoves
<1>4. CASE Woken(r)
  <2> DEFINE t == [task[r] EXCEPT !.force = FALSE]
  <2>1. /\ t \in Task /\ t.session = task[r].session /\ t.after = task[r].after
        /\ t.retried = task[r].retried
    BY <1>0 DEF Task
  <2>2. Goto(r, "client") /\ task' = [task EXCEPT ![r] = t] /\ pc[r] = "wait" /\ faults' = faults
    BY <1>4 DEF Woken
  <2>3. "client" \in PCs \ UpdatePCs
    BY DEF PCs, FetchPCs, UpdatePCs
  <2>4. t.retried => client = 0 \/ client > t.after
    BY <1>0, <2>1, <2>2 DEF Sessions
  <2> HIDE DEF t
  <2> QED BY <1>0, <1>1, <2>1, <2>2, <2>3, <2>4, OneMoves
<1>5. ASSUME Report(r, "error"), pc[r] # "login", Fault \/ UNCHANGED faults PROVE WebInv'
  <2>1. TypeOK'
    BY <1>1, <1>5, Tasks DEF Report, PCs
  <2> QED BY <1>0, <1>5, <2>1, ReportKeeps
<1>6. CASE WaitTimeout(r)
  BY <1>5, <1>6 DEF WaitTimeout
<1>7. CASE PostList(r)
  <2> DEFINE other == r \notin Direct /\ task[r].page < Pages /\ <<task[r].session, r>> \notin query
             last  == task[r].page + 1 = Answers(r)
             t1 == [Reporting("data") EXCEPT !.foreign = task[r].foreign \/ other,
                                             !.disturbed = task[r].disturbed]
             t2 == [task[r] EXCEPT !.page = task[r].page + 1, !.foreign = task[r].foreign \/ other]
  <2>1. pc[r] = "list"
    BY <1>7 DEF PostList
  <2>2. CASE task[r].session \in live /\ last /\ Goto(r, "respond") /\ task' = [task EXCEPT ![r] = t1] /\ UNCHANGED faults
    <3>1. /\ t1 \in Task /\ t1.foreign = (task[r].foreign \/ other) /\ t1.disturbed = task[r].disturbed
          /\ t1.session = 0 /\ t1.after = 0
      <4>1. Reporting("data") \in Task /\ Reporting("data").session = 0 /\ Reporting("data").after = 0
        BY Tasks, TaskFields
      <4> QED BY <1>0, <4>1 DEF Task
    <3>2. ~t1.foreign \/ t1.disturbed
      BY <1>0, <2>1, <2>2, <3>1 DEF Grids
    <3>3. "respond" \in PCs \ (FetchPCs \cup UpdatePCs)
      BY DEF PCs, FetchPCs, UpdatePCs
    <3> HIDE DEF t1
    <3>4. TypeOK'
      BY <1>1, <2>2, <3>1, <3>3
    <3>5. t1.session <= sessions /\ t1.after <= sessions
      BY <1>0, <3>1
    <3> QED BY <1>0, <2>1, <2>2, <3>1, <3>2, <3>3, <3>4, <3>5, OneMoves
  <2>3. CASE task[r].session \in live /\ ~last /\ UNCHANGED pc /\ task' = [task EXCEPT ![r] = t2] /\ UNCHANGED faults
    <3>1. /\ t2 \in Task /\ t2.foreign = (task[r].foreign \/ other) /\ t2.disturbed = task[r].disturbed
          /\ t2.session = task[r].session /\ t2.after = task[r].after /\ t2.retried = task[r].retried
      <4>1. task[r].page + 1 \in Nat /\ (task[r].foreign \/ other) \in BOOLEAN
        BY <1>0 DEF Task
      <4> QED BY <1>0, <4>1 DEF Task
    <3>2. /\ ~t2.foreign \/ t2.disturbed
          /\ r \in Direct \/ t2.session \notin live \/ t2.disturbed \/ <<t2.session, r>> \in query
      BY <1>0, <2>1, <2>3, <3>1 DEF Grids
    <3>3. "list" \in PCs \ UpdatePCs
      BY DEF PCs, FetchPCs, UpdatePCs
    <3>4. Goto(r, "list")
      BY <2>1, <2>3 DEF Goto, TypeOK
    <3>5. t2.retried => t2.session > t2.after
      BY <1>0, <2>1, <3>1 DEF RetryUsesANewerSession
    <3> HIDE DEF t2
    <3> QED BY <1>0, <1>1, <2>1, <2>3, <3>1, <3>2, <3>3, <3>4, <3>5, OneMoves
  <2>4. CASE Goto(r, "refused") /\ UNCHANGED task /\ UNCHANGED faults
    <3>1. "refused" \in PCs \ (UpdatePCs \cup {"login", "held", "query", "list", "wait", "respond", "client"})
      BY DEF PCs, FetchPCs, UpdatePCs
    <3>2. task' = [task EXCEPT ![r] = task[r]]
      BY <2>4 DEF TypeOK
    <3>3. TypeOK'
      BY <1>0, <1>1, <2>4, <3>1, <3>2
    <3> QED BY <1>0, <2>1, <2>4, <3>1, <3>3, GotoKeeps
  <2>5. CASE Report(r, "error") /\ (Fault \/ UNCHANGED faults)
    BY <1>5, <2>1, <2>5
  <2>6. \/ /\ task[r].session \in live /\ UNCHANGED faults
           /\ IF last THEN Goto(r, "respond") ELSE UNCHANGED pc
           /\ task' = [task EXCEPT ![r] = IF last THEN t1 ELSE t2]
        \/ /\ UNCHANGED faults
           /\ IF task[r].retried THEN Report(r, "error") ELSE Goto(r, "refused") /\ UNCHANGED task
        \/ Fault /\ Report(r, "error")
    BY <1>7, Zenon DEF PostList
  <2> HIDE DEF t1, t2, last
  <2> QED BY <2>2, <2>3, <2>4, <2>5, <2>6
<1> QED BY <1>2, <1>3, <1>4, <1>6, <1>7

\* A login begins.
LEMMA LoginKeeps ==
  ASSUME WebInv, NEW r \in Requests, UNCHANGED channelVars, ClientLogin(r)
  PROVE  WebInv'
<1> USE DEF WebInv
<1>1. /\ pc[r] = "client" /\ pc' = [pc EXCEPT ![r] = "login"] /\ loginCh = None /\ loginCh' = r /\ task' = task
      /\ client' = client /\ sessions' = sessions /\ live' = live /\ query' = query /\ up' = up
      /\ UNCHANGED <<fresh, faults, platform, bin, old, torn>>
  BY DEF ClientLogin, Goto, channelVars, zkbioVars
<1>2. r \in Fetches /\ up = "up" /\ Fetches \subseteq Requests
  BY <1>1 DEF Kinds, FetchPCs, Ended, Outside, Requests
<1>3. pc'[r] = "login" /\ \A x \in Requests \ {r} : pc'[x] = pc[x]
  BY <1>1 DEF TypeOK
<1>4. TypeOK'
  BY <1>1, <1>2 DEF TypeOK, PCs, FetchPCs
<1>5. Kinds'
  BY <1>1, <1>2, <1>3 DEF Kinds, FetchPCs, UpdatePCs
<1>6. OneLogin'
  BY <1>1, <1>2, <1>3, WebSessionAssumption DEF OneLogin, None
<1>7. Sessions'
  BY <1>1, <1>3 DEF Sessions
<1>8. RetryUsesANewerSession' /\ WholeUnlessReplaced'
  BY <1>1, <1>2, <1>3 DEF RetryUsesANewerSession, WholeUnlessReplaced
<1>9. Grids'
  BY <1>1, <1>3 DEF Grids
<1> QED BY <1>4, <1>5, <1>6, <1>7, <1>8, <1>9

\* It ends, well or not, and everybody who waits is woken.
LEMMA LoginEndsKeeps ==
  ASSUME WebInv, NEW r \in Requests, UNCHANGED channelVars,
         LoginFailed(r) \/ \E cookie \in BOOLEAN : LoggedIn(r, cookie)
  PROVE  WebInv'
<1> USE DEF WebInv
<1>1. pc[r] = "login" /\ up' = up /\ loginCh' = None /\ query' = query /\ UNCHANGED <<platform, bin, old, torn>>
  BY DEF LoginFailed, LoggedIn, channelVars, zkbioVars
<1>2. r \in Fetches /\ up = "up" /\ Fetches \subseteq Requests /\ r # None /\ task[r] \in Task
  BY <1>1, WebSessionAssumption DEF Kinds, FetchPCs, Ended, Outside, Requests, None, TypeOK
<1>3. \A x \in Fetches : pc[x] = "login" => x = r
  BY <1>1, <1>2 DEF OneLogin
<1>4. PICK p \in {"respond"} \cup {CallPC(r)}, t \in Task :
        /\ pc' = [pc EXCEPT ![r] = p] /\ task' = CloseCh([task EXCEPT ![r] = t])
        /\ p = "respond" => ~t.foreign /\ t.session = 0 /\ t.after = 0
        /\ p # "respond" => ~t.foreign /\ t.session = sessions + 1 /\ t.after = task[r].after
        /\ p = "respond" => client' = client /\ fresh' = fresh /\ sessions' = sessions /\ live' = live
        /\ p # "respond" => /\ sessions' = sessions + 1 /\ client' \in {0, sessions + 1}
                            /\ fresh' \in BOOLEAN /\ live' \subseteq live \cup {sessions + 1}
        /\ Fault \/ UNCHANGED faults
  <2>1. CASE LoginFailed(r)
    <3>1. Reporting("error") \in Task /\ ~Reporting("error").foreign /\ Reporting("error").session = 0
          /\ Reporting("error").after = 0
      BY Tasks, TaskFields
    <3> QED BY <2>1, <3>1 DEF LoginFailed, Goto, zkbioVars
  <2>2. ASSUME NEW cookie \in BOOLEAN, LoggedIn(r, cookie)
        PROVE  /\ pc' = [pc EXCEPT ![r] = CallPC(r)]
               /\ task' = CloseCh([task EXCEPT ![r] = Using(task[r], sessions + 1)])
               /\ sessions' = sessions + 1 /\ client' \in {0, sessions + 1}
               /\ fresh' \in BOOLEAN /\ live' \subseteq live \cup {sessions + 1}
               /\ Fault \/ UNCHANGED faults
    BY <2>2 DEF LoggedIn, Goto
  <2>3. /\ Using(task[r], sessions + 1) \in Task /\ ~Using(task[r], sessions + 1).foreign
        /\ Using(task[r], sessions + 1).session = sessions + 1
        /\ Using(task[r], sessions + 1).after = task[r].after
    <3>1. sessions + 1 \in Nat
      BY DEF TypeOK
    <3> QED BY <1>2, <3>1, Tasks, TaskFields, Zenon
  <2>4. CallPC(r) # "respond"
    BY DEF CallPC
  <2> QED BY <2>1, <2>2, <2>3, <2>4
<1> DEFINE n == [task EXCEPT ![r] = t]
<1>5. n \in [Requests -> Task] /\ n[r] = t /\ \A x \in Requests \ {r} : n[x] = task[x]
  BY DEF TypeOK
<1>6. /\ task' \in [Requests -> Task]
      /\ \A x \in Requests : /\ ~task'[x].ch /\ task'[x].retried = n[x].retried
                             /\ task'[x].foreign = n[x].foreign /\ task'[x].session = n[x].session
                             /\ task'[x].after = n[x].after /\ task'[x].outcome = n[x].outcome
                             /\ task'[x].disturbed = n[x].disturbed
  <2> HIDE DEF n
  <2>1. task' = CloseCh(n)
    BY <1>4 DEF n
  <2> QED BY <1>5, <2>1, CloseTypes
<1> HIDE DEF n
<1>7. pc'[r] = p /\ \A x \in Requests \ {r} : pc'[x] = pc[x]
  BY <1>4 DEF TypeOK
<1>8. p \in {"respond", "query", "list"} /\ (p = "list" => r \in Direct)
  BY <1>4 DEF CallPC
<1>9. sessions \in Nat /\ sessions' \in Nat /\ sessions <= sessions' /\ client' \in Nat /\ client' <= sessions'
  BY <1>4 DEF TypeOK, Sessions
<1>10. TypeOK'
  <2>1. pc' \in [Requests -> PCs]
    BY <1>4, <1>8 DEF TypeOK, PCs, FetchPCs
  <2>2. faults' \in 0..MaxFaults
    BY <1>4, FaultType
  <2>3. live' \subseteq Nat
    BY <1>4, <1>9 DEF TypeOK
  <2>4. fresh' \in BOOLEAN
    BY <1>4, Zenon DEF TypeOK
  <2> QED BY <1>1, <1>6, <1>9, <2>1, <2>2, <2>3, <2>4 DEF TypeOK
<1>11. Kinds'
  BY <1>1, <1>2, <1>5, <1>6, <1>7, <1>8 DEF Kinds, FetchPCs, UpdatePCs
<1>12. OneLogin'
  BY <1>1, <1>2, <1>3, <1>6, <1>7, <1>8 DEF OneLogin
<1>13. Sessions'
  <2>1. ASSUME NEW x \in Requests
        PROVE  /\ task'[x].session <= sessions' /\ task'[x].after <= sessions'
               /\ pc'[x] \in {"client", "wait", "login"} /\ task'[x].retried =>
                    client' = 0 \/ client' > task'[x].after
    <3>1. CASE x = r
      <4>1. task[r].after \in Nat /\ task[r].after <= sessions
        BY <1>2 DEF Task, Sessions
      <4>2. task'[r].session = t.session /\ task'[r].after = t.after /\ pc'[r] \notin {"client", "wait", "login"}
        BY <1>5, <1>6, <1>7, <1>8
      <4>3. CASE p = "respond"
        BY <1>4, <1>9, <3>1, <4>2, <4>3
      <4>4. CASE p # "respond"
        BY <1>4, <1>9, <3>1, <4>1, <4>2, <4>4
      <4> QED BY <4>3, <4>4
    <3>2. CASE x # r
      <4>1. /\ task[x] \in Task /\ task[x].session <= sessions /\ task[x].after <= sessions
            /\ pc[x] \in {"client", "wait", "login"} /\ task[x].retried => client = 0 \/ client > task[x].after
        BY DEF Sessions, TypeOK
      <4>2. /\ task'[x].session = task[x].session /\ task'[x].after = task[x].after
            /\ task'[x].retried = task[x].retried /\ pc'[x] = pc[x]
        BY <1>5, <1>6, <1>7, <3>2
      <4>3. task[x].session \in Nat /\ task[x].after \in Nat
        BY <4>1 DEF Task
      <4> QED BY <1>4, <1>9, <4>1, <4>2, <4>3
    <3> QED BY <3>1, <3>2
  <2>2. \A l \in live' : l <= sessions'
    <3>1. \A l \in live : l \in Nat /\ l <= sessions
      BY DEF Sessions, TypeOK
    <3>2. CASE p = "respond"
      BY <1>4, <3>1, <3>2
    <3>3. CASE p # "respond"
      BY <1>4, <1>9, <3>1, <3>3
    <3> QED BY <3>2, <3>3
  <2> QED BY <1>9, <2>1, <2>2 DEF Sessions
<1>14. RetryUsesANewerSession'
  <2>1. task[r].after \in Nat /\ task[r].after <= sessions
    BY <1>2 DEF Task, Sessions
  <2>2. p # "respond" => t.session > t.after
    BY <1>4, <1>9, <2>1
  <2> QED BY <1>2, <1>5, <1>6, <1>7, <1>8, <2>2 DEF RetryUsesANewerSession
<1>15. WholeUnlessReplaced'
  <2>1. ~task'[r].foreign
    BY <1>2, <1>4, <1>5, <1>6
  <2>2. \A x \in Fetches \ {r} : /\ pc'[x] = pc[x] /\ task'[x].outcome = task[x].outcome
                               /\ task'[x].foreign = task[x].foreign /\ task'[x].disturbed = task[x].disturbed
    BY <1>2, <1>5, <1>6, <1>7
  <2> QED BY <2>1, <2>2 DEF WholeUnlessReplaced
<1>16. Grids'
  <2>1. \A x \in Requests : task[x].session \in live' => task[x].session \in live
    BY <1>4, <1>9 DEF Sessions, TypeOK, Task
  <2>2. ~t.foreign /\ query' = query
    BY <1>1, <1>4
  <2>3. ASSUME NEW x \in Requests
        PROVE  /\ pc'[x] = "query" => ~task'[x].foreign
               /\ pc'[x] = "list" =>
                    /\ ~task'[x].foreign \/ task'[x].disturbed
                    /\ x \in Direct \/ task'[x].session \notin live' \/ task'[x].disturbed
                         \/ <<task'[x].session, x>> \in query'
    <3>1. CASE x = r
      <4>1. ~task'[r].foreign
        BY <1>5, <1>6, <2>2
      <4> QED BY <1>7, <1>8, <3>1, <4>1
    <3>2. CASE x # r
      <4>1. /\ task'[x].session = task[x].session /\ task'[x].foreign = task[x].foreign
            /\ task'[x].disturbed = task[x].disturbed /\ pc'[x] = pc[x]
        BY <1>5, <1>6, <1>7, <3>2
      <4> QED BY <2>1, <2>2, <4>1 DEF Grids
    <3> QED BY <3>1, <3>2
  <2> QED BY <2>3 DEF Grids
<1> QED BY <1>10, <1>11, <1>12, <1>13, <1>14, <1>15, <1>16

\* A query is stated: every grid that is being fetched with this session is
\* disturbed, and no other.
LEMMA QueryKeeps ==
  ASSUME WebInv, NEW r \in Requests, UNCHANGED channelVars, PostQuery(r)
  PROVE  WebInv'
<1> USE DEF WebInv
<1>1. /\ pc[r] = "query" /\ up' = up /\ live' = live /\ UNCHANGED <<platform, bin, old, torn>>
      /\ client' = client /\ fresh' = fresh /\ loginCh' = loginCh /\ sessions' = sessions
  BY DEF PostQuery, channelVars, managerVars
<1>2. r \in Fetches /\ up = "up" /\ Fetches \subseteq Requests /\ task[r] \in Task
  BY <1>1 DEF Kinds, FetchPCs, Ended, Outside, Requests, TypeOK
<1>3. PICK taken \in BOOLEAN, next \in {"list", "respond"} :
        /\ Fault \/ UNCHANGED faults
        /\ Goto(r, next)
        /\ query' = IF taken /\ task[r].session \in live
                      THEN (query \ OfSession(task[r].session)) \cup {<<task[r].session, r>>} ELSE query
        /\ task' = [x \in DOMAIN task |->
             IF x # r THEN [task[x] EXCEPT !.disturbed = task[x].disturbed \/
                              (taken /\ pc[x] = "list" /\ task[x].session = task[r].session)]
             ELSE IF next = "list" THEN [task[r] EXCEPT !.disturbed = ~taken]
             ELSE Reporting("error")]
  <2>1. ASSUME NEW c, IF c THEN UNCHANGED faults ELSE Fault PROVE Fault \/ UNCHANGED faults
    BY <2>1
  <2> QED BY <2>1, Zenon DEF PostQuery
<1> DEFINE D(x) == task[x].disturbed \/ (taken /\ pc[x] = "list" /\ task[x].session = task[r].session)
<1>4. ASSUME NEW x \in Requests, NEW b \in BOOLEAN
      PROVE  LET u == [task[x] EXCEPT !.disturbed = b]
             IN /\ u \in Task /\ u.disturbed = b
                /\ u.ch = task[x].ch /\ u.retried = task[x].retried /\ u.outcome = task[x].outcome
                /\ u.foreign = task[x].foreign /\ u.session = task[x].session /\ u.after = task[x].after
  <2>1. task[x] \in Task
    BY DEF TypeOK
  <2> QED BY <2>1 DEF Task
<1>5. DOMAIN task = Requests /\ (\A x \in Requests : D(x) \in BOOLEAN) /\ (~taken) \in BOOLEAN
  BY DEF TypeOK, Task
<1>6. task' = [x \in Requests |-> IF x # r THEN [task[x] EXCEPT !.disturbed = D(x)]
                                  ELSE IF next = "list" THEN [task[r] EXCEPT !.disturbed = ~taken]
                                  ELSE Reporting("error")]
  BY <1>3, <1>5
<1> HIDE DEF D
<1>7. ASSUME NEW x \in Requests, x # r
      PROVE  /\ task'[x] \in Task /\ task'[x].disturbed = D(x)
             /\ task'[x].ch = task[x].ch /\ task'[x].retried = task[x].retried /\ task'[x].outcome = task[x].outcome
             /\ task'[x].foreign = task[x].foreign /\ task'[x].session = task[x].session
             /\ task'[x].after = task[x].after
  <2>1. task'[x] = [task[x] EXCEPT !.disturbed = D(x)]
    BY <1>6, <1>7
  <2> QED BY <1>4, <1>5, <2>1
<1>8. next = "list" =>
        /\ task'[r] \in Task /\ task'[r].disturbed = ~taken
        /\ task'[r].retried = task[r].retried /\ task'[r].foreign = task[r].foreign
        /\ task'[r].session = task[r].session /\ task'[r].after = task[r].after
  <2> SUFFICES ASSUME next = "list" PROVE /\ task'[r] \in Task /\ task'[r].disturbed = ~taken
                /\ task'[r].retried = task[r].retried /\ task'[r].foreign = task[r].foreign
                /\ task'[r].session = task[r].session /\ task'[r].after = task[r].after
    OBVIOUS
  <2>1. task'[r] = [task[r] EXCEPT !.disturbed = ~taken]
    BY <1>6
  <2>2. task[r] \in Task /\ (~taken) \in BOOLEAN
    BY <1>2, <1>5
  <2> QED BY <2>1, <2>2 DEF Task
<1>9. next = "respond" =>
        /\ task'[r] \in Task /\ ~task'[r].retried /\ ~task'[r].foreign
        /\ task'[r].session = 0 /\ task'[r].after = 0 /\ task'[r].outcome = "error"
  <2>1. next = "respond" => task'[r] = Reporting("error")
    BY <1>6
  <2> QED BY <2>1, Tasks, TaskFields
<1>10. pc'[r] = next /\ \A x \in Requests \ {r} : pc'[x] = pc[x]
  BY <1>3 DEF Goto, TypeOK
<1>11. task[r].session \in Nat /\ task[r].session <= sessions /\ task[r].after <= sessions /\ sessions \in Nat
  BY <1>2 DEF Task, Sessions, TypeOK
<1>12. TypeOK'
  <2>1. pc' \in [Requests -> PCs]
    BY <1>3 DEF Goto, TypeOK, PCs, FetchPCs
  <2>2. query' \subseteq Nat \X Requests
    BY <1>3, <1>11 DEF TypeOK
  <2>3. \A x \in Requests : task'[x] \in Task
    BY <1>7, <1>8, <1>9
  <2>4. task' \in [Requests -> Task]
    BY <1>6, <2>3
  <2>5. faults' \in 0..MaxFaults
    BY <1>3, FaultType
  <2> QED BY <1>1, <2>1, <2>2, <2>4, <2>5 DEF TypeOK
<1>13. Kinds'
  BY <1>1, <1>2, <1>7, <1>10 DEF Kinds, FetchPCs, UpdatePCs
<1>14. OneLogin'
  BY <1>1, <1>2, <1>7, <1>10 DEF OneLogin
<1>15. Sessions'
  BY <1>1, <1>7, <1>8, <1>9, <1>10, <1>11 DEF Sessions
<1>16. RetryUsesANewerSession'
  BY <1>1, <1>2, <1>7, <1>8, <1>9, <1>10 DEF RetryUsesANewerSession
<1>17. \A x \in Requests \ {r} : task[x].disturbed => task'[x].disturbed
  BY <1>7 DEF D
<1>18. WholeUnlessReplaced'
  BY <1>2, <1>7, <1>9, <1>10, <1>17 DEF WholeUnlessReplaced
<1>19. Grids'
  <2>1. ASSUME NEW x \in Requests, x # r, pc'[x] = "list", x \notin Direct, task[x].session \in live, ~task'[x].disturbed
        PROVE  <<task[x].session, x>> \in query'
    <3>1. pc[x] = "list" /\ ~task[x].disturbed /\ (taken => task[x].session # task[r].session)
      BY <1>7, <1>10, <2>1 DEF D
    <3>2. <<task[x].session, x>> \in query
      BY <2>1, <3>1 DEF Grids
    <3>3. taken => <<task[x].session, x>> \notin OfSession(task[r].session)
      BY <3>1 DEF OfSession
    <3> QED BY <1>3, <3>2, <3>3
  <2>2. next = "list" /\ task[r].session \in live /\ taken => <<task[r].session, r>> \in query'
    BY <1>3
  <2>3. ASSUME NEW x \in Requests
        PROVE  /\ pc'[x] = "query" => ~task'[x].foreign
               /\ pc'[x] = "list" =>
                    /\ ~task'[x].foreign \/ task'[x].disturbed
                    /\ x \in Direct \/ task'[x].session \notin live' \/ task'[x].disturbed
                         \/ <<task'[x].session, x>> \in query'
    <3>1. CASE x = r
      BY <1>1, <1>8, <1>10, <2>2, <3>1 DEF Grids
    <3>2. CASE x # r
      BY <1>1, <1>7, <1>10, <1>17, <2>1, <3>2 DEF Grids
    <3> QED BY <3>1, <3>2
  <2> QED BY <2>3 DEF Grids
<1> QED BY <1>12, <1>13, <1>14, <1>15, <1>16, <1>18, <1>19

\* The cache is emptied and the fetch begins again.
LEMMA InvalidateKeeps ==
  ASSUME WebInv, NEW r \in Requests, UNCHANGED channelVars, Invalidate(r)
  PROVE  WebInv'
<1> USE DEF WebInv
<1> DEFINE t == [task[r] EXCEPT !.retried = TRUE, !.force = TRUE, !.after = sessions]
<1>1. /\ pc[r] = "refused" /\ up' = up /\ live' = live /\ query' = query /\ UNCHANGED <<platform, bin, old, torn>>
      /\ client' = 0 /\ fresh' = FALSE /\ loginCh' = loginCh /\ sessions' = sessions /\ faults' = faults
      /\ pc' = [pc EXCEPT ![r] = "client"]
  BY DEF Invalidate, Goto, channelVars, zkbioVars
<1>2. r \in Fetches /\ up = "up" /\ Fetches \subseteq Requests /\ task[r] \in Task /\ sessions \in Nat
  BY <1>1 DEF Kinds, FetchPCs, Ended, Outside, Requests, TypeOK
<1>3. task' = [task EXCEPT ![r] = t]
  BY DEF Invalidate, TypeOK
<1>4. t \in Task /\ t.session = task[r].session /\ t.after = sessions
  BY <1>2 DEF Task
<1> HIDE DEF t
<1>5. /\ pc'[r] = "client" /\ task'[r] = t
      /\ \A x \in Requests \ {r} : pc'[x] = pc[x] /\ task'[x] = task[x]
  BY <1>1, <1>3 DEF TypeOK
<1>6. TypeOK'
  <2>1. pc' \in [Requests -> PCs] /\ task' \in [Requests -> Task]
    BY <1>1, <1>3, <1>4 DEF TypeOK, PCs, FetchPCs
  <2> QED BY <1>1, <2>1 DEF TypeOK
<1>7. Kinds'
  BY <1>1, <1>2, <1>5 DEF Kinds, FetchPCs, UpdatePCs
<1>8. OneLogin'
  BY <1>1, <1>2, <1>5 DEF OneLogin
<1>9. Sessions'
  BY <1>1, <1>2, <1>4, <1>5 DEF Sessions
<1>10. RetryUsesANewerSession' /\ WholeUnlessReplaced'
  BY <1>2, <1>5 DEF RetryUsesANewerSession, WholeUnlessReplaced
<1>11. Grids'
  BY <1>1, <1>5 DEF Grids
<1> QED BY <1>6, <1>7, <1>8, <1>9, <1>10, <1>11

\* The cache expires, ZKBio ends a session, or the service is started.
LEMMA OutsideKeeps ==
  ASSUME WebInv, \/ Expire /\ UNCHANGED channelVars
                 \/ ZKBio /\ UNCHANGED channelVars
                 \/ Start
                 \/ UNCHANGED vars
  PROVE  WebInv'
<1> USE DEF WebInv
<1>1. /\ pc' = pc /\ task' = task /\ client' = client /\ loginCh' = loginCh /\ sessions' = sessions
      /\ (Fault \/ UNCHANGED faults) /\ live' \subseteq live /\ query' \subseteq query /\ up' \in {up, "up"}
      /\ \A p \in query : p[1] \in live' => p \in query'
  BY DEF Expire, ZKBio, EndSession, OfSession, Start, vars, webVars, channelVars, managerVars, zkbioVars
<1>2. TypeOK'
  <2>1. fresh' \in BOOLEAN /\ torn' \in BOOLEAN
    BY DEF Expire, ZKBio, EndSession, Start, vars, webVars, channelVars, managerVars, TypeOK
  <2>2. bin' \in {None, "running", "other"} /\ old' \in {None, "running", "other"} /\ platform' = platform
    BY DEF Expire, ZKBio, EndSession, Start, vars, webVars, channelVars, TypeOK
  <2>3. faults' \in 0..MaxFaults
    BY <1>1, FaultType
  <2> QED BY <1>1, <2>1, <2>2, <2>3 DEF TypeOK
<1>3. Kinds' /\ OneLogin' /\ RetryUsesANewerSession' /\ WholeUnlessReplaced' /\ Sessions'
  BY <1>1 DEF Kinds, OneLogin, RetryUsesANewerSession, WholeUnlessReplaced, Sessions
<1>4. Grids'
  BY <1>1 DEF Grids
<1> QED BY <1>2, <1>3, <1>4

\* The other commands.
LEMMA ChannelKeeps ==
  ASSUME WebInv, NEW r \in Requests,
         \/ pollOnce(r) \/ Download(r) \/ ClearOld(r) \/ MoveAside(r) \/ MoveIn(r) \/ Rollback(r)
         \/ postResponse(r) \/ restartService(r) \/ selfUninstall(r) \/ Uninstalled(r)
  PROVE  WebInv'
<1> USE DEF WebInv
<1>0. torn \in BOOLEAN /\ (torn \/ Between) \in BOOLEAN /\ faults \in 0..MaxFaults
  BY DEF TypeOK
<1>1. CASE restartService(r) \/ Uninstalled(r)
  BY <1>0, <1>1, StopKeeps DEF restartService, Uninstalled
<1>2. CASE Stop("down", {r}) /\ torn' = (torn \/ Between) /\ UNCHANGED faults
  BY <1>0, <1>2, StopKeeps
<1>3. CASE /\ ~restartService(r) /\ ~Uninstalled(r)
           /\ ~(Stop("down", {r}) /\ torn' = (torn \/ Between) /\ UNCHANGED faults)
  <2>1. /\ pc[r] \notin FetchPCs /\ up = "up" /\ up' = up /\ platform' = platform
        /\ UNCHANGED <<managerVars, zkbioVars>> /\ (Fault \/ UNCHANGED faults)
    <3>1. pc[r] \notin FetchPCs /\ (pc[r] = "held" => up = "up") /\ pc[r] \notin Outside \ {"held"}
      BY <1>3 DEF pollOnce, Download, ClearOld, MoveAside, MoveIn, Rollback, postResponse, selfUninstall,
                  FetchPCs, Ended, Outside
    <3>2. up = "up"
      BY <3>1 DEF Kinds
    <3>3. up' = up /\ platform' = platform /\ UNCHANGED <<managerVars, zkbioVars>>
      BY <1>3 DEF pollOnce, Download, ClearOld, MoveAside, MoveIn, Rollback, postResponse, selfUninstall,
                  channelVars
    <3>4. Fault \/ UNCHANGED faults
      BY <1>3 DEF pollOnce, Download, ClearOld, MoveAside, MoveIn, Rollback, postResponse, selfUninstall, Fails
    <3> QED BY <3>1, <3>2, <3>3, <3>4
  <2>2. bin' \in {None, "running", "other"} /\ old' \in {None, "running", "other"}
    BY <1>3 DEF pollOnce, Download, ClearOld, MoveAside, MoveIn, Rollback, postResponse, selfUninstall,
                channelVars, TypeOK
  <2>3. torn' \in BOOLEAN
    <3>1. torn' = torn \/ torn' = TRUE
      BY <1>3 DEF pollOnce, Download, ClearOld, MoveAside, MoveIn, Rollback, postResponse, selfUninstall,
                  channelVars
    <3> QED BY <3>1 DEF TypeOK
  <2>4. ASSUME pc' \in [Requests -> PCs], task' \in [Requests -> Task] PROVE TypeOK'
    <3>1. faults' \in 0..MaxFaults
      BY <2>1, FaultType
    <3>2. /\ client' = client /\ fresh' = fresh /\ loginCh' = loginCh /\ sessions' = sessions
          /\ live' = live /\ query' = query
      BY <2>1 DEF managerVars, zkbioVars
    <3> QED BY <2>1, <2>2, <2>3, <2>4, <3>1, <3>2 DEF TypeOK
  <2>5. ASSUME NEW o \in {"data", "error"}, Report(r, o) PROVE WebInv'
    <3>1. pc' \in [Requests -> PCs] /\ task' \in [Requests -> Task]
      BY <2>5, MoveTypes, Tasks DEF Report, PCs
    <3> QED BY <2>1, <2>4, <2>5, <3>1, ReportKeeps DEF FetchPCs
  <2>6. ASSUME NEW p \in PCs \ {"login", "held", "query", "list", "wait", "respond"}, Goto(r, p), UNCHANGED task,
               p \in FetchPCs => r \in Fetches, p \in UpdatePCs => r \in Updates,
               p = "client" => ~task[r].retried
        PROVE  WebInv'
    <3>1. pc' \in [Requests -> PCs] /\ task' \in [Requests -> Task]
      BY <2>6 DEF Goto, TypeOK
    <3> QED BY <2>1, <2>4, <2>6, <3>1, GotoKeeps DEF FetchPCs
  <2>7. CASE pollOnce(r)
    <3>1. pc[r] = "held" /\ ~task[r].retried
      BY <2>7 DEF pollOnce, Kinds
    <3>2. {"client", "download", "lost"} \subseteq PCs /\ "client" \notin UpdatePCs /\ "download" \notin FetchPCs
          /\ "lost" \notin FetchPCs \cup UpdatePCs
      BY DEF PCs, FetchPCs, UpdatePCs, Ended, Outside
    <3> QED BY <2>5, <2>6, <2>7, <3>1, <3>2 DEF pollOnce
  <2>8. {"clear", "swap", "aside", "rollback"} \subseteq UpdatePCs \cap PCs /\ UpdatePCs \cap FetchPCs = {}
    BY DEF PCs, FetchPCs, UpdatePCs
  <2>9. pc[r] \in UpdatePCs => r \in Updates
    BY DEF Kinds
  <2>10. CASE Download(r)
    <3>1. r \in Updates
      BY <2>9, <2>10 DEF Download, UpdatePCs
    <3> QED BY <2>5, <2>6, <2>8, <2>10, <3>1 DEF Download
  <2>11. CASE ClearOld(r)
    <3>1. r \in Updates
      BY <2>9, <2>11 DEF ClearOld, UpdatePCs
    <3> QED BY <2>5, <2>6, <2>8, <2>11, <3>1 DEF ClearOld
  <2>12. CASE MoveAside(r)
    <3>1. r \in Updates
      BY <2>9, <2>12 DEF MoveAside, UpdatePCs
    <3> QED BY <2>5, <2>6, <2>8, <2>12, <3>1 DEF MoveAside
  <2>13. CASE MoveIn(r)
    <3>1. r \in Updates
      BY <2>9, <2>13 DEF MoveIn, UpdatePCs
    <3> QED BY <2>5, <2>6, <2>8, <2>13, <3>1 DEF MoveIn
  <2>14. CASE Rollback(r)
    BY <2>5, <2>14 DEF Rollback
  <2>15. CASE postResponse(r)
    <3>1. PICK p \in {"restart", "remove", "done"} : Goto(r, p) /\ task' = [task EXCEPT ![r] = Idle]
                                                     /\ (p = "restart" => r \in Updates)
      BY <2>15 DEF postResponse
    <3>2. p \in PCs \ FetchPCs /\ p \notin {"login", "held", "wait", "client", "query", "list", "respond"}
          /\ (p \in UpdatePCs => r \in Updates)
      BY <3>1 DEF PCs, FetchPCs, UpdatePCs, Ended, Outside
    <3>3. Idle \in Task /\ Idle.session = 0 /\ Idle.after = 0 /\ pc[r] # "login" /\ 0 <= sessions
      BY <2>1, Tasks, TaskFields DEF FetchPCs, TypeOK
    <3>4. TypeOK'
      BY <2>4, <3>1, <3>2, <3>3, MoveTypes
    <3> QED BY <2>1, <3>1, <3>2, <3>3, <3>4, OneMoves
  <2>16. CASE selfUninstall(r)
    <3>1. Goto(r, "done") /\ UNCHANGED task
      BY <1>3, <2>16 DEF selfUninstall
    <3>2. "done" \in PCs \ (FetchPCs \cup UpdatePCs)
      BY DEF PCs, FetchPCs, UpdatePCs, Ended, Outside
    <3> QED BY <2>6, <3>1, <3>2
  <2> QED BY <1>3, <2>7, <2>10, <2>11, <2>12, <2>13, <2>14, <2>15, <2>16
<1> QED BY <1>1, <1>2, <1>3

LEMMA WebStep == WebInv /\ [Next]_vars => WebInv'
<1> SUFFICES ASSUME WebInv, [Next]_vars PROVE WebInv'
  OBVIOUS
<1>1. ASSUME NEW r \in Requests, pollOnce(r) \/ Uninstalled(r) PROVE WebInv'
  BY <1>1, ChannelKeeps
<1>2. ASSUME NEW r \in Requests, Handle(r) PROVE WebInv'
  BY <1>2, ChannelKeeps, FetchReads, LoginKeeps, LoginEndsKeeps, QueryKeeps, InvalidateKeeps DEF Handle, Fetch
<1>3. ASSUME NEW r \in Requests, FetchFault(r), UNCHANGED channelVars PROVE WebInv'
  BY <1>3, FetchReads, LoginEndsKeeps DEF FetchFault
<1>4. CASE Crash
  <2>1. faults' \in 0..MaxFaults
    BY <1>4, FaultType DEF Crash, WebInv
  <2>2. torn' \in BOOLEAN
    BY <1>4 DEF Crash, WebInv, TypeOK
  <2> QED BY <1>4, <2>1, <2>2, StopKeeps DEF Crash
<1> QED BY <1>1, <1>2, <1>3, <1>4, OutsideKeeps DEF Next
-----------------------------------------------------------------------------
(* The image to restart from.                                              *)

MidSwap == {"swap", "rollback"}

\* A step that touches no image, and on Windows moves no update across a rename.
LEMMA QuietKeeps ==
  ASSUME TypeOK, Images, ImageToRestartFrom,
         up' = up, platform' = platform, bin' = bin, old' = old, torn' = torn,
         \A u \in Updates :
           /\ platform = "windows" => (Past(u)' => Past(u)) /\ (pc'[u] \in MidSwap <=> pc[u] \in MidSwap)
           /\ platform = "unix" => pc'[u] \notin {"clear", "aside", "rollback"}
  PROVE  Images' /\ ImageToRestartFrom'
<1>1. CASE platform = "unix"
  <2>1. bin # None
    BY <1>1 DEF Images
  <2> QED BY <1>1, <2>1 DEF Images, ImageToRestartFrom
<1>2. CASE platform = "windows"
  <2>1. ASSUME up = "up", ~torn
        PROVE  /\ bin # "running" => old = "running"
               /\ \A u \in Updates : Past(u)' =>
                    old = "running" /\ bin = IF pc'[u] \in MidSwap THEN None ELSE "other"
               /\ \A u, q \in Updates : Past(u)' /\ Past(q)' => u = q
    BY <1>2, <2>1 DEF Images, MidSwap
  <2>2. Images'
    BY <1>2, <2>1 DEF Images, MidSwap
  <2>3. ImageToRestartFrom'
    BY <1>2 DEF ImageToRestartFrom, MidSwap
  <2> QED BY <2>2, <2>3
<1> QED BY <1>1, <1>2 DEF TypeOK

\* A handler that is no update, or an update that goes on without a rename.
LEMMA MoveQuiet ==
  ASSUME TypeOK, Images, ImageToRestartFrom, NEW r \in Requests, NEW p \in PCs, NEW t \in Task, Goto(r, p),
         task' = [task EXCEPT ![r] = t], up' = up, platform' = platform, bin' = bin, old' = old, torn' = torn,
         r \in Updates =>
           /\ platform = "windows" => /\ (p \in MidSwap \cup {"restart"} \/ (p = "respond" /\ t.outcome = "data")) => Past(r)
                                      /\ (p \in MidSwap <=> pc[r] \in MidSwap)
           /\ platform = "unix" => p \notin {"clear", "aside", "rollback"}
  PROVE  Images' /\ ImageToRestartFrom'
<1>1. /\ pc'[r] = p /\ task'[r] = t
      /\ \A x \in Requests \ {r} : pc'[x] = pc[x] /\ task'[x] = task[x]
  BY DEF TypeOK, Goto
<1>2. Updates \subseteq Requests
  BY DEF Requests
<1>3. ASSUME NEW u \in Updates
      PROVE  /\ platform = "windows" => (Past(u)' => Past(u)) /\ (pc'[u] \in MidSwap <=> pc[u] \in MidSwap)
             /\ platform = "unix" => pc'[u] \notin {"clear", "aside", "rollback"}
  <2>1. CASE u = r
    BY <1>1, <2>1 DEF Past, MidSwap
  <2>2. CASE u # r
    BY <1>1, <1>2, <2>2 DEF Past, MidSwap, Images
  <2> QED BY <2>1, <2>2
<1> QED BY <1>3, QuietKeeps

\* What the fetches, ZKBio and the clock do concerns no update.
LEMMA WebQuiet ==
  ASSUME WebInv, Images, ImageToRestartFrom, UNCHANGED channelVars,
         \/ \E r \in Requests : Fetch(r) \/ FetchFault(r)
         \/ Expire \/ ZKBio
  PROVE  Images' /\ ImageToRestartFrom'
<1> USE DEF WebInv
<1>1. up' = up /\ platform' = platform /\ bin' = bin /\ old' = old /\ torn' = torn
  BY DEF channelVars
<1>2. ASSUME NEW u \in Updates PROVE pc'[u] = pc[u] /\ task'[u].outcome = task[u].outcome
  <2>1. u \in Requests /\ u \notin Fetches /\ task[u] \in Task
    BY ChannelAssumption DEF Requests, TypeOK
  <2>2. CASE Expire \/ ZKBio
    BY <2>2 DEF Expire, ZKBio, EndSession
  <2>3. ASSUME NEW r \in Requests, Fetch(r) \/ FetchFault(r)
        PROVE  pc'[u] = pc[u] /\ task'[u].outcome = task[u].outcome
    <3>1. pc[r] \in FetchPCs
      BY <2>3 DEF Fetch, FetchFault, ClientCached, ClientLogin, ClientWait, Woken, LoggedIn, PostQuery, PostList,
                  Invalidate, WaitTimeout, LoginFailed, FetchPCs
    <3>2. r # u
      BY <2>1, <3>1 DEF Kinds
    <3>3. pc'[u] = pc[u]
      BY <2>1, <2>3, <3>2 DEF Fetch, FetchFault, ClientCached, ClientLogin, ClientWait, Woken, LoggedIn, PostQuery,
            PostList, Invalidate, WaitTimeout, LoginFailed, Goto, Report, TypeOK
    <3>4. CASE \E t : task' = [task EXCEPT ![r] = t]
      BY <2>1, <3>2, <3>3, <3>4 DEF TypeOK
    <3>5. CASE \E t \in Task : task' = CloseCh([task EXCEPT ![r] = t])
      <4>1. PICK t \in Task : task' = CloseCh([task EXCEPT ![r] = t])
        BY <3>5
      <4>2. [task EXCEPT ![r] = t] \in [Requests -> Task] /\ [task EXCEPT ![r] = t][u] = task[u]
        BY <2>1, <3>2 DEF TypeOK
      <4> QED BY <2>1, <3>3, <4>1, <4>2, CloseTypes
    <3>6. CASE PostQuery(r)
      <4>1. PICK D \in [Requests -> BOOLEAN] : task'[u] = [task[u] EXCEPT !.disturbed = D[u]]
        <5>1. PICK taken \in BOOLEAN, next \in {"list", "respond"} :
                task' = [x \in DOMAIN task |->
                  IF x # r THEN [task[x] EXCEPT !.disturbed = task[x].disturbed \/
                                   (taken /\ pc[x] = "list" /\ task[x].session = task[r].session)]
                  ELSE IF next = "list" THEN [task[r] EXCEPT !.disturbed = ~taken]
                  ELSE Reporting("error")]
          BY <3>6, Zenon DEF PostQuery
        <5> DEFINE b == task[u].disturbed \/ (taken /\ pc[u] = "list" /\ task[u].session = task[r].session)
        <5>2. task'[u] = [task[u] EXCEPT !.disturbed = b] /\ b \in BOOLEAN
          BY <2>1, <3>2, <5>1 DEF TypeOK
        <5> HIDE DEF b
        <5>3. [x \in Requests |-> b] \in [Requests -> BOOLEAN] /\ [x \in Requests |-> b][u] = b
          BY <2>1, <5>2
        <5> QED BY <5>2, <5>3
      <4> QED BY <2>1, <3>3, <4>1 DEF Task
    <3>7. CASE task' = task
      BY <3>3, <3>7
    <3>8. CASE LoginFailed(r) \/ LoggedIn(r, TRUE) \/ LoggedIn(r, FALSE)
      <4>1. Reporting("error") \in Task /\ Using(task[r], sessions + 1) \in Task
        BY Tasks DEF TypeOK
      <4>2. task' = CloseCh([task EXCEPT ![r] = Reporting("error")])
            \/ task' = CloseCh([task EXCEPT ![r] = Using(task[r], sessions + 1)])
        BY <3>8 DEF LoginFailed, LoggedIn, TypeOK
      <4> QED BY <3>5, <4>1, <4>2
    <3>9. CASE ClientCached(r) \/ ClientWait(r) \/ Woken(r) \/ PostList(r) \/ Invalidate(r) \/ WaitTimeout(r)
      BY <3>4, <3>7, <3>9, <2>1, <3>2 DEF ClientCached, ClientWait, Woken, PostList, Invalidate, WaitTimeout, Report, TypeOK
    <3>10. CASE ClientLogin(r)
      BY <3>7, <3>10 DEF ClientLogin
    <3> QED BY <2>3, <3>3, <3>4, <3>6, <3>8, <3>9, <3>10 DEF Fetch, FetchFault
  <2> QED BY <2>2, <2>3
<1>3. \A u \in Updates : /\ platform = "windows" => (Past(u)' => Past(u)) /\ (pc'[u] \in MidSwap <=> pc[u] \in MidSwap)
                         /\ platform = "unix" => pc'[u] \notin {"clear", "aside", "rollback"}
  BY <1>2 DEF Past, Images
<1> QED BY <1>1, <1>3, QuietKeeps
\* The steps of an update.
LEMMA UpdateImages ==
  ASSUME WebInv, Images, ImageToRestartFrom, NEW r \in Requests,
         Download(r) \/ ClearOld(r) \/ MoveAside(r) \/ MoveIn(r) \/ Rollback(r)
  PROVE  Images' /\ ImageToRestartFrom'
<1> USE DEF WebInv
<1>1. /\ pc[r] \in UpdatePCs /\ r \in Updates /\ up = "up" /\ up' = up /\ platform' = platform
      /\ platform \in {"unix", "windows"} /\ Updates \subseteq Requests
  <2>1. pc[r] \in UpdatePCs
    BY DEF Download, ClearOld, MoveAside, MoveIn, Rollback, UpdatePCs
  <2>2. r \in Updates /\ up = "up"
    BY <2>1 DEF Kinds, UpdatePCs, Ended, Outside
  <2>3. up' = up /\ platform' = platform
    BY DEF Download, ClearOld, MoveAside, MoveIn, Rollback
  <2> QED BY <2>1, <2>2, <2>3 DEF TypeOK, Requests
<1>2. ASSUME NEW p \in PCs, NEW t, Goto(r, p), task' = [task EXCEPT ![r] = t]
      PROVE  /\ pc'[r] = p /\ task'[r] = t
             /\ \A u \in Updates \ {r} : pc'[u] = pc[u] /\ task'[u] = task[u] /\ Past(u)' = Past(u)
  BY <1>1, <1>2 DEF TypeOK, Goto, Past
<1>3. "respond" \in PCs /\ {"clear", "aside", "swap", "rollback"} \subseteq PCs
  BY DEF PCs, UpdatePCs
<1>4. task' = task => task' = [task EXCEPT ![r] = task[r]]
  BY DEF TypeOK
<1>5. task[r] \in Task /\ Reporting("error") \in Task /\ Reporting("data") \in Task
  BY Tasks DEF TypeOK
<1>6. Reporting("error").outcome = "error" /\ Reporting("data").outcome = "data"
  BY TaskFields
\* An error reported with the images as they are, before the first rename or on Unix.
<1>7. ASSUME Report(r, "error"), bin' = bin, old' = old, torn' = torn, platform = "unix" \/ pc[r] \notin MidSwap
      PROVE  Images' /\ ImageToRestartFrom'
  <2>1. Goto(r, "respond") /\ task' = [task EXCEPT ![r] = Reporting("error")]
    BY <1>7 DEF Report
  <2>2. platform = "windows" => pc[r] \notin MidSwap
    BY <1>7
  <2> QED BY <1>1, <1>3, <1>5, <1>6, <1>7, <2>1, <2>2, MoveQuiet DEF MidSwap
<1>8. platform = "windows" /\ ~torn =>
        /\ bin # "running" => old = "running"
        /\ \A u \in Updates : Past(u) => old = "running" /\ bin = IF pc[u] \in MidSwap THEN None ELSE "other"
        /\ \A u, q \in Updates : Past(u) /\ Past(q) => u = q
  BY <1>1 DEF Images, MidSwap
<1>9. pc[r] \in {"clear", "aside", "rollback"} => platform = "windows"
  BY <1>1 DEF Images
<1>10. CASE Download(r)
  <2>1. pc[r] = "download" /\ bin' = bin /\ old' = old /\ torn' = torn
    BY <1>10 DEF Download
  <2>2. CASE Goto(r, IF platform = "windows" THEN "clear" ELSE "swap") /\ task' = task
    <3>1. CASE platform = "windows"
      <4>1. Goto(r, "clear")
        BY <2>2, <3>1
      <4> QED BY <1>1, <1>3, <1>4, <1>5, <2>1, <2>2, <3>1, <4>1, MoveQuiet DEF MidSwap
    <3>2. CASE platform = "unix"
      <4>1. Goto(r, "swap")
        BY <2>2, <3>2
      <4> QED BY <1>1, <1>3, <1>4, <1>5, <2>1, <2>2, <3>2, <4>1, MoveQuiet DEF MidSwap
    <3> QED BY <1>1, <3>1, <3>2
  <2> QED BY <1>7, <1>10, <2>1, <2>2 DEF Download, MidSwap
<1>11. CASE ClearOld(r)
  <2>1. pc[r] = "clear" /\ bin' = bin /\ torn' = torn /\ platform = "windows"
    BY <1>9, <1>11 DEF ClearOld
  <2>2. CASE old # "running" /\ old' = None /\ Goto(r, "aside") /\ task' = task
    <3>1. pc'[r] = "aside" /\ \A u \in Updates \ {r} : pc'[u] = pc[u] /\ Past(u)' = Past(u)
      BY <1>2, <1>3, <1>4, <2>2
    <3>2. ~Past(r)'
      BY <3>1 DEF Past
    <3>3. ~torn => bin = "running" /\ \A u \in Updates : ~Past(u)'
      BY <1>8, <2>1, <2>2, <3>1, <3>2
    <3>4. Images'
      BY <1>1, <2>1, <3>3 DEF Images
    <3>5. ImageToRestartFrom'
      BY <1>1, <2>1, <3>1 DEF ImageToRestartFrom
    <3> QED BY <3>4, <3>5
  <2> QED BY <1>7, <1>11, <2>1, <2>2 DEF ClearOld, MidSwap
<1>12. CASE MoveAside(r)
  <2>1. pc[r] = "aside" /\ torn' = torn /\ platform = "windows"
    BY <1>9, <1>12 DEF MoveAside
  <2>2. CASE bin # None /\ old # "running" /\ old' = bin /\ bin' = None /\ Goto(r, "swap") /\ task' = task
    <3>1. pc'[r] = "swap" /\ \A u \in Updates \ {r} : pc'[u] = pc[u] /\ Past(u)' = Past(u)
      BY <1>2, <1>3, <1>4, <2>2
    <3>2. ~torn => bin = "running" /\ \A u \in Updates \ {r} : ~Past(u)'
      BY <1>8, <2>1, <2>2, <3>1
    <3>3. Images'
      <4>1. CASE torn
        BY <1>1, <2>1, <4>1 DEF Images
      <4>2. CASE ~torn
        <5>1. old' = "running" /\ bin' = None
          BY <2>2, <3>2, <4>2
        <5>2. \A u \in Updates : Past(u)' => u = r
          BY <3>2, <4>2
        <5> QED BY <1>1, <2>1, <3>1, <5>1, <5>2 DEF Images
      <4> QED BY <4>1, <4>2
    <3>4. ImageToRestartFrom'
      BY <1>1, <3>1 DEF ImageToRestartFrom
    <3> QED BY <3>3, <3>4
  <2> QED BY <1>7, <1>12, <2>1, <2>2 DEF MoveAside, MidSwap
<1>13. CASE MoveIn(r)
  <2>1. pc[r] = "swap" /\ old' = old /\ torn' = torn
    BY <1>13 DEF MoveIn
  <2>2. CASE bin' = "other" /\ Report(r, "data")
    <3>1. /\ pc'[r] = "respond" /\ task'[r].outcome = "data"
          /\ \A u \in Updates \ {r} : pc'[u] = pc[u] /\ Past(u)' = Past(u)
      BY <1>2, <1>3, <1>6, <2>2 DEF Report
    <3>2. ImageToRestartFrom'
      BY <2>2 DEF ImageToRestartFrom, None
    <3>3. Images'
      <4>1. CASE platform = "unix"
        BY <1>1, <2>2, <3>1, <4>1 DEF Images, None
      <4>2. CASE platform = "windows" /\ ~torn
        <5>1. Past(r) /\ old = "running"
          BY <1>1, <1>8, <2>1, <4>2 DEF Past
        <5>2. \A u \in Updates : Past(u)' => u = r
          BY <1>1, <1>8, <3>1, <4>2, <5>1
        <5> QED BY <1>1, <2>1, <2>2, <3>1, <4>2, <5>1, <5>2 DEF Images
      <4>3. CASE platform = "windows" /\ torn
        BY <1>1, <2>1, <4>3 DEF Images
      <4> QED BY <1>1, <4>1, <4>2, <4>3
    <3> QED BY <3>2, <3>3
  <2>3. CASE bin' = bin /\ IF platform = "windows" THEN Goto(r, "rollback") /\ task' = task ELSE Report(r, "error")
    <3>1. CASE platform = "unix"
      BY <1>7, <2>1, <2>3, <3>1
    <3>2. CASE platform = "windows"
      <4>1. Goto(r, "rollback") /\ task' = task /\ Past(r)
        BY <2>1, <2>3, <3>2 DEF Past
      <4> QED BY <1>1, <1>3, <1>4, <1>5, <2>1, <2>3, <3>2, <4>1, MoveQuiet DEF MidSwap
    <3> QED BY <1>1, <3>1, <3>2
  <2> QED BY <1>13, <2>2, <2>3 DEF MoveIn
<1>14. CASE Rollback(r)
  <2>1. pc[r] = "rollback" /\ platform = "windows" /\ Report(r, "error")
    BY <1>9, <1>14 DEF Rollback
  <2>2. /\ pc'[r] = "respond" /\ task'[r].outcome = "error"
        /\ \A u \in Updates \ {r} : pc'[u] = pc[u] /\ Past(u)' = Past(u)
    BY <1>2, <1>3, <1>6, <2>1 DEF Report
  <2>3. CASE old # None /\ bin' = old /\ old' = None /\ torn' = torn
    <3>1. ImageToRestartFrom'
      BY <2>3 DEF ImageToRestartFrom
    <3>2. ~torn => old = "running" /\ \A u \in Updates : ~Past(u)'
      <4>1. Past(r)
        BY <2>1 DEF Past
      <4>2. ~Past(r)'
        BY <2>2 DEF Past
      <4> QED BY <1>1, <1>8, <2>1, <2>2, <4>1, <4>2
    <3>3. Images'
      BY <1>1, <2>1, <2>3, <3>2 DEF Images
    <3> QED BY <3>1, <3>3
  <2>4. CASE torn' = TRUE
    BY <1>1, <2>1, <2>4 DEF Images, ImageToRestartFrom
  <2> QED BY <1>14, <2>3, <2>4 DEF Rollback
<1> QED BY <1>10, <1>11, <1>12, <1>13, <1>14

LEMMA ImageStep == IInv /\ [Next]_vars => Images' /\ ImageToRestartFrom'
<1> SUFFICES ASSUME IInv, [Next]_vars PROVE Images' /\ ImageToRestartFrom'
  OBVIOUS
<1> USE DEF IInv, WebInv
<1>0. Updates \subseteq Requests
  BY DEF Requests
<1>empty. bin = None /\ up # "gone" => torn \/ Between
  BY DEF ImageToRestartFrom, Images, Between, TypeOK
<1>1. ASSUME NEW r \in Requests, pollOnce(r) PROVE Images' /\ ImageToRestartFrom'
  <2>1. /\ pc[r] = "held" /\ up' = up /\ platform' = platform /\ bin' = bin /\ old' = old /\ torn' = torn
        /\ task[r] \in Task
    BY <1>1 DEF pollOnce, channelVars, TypeOK
  <2>2. CASE Report(r, "data") /\ r \in Uninstalls \cup Others
    <3>1. r \notin Updates /\ Reporting("data") \in Task /\ "respond" \in PCs
      BY <2>2, ChannelAssumption, Tasks DEF PCs
    <3> QED BY <2>1, <2>2, <3>1, MoveQuiet DEF Report
  <2>3. ASSUME NEW p \in {"client", "download", "lost"}, Goto(r, p), task' = task PROVE Images' /\ ImageToRestartFrom'
    <3>1. p \in PCs /\ task' = [task EXCEPT ![r] = task[r]] /\ p \notin MidSwap
      BY <2>3 DEF PCs, FetchPCs, UpdatePCs, Ended, Outside, TypeOK, MidSwap
    <3> QED BY <2>1, <2>3, <3>1, MoveQuiet DEF MidSwap
  <2> QED BY <1>1, <2>2, <2>3 DEF pollOnce
<1>2. ASSUME NEW r \in Requests, postResponse(r) PROVE Images' /\ ImageToRestartFrom'
  <2>1. /\ pc[r] = "respond" /\ up' = up /\ platform' = platform /\ bin' = bin /\ old' = old /\ torn' = torn
        /\ task' = [task EXCEPT ![r] = Idle] /\ Idle \in Task
    BY <1>2, Tasks DEF postResponse, channelVars
  <2>2. PICK p \in {"restart", "remove", "done"} : Goto(r, p) /\ (p = "restart" => task[r].outcome = "data")
    BY <1>2 DEF postResponse
  <2>3. p \in PCs
    BY DEF PCs, UpdatePCs, Ended, Outside
  <2>4. p = "restart" => Past(r)
    BY <2>1, <2>2 DEF Past
  <2> QED BY <2>1, <2>2, <2>3, <2>4, MoveQuiet DEF MidSwap
<1>3. ASSUME NEW next \in {"down", "gone"}, NEW scripts, Stop(next, scripts),
             bin = None /\ next # "gone" => torn'
      PROVE  Images' /\ ImageToRestartFrom'
  <2>1. \A u \in Updates : pc'[u] \in Outside
    BY <1>0, <1>3 DEF Stop, Ended, Outside
  <2>2. bin' = bin /\ platform' = platform /\ up' = next
    BY <1>3 DEF Stop
  <2> QED BY <1>3, <2>1, <2>2 DEF Images, ImageToRestartFrom, Ended, Outside
<1>4. ASSUME NEW r \in Requests, restartService(r) PROVE Images' /\ ImageToRestartFrom'
  <2>1. Past(r) /\ r \in Updates /\ up = "up" /\ pc[r] = "restart"
    BY <1>4 DEF restartService, Past, Kinds, UpdatePCs, Ended, Outside
  <2>2. bin = None => torn
    BY <2>1 DEF Images, TypeOK, None
  <2>3. bin = None => torn'
    BY <1>4, <2>2 DEF restartService
  <2> QED BY <1>3, <1>4, <2>3 DEF restartService
<1>5. ASSUME NEW r \in Requests, selfUninstall(r) PROVE Images' /\ ImageToRestartFrom'
  <2>1. CASE Stop("down", {r}) /\ torn' = (torn \/ Between)
    <3>1. bin = None => torn'
      BY <1>5, <1>empty, <2>1 DEF selfUninstall, Kinds, Outside, Ended
    <3> QED BY <1>3, <2>1, <3>1
  <2>2. CASE Goto(r, "done") /\ UNCHANGED <<task, channelVars>>
    <3>1. task' = [task EXCEPT ![r] = task[r]] /\ task[r] \in Task /\ "done" \in PCs /\ pc[r] = "remove"
      BY <1>5, <2>2 DEF TypeOK, PCs, Ended, Outside, selfUninstall
    <3> QED BY <2>2, <3>1, MoveQuiet DEF channelVars, MidSwap
  <2> QED BY <1>5, <2>1, <2>2 DEF selfUninstall
<1>6. CASE Crash
  <2>1. bin = None => torn'
    BY <1>6, <1>empty DEF Crash
  <2> QED BY <1>3, <1>6, <2>1 DEF Crash
<1>script. ASSUME NEW r \in Requests, Uninstalled(r) PROVE Images' /\ ImageToRestartFrom'
  BY <1>3, <1>script DEF Uninstalled
<1>7. CASE Start
  <2>1. \A u \in Updates : pc'[u] \in Outside
    BY <1>0, <1>7 DEF Start, webVars, Kinds
  <2>2. bin' = "running" /\ platform' = platform
    BY <1>7 DEF Start
  <2> QED BY <2>1, <2>2 DEF Images, ImageToRestartFrom, Past, Ended, Outside, None
<1>8. CASE UNCHANGED vars
  BY <1>8, QuietKeeps DEF vars, webVars, channelVars, Past, Images
<1>9. ASSUME NEW r \in Requests, Handle(r) PROVE Images' /\ ImageToRestartFrom'
  BY <1>2, <1>4, <1>5, <1>9, UpdateImages, WebQuiet DEF Handle
<1> QED BY <1>1, <1>6, <1>7, <1>8, <1>9, <1>script, WebQuiet DEF Next

-----------------------------------------------------------------------------
LEMMA InitIInv == Init => IInv
<1> SUFFICES ASSUME Init PROVE IInv
  OBVIOUS
<1>1. PICK load \in Loads : /\ platform = load.platform
                            /\ pc = [r \in Requests |-> IF r \in load.held THEN "held" ELSE "done"]
  BY DEF Init
<1>2. /\ task = [r \in Requests |-> Idle] /\ client = 0 /\ fresh = FALSE /\ loginCh = None /\ sessions = 0
      /\ faults = 0 /\ live = {} /\ query = {} /\ up = "up" /\ bin = "running" /\ old = None /\ torn = FALSE
  BY DEF Init, WebInit
<1>3. \A r \in Requests : pc[r] \in {"held", "done"} /\ task[r] = Idle
  BY <1>1, <1>2
<1>4. TypeOK
  <2>1. pc \in [Requests -> PCs] /\ task \in [Requests -> Task]
    BY <1>1, <1>2, Tasks DEF PCs, Ended, Outside
  <2>2. platform \in {"unix", "windows"}
    BY <1>1, ChannelAssumption
  <2>3. faults \in 0..MaxFaults /\ client \in Nat /\ sessions \in Nat
    BY <1>2, WebSessionAssumption
  <2>4. fresh \in BOOLEAN /\ torn \in BOOLEAN
    BY <1>2
  <2> QED BY <1>2, <2>1, <2>2, <2>3, <2>4 DEF TypeOK
<1>5. Kinds /\ Grids
  BY <1>2, <1>3, TaskFields DEF Kinds, Grids, FetchPCs, UpdatePCs, Ended, Outside
<1>6. Sessions
  BY <1>2, <1>3, TaskFields DEF Sessions
<1>7. Fetches \subseteq Requests /\ Updates \subseteq Requests
  BY DEF Requests
<1>8. OneLogin /\ RetryUsesANewerSession /\ WholeUnlessReplaced
  BY <1>2, <1>3, <1>7 DEF OneLogin, RetryUsesANewerSession, WholeUnlessReplaced
<1>9. Images /\ ImageToRestartFrom
  BY <1>2, <1>3, <1>7 DEF Images, ImageToRestartFrom, Past, None
<1> QED BY <1>4, <1>5, <1>6, <1>8, <1>9 DEF IInv, WebInv

LEMMA Invariance == Spec => []IInv
<1>1. IInv /\ [Next]_vars => IInv'
  BY WebStep, ImageStep DEF IInv
<1> QED BY <1>1, InitIInv, PTL DEF Spec

\* SessionManager.Client makes one login at a time and strands no waiter, for
\* any number of fetches, failed logins, invalidations, crashes and restarts.
THEOREM LoginsDoNotOverlap == Spec => []OneLogin
BY Invariance, PTL DEF IInv, WebInv

\* withZKBio repeats a refused fetch with a session that is newer than the
\* refusal, whoever logged in meanwhile.
THEOREM RepetitionIsNewer == Spec => []RetryUsesANewerSession
BY Invariance, PTL DEF IInv, WebInv

\* postGrid reports the pages of its own query, however many there are, unless
\* another command stated its query on the same session or ZKBio refused it.
THEOREM GridsAreWhole == Spec => []WholeUnlessReplaced
BY Invariance, PTL DEF IInv, WebInv

\* installUpdate leaves a binary to restart from, however many updates overlap
\* on either platform, but for the two exceptions of ImageToRestartFrom.
THEOREM AnImageRemains == Spec => []ImageToRestartFrom
BY Invariance, PTL DEF IInv

\* The variables of the channel and of the session keep their types, and every
\* command stays among the steps of its kind.
THEOREM TypeCorrect == Spec => [](TypeOK /\ Kinds)
BY Invariance, PTL DEF IInv, WebInv
=============================================================================
