----------------------------- MODULE WebSession -----------------------------
(***************************************************************************)
(* The web session the agent keeps with ZKBio, shared by every fetch       *)
(* command: withZKBio, SessionManager and the grid requests of main.go.    *)
(*                                                                         *)
(* SessionManager caches one session.  The first caller that finds none    *)
(* logs in, the others wait for it.  A caller whose session ZKBio refuses  *)
(* invalidates the cache, logs in again and repeats its fetch once.        *)
(* postGrid states what it wants in a first request and then asks for one  *)
(* page after another; ZKBio, which is external, keeps the query with the  *)
(* session in between.                                                     *)
(***************************************************************************)
EXTENDS Naturals

CONSTANTS Fetches,      \* the fetch commands, all of one endpoint
          Direct,       \* those that state their query with the page they ask for
          Pages,        \* the pages of a grid
          Details,      \* the rows whose details are fetched after the last page
          MaxFaults     \* bound: requests that fail for another reason

ASSUME WebSessionAssumption ==
  /\ "none" \notin Fetches /\ Direct \subseteq Fetches
  /\ Pages \in Nat \ {0} /\ Details \in Nat /\ MaxFaults \in Nat

VARIABLES
  pc,        \* pc[r]: where the handler of request r is
  task,      \* task[r]: what it knows
  client,    \* the cached session, 0 for nil; sessions are numbered by login
  fresh,     \* time.Since(loginAt) < ttl
  loginCh,   \* who is logging in, None for nil
  sessions,  \* the logins completed
  live,      \* the sessions ZKBio accepts
  query,     \* <<s, r>>: ZKBio keeps the query of r with session s
  faults

managerVars == <<client, fresh, loginCh, sessions>>
zkbioVars   == <<live, query>>
webVars     == <<pc, task, managerVars, zkbioVars, faults>>

None == "none"

\* What a handler knows: the argument of Client, whether this is the repetition,
\* whether the channel it waits on is open, the session it uses, the pages and details it
\* has, whether a page answers the query of another, and what it is going to report.
\* History: the logins completed when it invalidated, and whether ZKBio refused
\* its query or another replaced it.
Idle == [force |-> FALSE, retried |-> FALSE, ch |-> FALSE, session |-> 0, page |-> 0,
         foreign |-> FALSE, outcome |-> None, after |-> 0, disturbed |-> FALSE]

WebInit(R) ==
  /\ task = [r \in R |-> Idle]
  /\ client = 0 /\ fresh = FALSE /\ loginCh = None
  /\ sessions = 0 /\ faults = 0
  /\ live = {} /\ query = {}

Fault == faults < MaxFaults /\ faults' = faults + 1

Goto(r, p) == pc' = [pc EXCEPT ![r] = p]

\* The handler goes on to postResponse.
Reporting(what) == [Idle EXCEPT !.outcome = what]

Report(r, what) == Goto(r, "respond") /\ task' = [task EXCEPT ![r] = Reporting(what)]

-----------------------------------------------------------------------------
Cached == client # 0 /\ fresh

\* fn(client) begins.
CallPC(r)   == IF r \in Direct THEN "list" ELSE "query"
Using(t, s) == [t EXCEPT !.session = s, !.page = 0, !.foreign = FALSE]

\* close(ch) wakes everybody who waits.
CloseCh(t) == [r \in DOMAIN t |-> [t[r] EXCEPT !.ch = FALSE]]

\* SessionManager.Client: the cached session will do.
ClientCached(r) ==
  /\ pc[r] = "client" /\ ~task[r].force /\ Cached
  /\ Goto(r, CallPC(r)) /\ task' = [task EXCEPT ![r] = Using(@, client)]
  /\ UNCHANGED <<managerVars, zkbioVars, faults>>

\* Mutation: a login under way does not stop another.
ClientLogin_always(r) ==
  /\ pc[r] = "client" /\ (task[r].force \/ ~Cached)
  /\ loginCh' = r
  /\ Goto(r, "login")
  /\ UNCHANGED <<task, client, fresh, sessions, zkbioVars, faults>>

\* It is not, and nobody is logging in.
ClientLogin(r) ==
  /\ pc[r] = "client" /\ (task[r].force \/ ~Cached) /\ loginCh = None
  /\ loginCh' = r
  /\ Goto(r, "login")
  /\ UNCHANGED <<task, client, fresh, sessions, zkbioVars, faults>>

\* Somebody is: wait for the channel to close ...
ClientWait(r) ==
  /\ pc[r] = "client" /\ (task[r].force \/ ~Cached) /\ loginCh # None
  /\ task' = [task EXCEPT ![r].ch = TRUE]
  /\ Goto(r, "wait")
  /\ UNCHANGED <<managerVars, zkbioVars, faults>>

\* ... and begin again, whether or not that login succeeded ...
Woken(r) ==
  /\ pc[r] = "wait" /\ ~task[r].ch
  /\ task' = [task EXCEPT ![r].force = FALSE]
  /\ Goto(r, "client")
  /\ UNCHANGED <<managerVars, zkbioVars, faults>>

\* ... or the command's 55 seconds are over.
WaitTimeout(r) ==
  /\ pc[r] = "wait" /\ Fault
  /\ Report(r, "error")
  /\ UNCHANGED <<managerVars, zkbioVars>>

\* newZKBioClient succeeds; without a cookie the session is of no use, and
\* Client never takes it from the cache.
LoggedIn(r, cookie) ==
  LET s == sessions + 1 IN
  /\ pc[r] = "login"
  /\ loginCh' = None /\ sessions' = s
  /\ IF cookie THEN client' = s /\ fresh' = TRUE /\ live' = live \cup {s} /\ UNCHANGED faults
               ELSE client' = 0 /\ fresh' = FALSE /\ UNCHANGED live /\ Fault
  /\ Goto(r, CallPC(r)) /\ task' = CloseCh([task EXCEPT ![r] = Using(@, s)])
  /\ UNCHANGED query

\* Mutation: the channel is closed only after a login that succeeded.
LoginFailed_open(r) ==
  /\ pc[r] = "login" /\ Fault
  /\ Report(r, "error")
  /\ UNCHANGED <<managerVars, zkbioVars>>

\* It fails: the cache stays as it is.
LoginFailed(r) ==
  /\ pc[r] = "login" /\ Fault
  /\ loginCh' = None
  /\ Goto(r, "respond") /\ task' = CloseCh([task EXCEPT ![r] = Reporting("error")])
  /\ UNCHANGED <<client, fresh, sessions, zkbioVars>>

\* What ZKBio keeps with session s: one query, the last that was stated.
OfSession(s) == {p \in query : p[1] = s}

\* Mutation: the query of a session is stated once.
PostQuery_once(r) ==
  LET s == task[r].session IN
  /\ pc[r] = "query"
  /\ query' = IF s \in live /\ OfSession(s) = {} THEN query \cup {<<s, r>>} ELSE query
  /\ Goto(r, "list")
  /\ UNCHANGED <<task, managerVars, live, faults>>

\* postGrid: the first request.  Without an answer the fetch fails, though ZKBio
\* may have taken the query; an answer is not looked at, and the fetch goes on
\* also when ZKBio has refused the query and keeps an earlier one.
PostQuery(r) ==
  LET s == task[r].session IN
  /\ pc[r] = "query"
  /\ \E taken \in BOOLEAN, next \in {"list", "respond"} :
       /\ IF taken /\ next = "list" THEN UNCHANGED faults ELSE Fault
       /\ Goto(r, next)
       /\ query' = IF taken /\ s \in live THEN (query \ OfSession(s)) \cup {<<s, r>>} ELSE query
       /\ task' = [x \in DOMAIN task |->
            IF x # r THEN [task[x] EXCEPT !.disturbed = task[x].disturbed \/
                             (taken /\ pc[x] = "list" /\ task[x].session = s)]
            ELSE IF next = "list" THEN [task[r] EXCEPT !.disturbed = ~taken]
            ELSE Reporting("error")]
  /\ UNCHANGED <<managerVars, live>>

\* What a fetch asks for once its query is stated: the pages and, for
\* FetchEmployees, the details of each row.
Answers(r) == IF r \in Direct THEN 1 ELSE Pages + Details

\* A page of the grid, or after the last one the details of an employee;
\* parseGridResponse and FetchEmployeeDetail recognise a session that ended.
PostList(r) ==
  LET other == r \notin Direct /\ task[r].page < Pages /\ <<task[r].session, r>> \notin query
      last  == task[r].page + 1 = Answers(r)
  IN
  /\ pc[r] = "list"
  /\ \/ /\ task[r].session \in live /\ UNCHANGED faults
        /\ IF last THEN Goto(r, "respond") ELSE UNCHANGED pc
        /\ task' = [task EXCEPT ![r] =
             IF last THEN [Reporting("data") EXCEPT !.foreign = task[r].foreign \/ other,
                                                    !.disturbed = task[r].disturbed]
                     ELSE [task[r] EXCEPT !.page = task[r].page + 1,
                                          !.foreign = task[r].foreign \/ other]]
     \/ /\ task[r].session \notin live /\ UNCHANGED faults
        /\ IF task[r].retried THEN Report(r, "error") ELSE Goto(r, "refused") /\ UNCHANGED task
     \/ Fault /\ Report(r, "error")
  /\ UNCHANGED <<managerVars, zkbioVars>>

\* Mutation: the repetition forces a login and leaves the cache alone.
Invalidate_kept(r) ==
  /\ pc[r] = "refused"
  /\ task' = [task EXCEPT ![r].retried = TRUE, ![r].force = TRUE, ![r].after = sessions]
  /\ Goto(r, "client")
  /\ UNCHANGED <<managerVars, zkbioVars, faults>>

\* Invalidate empties the cache, also of a session another caller has just
\* brought, and the fetch is repeated with a forced login.
Invalidate(r) ==
  /\ pc[r] = "refused"
  /\ client' = 0 /\ fresh' = FALSE
  /\ task' = [task EXCEPT ![r].retried = TRUE, ![r].force = TRUE, ![r].after = sessions]
  /\ Goto(r, "client")
  /\ UNCHANGED <<loginCh, sessions, zkbioVars, faults>>

\* The ten minutes of the cached session pass.
Expire ==
  /\ client # 0 /\ fresh
  /\ fresh' = FALSE
  /\ UNCHANGED <<pc, task, client, loginCh, sessions, zkbioVars, faults>>

\* ZKBio ends a session; one that nobody has any more need not end.
EndSession(s) ==
  /\ s \in live
  /\ client = s \/ \E r \in Fetches : task[r].session = s
  /\ live' = live \ {s} /\ query' = query \ OfSession(s)
  /\ UNCHANGED <<pc, task, managerVars, faults>>

Fetch(r) ==
  \/ ClientCached(r) \/ ClientLogin(r) \/ ClientWait(r) \/ Woken(r)
  \/ LoggedIn(r, TRUE) \/ PostQuery(r) \/ PostList(r) \/ Invalidate(r)

FetchFault(r) == WaitTimeout(r) \/ LoginFailed(r) \/ LoggedIn(r, FALSE)

ZKBio == \E s \in live : EndSession(s)

-----------------------------------------------------------------------------
\* SessionManager.Client lets one caller log in at a time, and a waiter waits
\* for a login that is under way or has closed its channel: invalidations,
\* failed logins and forced ones do not make a second login or strand a waiter.
OneLogin ==
  /\ {r \in Fetches : pc[r] = "login"} = {loginCh} \ {None}
  /\ \A r \in Fetches : pc[r] = "wait" /\ task[r].ch => loginCh # None

\* The repetition uses a session whose login was completed after the caller
\* invalidated the one it was refused, whoever logged in, and though a caller
\* that waited for a login that failed comes back without force (withZKBio).
RetryUsesANewerSession ==
  \A r \in Fetches : task[r].retried /\ pc[r] \in {"query", "list"} => task[r].session > task[r].after

\* What postGrid reports as the answer to a query is the answer to that query on
\* every page, unless another command stated its own on the shared session
\* meanwhile, or ZKBio refused the query in an answer postGrid does not look at.
WholeUnlessReplaced ==
  \A r \in Fetches :
    pc[r] = "respond" /\ task[r].outcome = "data" => ~task[r].foreign \/ task[r].disturbed
=============================================================================
