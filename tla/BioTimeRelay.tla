---------------------------- MODULE BioTimeRelay ----------------------------
(***************************************************************************)
(* The relay of ZKBioTime transactions to Plasmatix: the poll loop, the    *)
(* catch-up pass and the durable checkpoint of zkbiotime.go.               *)
(*                                                                         *)
(* A pass fetches the page of transactions after its cursor, posts them    *)
(* with the last id of the page, and goes on from there once the bridge    *)
(* has answered.  A request can be refused, its answer can be lost, and    *)
(* one that timed out (or whose sender crashed) can still be on its way    *)
(* and take effect later.  ZKBioTime and the bridge are external: new      *)
(* transactions get higher ids, and the bridge stores a batch and its last *)
(* id together, whether or not that id is higher than the one it has.      *)
(***************************************************************************)
EXTENDS Integers, FiniteSets

CONSTANTS MaxID,        \* bound: transaction ids
          PageSize,     \* page_size of fetchTransactionsAfterID
          MaxFaults,    \* bound: requests that fail or time out
          MaxRestarts   \* bound: crashes of the agent

ASSUME RelayAssumption ==
  /\ MaxID \in Nat /\ PageSize \in Nat \ {0}
  /\ MaxFaults \in Nat /\ MaxRestarts \in Nat

VARIABLES
  db,            \* ids of the transactions ZKBioTime has
  stored,        \* ids of those Plasmatix has
  checkpoint,    \* lastTransactionId kept by Plasmatix
  net,           \* relay requests on their way
  cursorLoaded, cursor,   \* zkbiotimePoller
  pc, cur,       \* the pass: where it is, its own cursor
  batch,         \* the request the pass waits for
  answered,      \* the bridge has accepted that request
  faults, restarts

poller == <<cursorLoaded, cursor>>
bridge == <<stored, checkpoint>>
vars == <<db, stored, checkpoint, net, cursorLoaded, cursor, pc, cur, batch,
          answered, faults, restarts>>

IDs      == 1..MaxID
Requests == [ids : SUBSET IDs, last : 0..MaxID]
NoBatch  == [ids |-> {}, last |-> 0]

TypeOK ==
  /\ db \subseteq IDs /\ stored \subseteq IDs /\ checkpoint \in 0..MaxID
  /\ net \subseteq Requests /\ batch \in Requests
  /\ cursorLoaded \in BOOLEAN /\ answered \in BOOLEAN
  /\ cursor \in 0..MaxID /\ cur \in 0..MaxID
  /\ pc \in {"idle", "load", "fetch", "await"}
  /\ faults \in 0..MaxFaults /\ restarts \in 0..MaxRestarts

Init ==
  /\ db = {} /\ stored = {} /\ checkpoint = 0 /\ net = {}
  /\ cursorLoaded = FALSE /\ cursor = 0
  /\ pc = "idle" /\ cur = 0 /\ batch = NoBatch /\ answered = FALSE
  /\ faults = 0 /\ restarts = 0

-----------------------------------------------------------------------------
\* ZKBioTime records a punch, however late the scanner sends it.
Record(i) ==
  /\ \A j \in db : j < i
  /\ db' = db \cup {i}
  /\ UNCHANGED <<bridge, net, poller, pc, cur, batch, answered, faults, restarts>>

\* The ticker: pollOnce begins.
Tick ==
  /\ pc = "idle"
  /\ pc' = IF cursorLoaded THEN "fetch" ELSE "load"
  /\ cur' = cursor
  /\ UNCHANGED <<db, bridge, net, poller, batch, answered, faults, restarts>>

\* fetchZKBioTimeLastTransactionID.
Load ==
  /\ pc = "load"
  /\ cursorLoaded' = TRUE /\ cursor' = checkpoint /\ cur' = checkpoint
  /\ pc' = "fetch"
  /\ UNCHANGED <<db, bridge, net, batch, answered, faults, restarts>>

\* The lowest ids after n, at most a page of them.
After(n) == {i \in db : i > n}
Page(n)  == {i \in After(n) : Cardinality({j \in After(n) : j <= i}) <= PageSize}

\* Mutation: the rows at or before the cursor are kept, and the one that comes
\* last gives the cursor.
prepareZKBioTimeBatch_last(rows, n, req) ==
  \E i \in rows : req = [ids |-> rows, last |-> i]

\* prepareZKBioTimeBatch: the rows after the cursor, and the highest of them.
prepareZKBioTimeBatch(rows, n, req) ==
  /\ req.ids = {i \in rows : i > n}
  /\ req.last \in req.ids /\ \A i \in req.ids : i <= req.last

\* catchUpZKBioTimeTransactions: a page, in whatever order and with whatever
\* older rows besides, and the request that relays it.
FetchAndRelay(req, extra) ==
  /\ pc = "fetch" /\ Page(cur) # {}
  /\ prepareZKBioTimeBatch(Page(cur) \cup extra, cur, req)
  /\ batch' = req /\ net' = net \cup {req} /\ answered' = FALSE
  /\ pc' = "await"
  /\ UNCHANGED <<db, bridge, poller, cur, faults, restarts>>

\* Nothing newer: the pass ends and pollOnce keeps its cursor.
CaughtUp ==
  /\ pc = "fetch" /\ Page(cur) = {}
  /\ cursor' = cur /\ pc' = "idle"
  /\ UNCHANGED <<db, bridge, net, cursorLoaded, cur, batch, answered, faults, restarts>>

\* Mutation: the cursor moves on although the bridge has not answered.
Answered_unchecked ==
  /\ pc = "await"
  /\ cur' = batch.last /\ pc' = "fetch"
  /\ UNCHANGED <<db, bridge, net, poller, batch, answered, faults, restarts>>

\* relayZKBioTimeTransactions returns nil.
Answered ==
  /\ pc = "await" /\ answered
  /\ cur' = batch.last /\ pc' = "fetch"
  /\ UNCHANGED <<db, bridge, net, poller, batch, answered, faults, restarts>>

\* A request of the pass fails or times out: the pass ends, and with it the
\* progress of its own cursor.
Fail ==
  /\ pc \in {"load", "fetch", "await"} /\ faults < MaxFaults
  /\ faults' = faults + 1
  /\ pc' = "idle"
  /\ UNCHANGED <<db, bridge, net, poller, cur, batch, answered, restarts>>

\* The bridge stores a batch with its last id ...
Accept(req, last) ==
  /\ req \in net
  /\ net' = net \ {req}
  /\ stored' = stored \cup req.ids
  /\ last \in {req.last, checkpoint} /\ last >= req.last
  /\ checkpoint' = last
  /\ answered' = (answered \/ (pc = "await" /\ req = batch))
  /\ UNCHANGED <<db, poller, pc, cur, batch, faults, restarts>>

\* ... or refuses it, or never sees it.
Drop(req) ==
  /\ req \in net /\ faults < MaxFaults
  /\ faults' = faults + 1
  /\ net' = net \ {req}
  /\ pc' = IF pc = "await" /\ req = batch /\ ~answered THEN "idle" ELSE pc
  /\ UNCHANGED <<db, bridge, poller, cur, batch, answered, restarts>>

\* A crash: what is on its way stays on its way.
Restart ==
  /\ restarts < MaxRestarts /\ restarts' = restarts + 1
  /\ cursorLoaded' = FALSE /\ cursor' = 0 /\ cur' = 0 /\ pc' = "idle"
  /\ batch' = NoBatch /\ answered' = FALSE
  /\ UNCHANGED <<db, bridge, net, faults>>

Poll ==
  \/ Tick \/ Load \/ CaughtUp \/ Answered
  \/ \E extra \in SUBSET {i \in db : i <= cur}, req \in [ids : SUBSET IDs, last : IDs] :
       FetchAndRelay(req, extra)

Next ==
  \/ Poll \/ Fail \/ Restart
  \/ \E i \in IDs : Record(i)
  \/ \E req \in net : Drop(req) \/ \E last \in {req.last, checkpoint} : Accept(req, last)

Spec == Init /\ [][Next]_vars

\* The loop goes on, an outage ends (faults are bounded), and the bridge then
\* handles the requests it gets.
Fairness ==
  /\ WF_vars(Poll)
  /\ WF_vars(\E req \in net, last \in 0..MaxID : Accept(req, last))

FairSpec == Spec /\ Fairness

-----------------------------------------------------------------------------
\* Every transaction up to n is in Plasmatix.
Covered(n) == \A i \in db : i <= n => i \in stored

\* "The cursor only advances after the bridge accepts each batch, so delayed
\* punches and retries cannot create permanent gaps" (runZKBioTimePollLoop):
\* no transaction lies behind the checkpoint, the poller's cursor or the
\* cursor of the running pass unless Plasmatix has it, whatever was refused,
\* answered too late, or delivered after a restart.
NoGaps == Covered(checkpoint) /\ Covered(cursor) /\ Covered(cur)

\* What ZKBioTime records arrives, once outages end (catchUpZKBioTimeTransactions
\* goes on until a page is empty, pollOnce begins again after a failure).
EveryPunchArrives == \A i \in IDs : (i \in db) ~> (i \in stored)
=============================================================================
