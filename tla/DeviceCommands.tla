--------------------------- MODULE DeviceCommands ---------------------------
(***************************************************************************)
(* The ordinary commands for scanners: drainCloudCommands, the second half *)
(* of handleGetRequest, handleDeviceCmd, the end of handleQueryData and    *)
(* reportCloudCommandResult in main.go, and the clock commands of          *)
(* adms_clock.go.                                                          *)
(*                                                                         *)
(* A getrequest fetches the cloud's list, queues what is not yet in hand   *)
(* (cloudCmdID), takes the head of the queue, refuses it or notes it as    *)
(* pending, and writes it.  The scanner answers a local id with devicecmd  *)
(* or with the last pack of a query reply.  The result goes to the cloud   *)
(* from a goroutine of its own, once, and the cloud lists a command until  *)
(* it has the result.  A scanner may have several requests in flight, so   *)
(* between any two critical sections of a handler others may run.          *)
(***************************************************************************)
EXTENDS DeviceClock, Sequences, FiniteSets

CONSTANTS Commands,     \* cloud command ids
          Devices,
          DeviceOf,     \* DeviceOf[c]: the scanner c is for
          Instants,     \* bound: the moments looked at, as dates in the scanner's zone
          Handlers,     \* getrequests
          ListLimit,    \* the limit asked for with the list
          MaxID,        \* bound: local ids in use at once
          Budgets       \* bound: what may happen in one behaviour

ASSUME CommandAssumption ==
  /\ "clock" \notin Commands /\ "none" \notin Commands
  /\ DeviceOf \in [Commands -> Devices]
  /\ Instants \in Seq(Dates) /\ Instants # <<>>
  /\ \A i, j \in DOMAIN Instants : i < j => Before(Instants[i], Instants[j])
  /\ ListLimit \in Nat \ {0} /\ MaxID \in Nat

VARIABLES
  issued,     \* the commands the cloud has issued ...
  listed,     \* ... and those it lists, having no result of them
  queue,      \* queue[d]: cmdQueue, entries [id, cmd]
  tracked,    \* cloudCmdID
  pending,    \* pendingCmd, entries [dev, id, cmd]
  pc, dev,    \* pc[h], dev[h]: where handler h is, and for which scanner
  list,       \* list[h]: what is left of the list it has fetched
  hand,       \* hand[h]: the entry it has taken from the queue
  filled,     \* filled[h]: the packed time in it, 0 if it is no clock command
  since,      \* history, since[h]: when the request came in
  now,        \* the moment it is
  results,    \* results on their way to the cloud
  scanner,    \* scanner[d]: local ids d has received and not answered
  mislaid,    \* history: commands of which the last write, or the answer to it, was lost
  budget      \* commands that may be issued, requests at once, faults and restarts left

bounds == <<budget, now>>
cloud  == <<issued, listed>>
handlers == <<pc, dev, list, hand, filled, since>>
vars == <<issued, listed, queue, tracked, pending, handlers, now, results,
          scanner, mislaid, budget>>

None   == "none"
Clock  == "clock"
IDs    == 1..MaxID
Kinds  == Commands \cup {Clock}
Entry  == [id : IDs, cmd : Kinds]
NoHand == [id |-> 0, cmd |-> None]

TypeOK ==
  /\ issued \subseteq Commands /\ listed \subseteq issued /\ tracked \subseteq Commands
  /\ queue \in [Devices -> Seq(Entry)]
  /\ pending \subseteq [dev : Devices, id : IDs, cmd : Kinds]
  /\ pc \in [Handlers -> {None, "drain", "enqueue", "pop", "render"}]
  /\ dev \in [Handlers -> Devices \cup {None}]
  /\ list \in [Handlers -> SUBSET Commands] /\ hand \in [Handlers -> Entry \cup {NoHand}]
  /\ filled \in [Handlers -> Nat] /\ since \in [Handlers -> Nat] /\ now \in DOMAIN Instants
  /\ results \subseteq Commands /\ scanner \in [Devices -> SUBSET IDs]
  /\ mislaid \subseteq Commands

\* The state of a process that has just started.
Fresh ==
  /\ queue' = [d \in Devices |-> <<>>]
  /\ tracked' = {} /\ pending' = {}
  /\ pc' = [h \in Handlers |-> None] /\ dev' = [h \in Handlers |-> None]
  /\ list' = [h \in Handlers |-> {}] /\ hand' = [h \in Handlers |-> NoHand]
  /\ filled' = [h \in Handlers |-> 0] /\ since' = [h \in Handlers |-> 0]

Init ==
  /\ queue = [d \in Devices |-> <<>>] /\ tracked = {} /\ pending = {}
  /\ pc = [h \in Handlers |-> None] /\ dev = [h \in Handlers |-> None]
  /\ list = [h \in Handlers |-> {}] /\ hand = [h \in Handlers |-> NoHand]
  /\ filled = [h \in Handlers |-> 0] /\ since = [h \in Handlers |-> 0] /\ now = 1
  /\ issued = {} /\ listed = {} /\ results = {} /\ scanner = [d \in Devices |-> {}] /\ mislaid = {}
  /\ budget \in Budgets

Spend(what) == budget[what] > 0 /\ budget' = [budget EXCEPT ![what] = @ - 1]
Fault == Spend("faults")

-----------------------------------------------------------------------------
\* The cloud issues a command.
Issue(c) ==
  /\ c \in budget.commands \ issued
  /\ issued' = issued \cup {c} /\ listed' = listed \cup {c}
  /\ UNCHANGED <<queue, tracked, pending, handlers, results, scanner, mislaid, bounds>>

\* A getrequest comes in.
Poll(h, d) ==
  /\ pc[h] = None /\ Cardinality({g \in Handlers : pc[g] # None}) < budget.atOnce
  /\ pc' = [pc EXCEPT ![h] = "drain"] /\ dev' = [dev EXCEPT ![h] = d]
  /\ since' = [since EXCEPT ![h] = now]
  /\ UNCHANGED <<cloud, queue, tracked, pending, list, hand, filled, results, scanner, mislaid, bounds>>

\* The commands the cloud has for scanner d, and the lists it may give of them.
For(d) == {c \in listed : DeviceOf[c] = d}
Lists(d) ==
  {L \in SUBSET For(d) : \/ L = For(d) /\ Cardinality(L) <= ListLimit
                         \/ Cardinality(L) = ListLimit}

\* drainCloudCommands: a list, or none if the cloud cannot be reached.
drainCloudCommands(h) ==
  /\ pc[h] = "drain"
  /\ \/ /\ \E L \in Lists(dev[h]) : list' = [list EXCEPT ![h] = L]
        /\ pc' = [pc EXCEPT ![h] = "enqueue"] /\ UNCHANGED budget
     \/ /\ Fault /\ pc' = [pc EXCEPT ![h] = "pop"] /\ UNCHANGED list
  /\ UNCHANGED <<cloud, queue, tracked, pending, dev, hand, filled, since, results, scanner, mislaid, now>>

\* The entries of this process, wherever they are.
InQueue == UNION {{queue[d][k] : k \in DOMAIN queue[d]} : d \in Devices}
InHand  == {hand[h] : h \in {g \in Handlers : pc[g] = "render"}}
Live    == InQueue \cup InHand \cup pending
Free    == IDs \ {e.id : e \in Live}

\* An entry with a new local id goes to the end of d's queue.  The code counts
\* cmdID up; here it is an id that no entry of this process has, since what a
\* scanner may still answer after a restart is in scanner[d].
NewEntry(d, c) ==
  \E i \in Free : /\ \A j \in Free : i <= j
                 /\ queue' = [queue EXCEPT ![d] = Append(@, [id |-> i, cmd |-> c])]

\* Mutation: the test for an id in hand is missing.
enqueueADMSCommand_noDedup(h, c) ==
  /\ pc[h] = "enqueue" /\ c \in list[h]
  /\ list' = [list EXCEPT ![h] = @ \ {c}]
  /\ NewEntry(dev[h], c) /\ tracked' = tracked \cup {c}
  /\ UNCHANGED <<cloud, pending, pc, dev, hand, filled, since, results, scanner, mislaid, bounds>>

\* enqueueADMSCommand, for each command of the list.
enqueueADMSCommand(h, c) ==
  /\ pc[h] = "enqueue" /\ c \in list[h]
  /\ list' = [list EXCEPT ![h] = @ \ {c}]
  /\ IF c \in tracked
       THEN UNCHANGED <<queue, tracked>>
       ELSE NewEntry(dev[h], c) /\ tracked' = tracked \cup {c}
  /\ UNCHANGED <<cloud, pending, pc, dev, hand, filled, since, results, scanner, mislaid, bounds>>

Drained(h) ==
  /\ pc[h] = "enqueue" /\ list[h] = {}
  /\ pc' = [pc EXCEPT ![h] = "pop"]
  /\ UNCHANGED <<cloud, queue, tracked, pending, dev, list, hand, filled, since, results, scanner, mislaid, bounds>>

\* The request has been answered.
Done(h) ==
  /\ pc' = [pc EXCEPT ![h] = None] /\ dev' = [dev EXCEPT ![h] = None]
  /\ hand' = [hand EXCEPT ![h] = NoHand] /\ filled' = [filled EXCEPT ![h] = 0]
  /\ since' = [since EXCEPT ![h] = 0] /\ UNCHANGED list

\* fillClockCommand: the packed time of a clock command, decided at collection.
fillClockCommand(e) == IF e.cmd = Clock THEN encodeZKDateTime(Instants[now]) ELSE 0

\* handleGetRequest takes the head of the queue; without one it answers OK.
Pop(h) ==
  /\ pc[h] = "pop"
  /\ IF queue[dev[h]] = <<>>
       THEN Done(h) /\ UNCHANGED queue
       ELSE LET e == Head(queue[dev[h]]) IN
            /\ hand' = [hand EXCEPT ![h] = e]
            /\ filled' = [filled EXCEPT ![h] = fillClockCommand(e)]
            /\ queue' = [queue EXCEPT ![dev[h]] = Tail(@)]
            /\ pc' = [pc EXCEPT ![h] = "render"] /\ UNCHANGED <<dev, list, since>>
  /\ UNCHANGED <<cloud, tracked, pending, results, scanner, mislaid, bounds>>

\* RenderDeviceCommand refuses: the cloud gets that as the result.
Refuse(h) ==
  /\ pc[h] = "render"
  /\ tracked' = tracked \ {hand[h].cmd}
  /\ results' = results \cup ({hand[h].cmd} \cap Commands)
  /\ Done(h)
  /\ UNCHANGED <<cloud, queue, pending, scanner, mislaid, bounds>>

\* The command is noted as pending, then written; the write may not arrive.
Serve(h) ==
  /\ pc[h] = "render"
  /\ pending' = pending \cup {[dev |-> dev[h], id |-> hand[h].id, cmd |-> hand[h].cmd]}
  /\ \/ /\ scanner' = [scanner EXCEPT ![dev[h]] = @ \cup {hand[h].id}]
        /\ mislaid' = mislaid \ {hand[h].cmd} /\ UNCHANGED budget
     \/ /\ Fault /\ UNCHANGED scanner
        /\ mislaid' = mislaid \cup ({hand[h].cmd} \cap Commands)
  /\ Done(h)
  /\ UNCHANGED <<cloud, queue, tracked, results, now>>

\* enqueueCommandUnlessPending of the clock template, by syncDeviceClocks.
syncDeviceClocks(d) ==
  /\ \A k \in DOMAIN queue[d] : queue[d][k].cmd # Clock
  /\ Cardinality(Free) > Cardinality(Commands \ tracked) /\ NewEntry(d, Clock)
  /\ UNCHANGED <<cloud, tracked, pending, handlers, results, scanner, mislaid, bounds>>

\* Mutation: the cloud id of a finished command stays marked as in hand.
handleDeviceCmd_keepsID(d, i) ==
  /\ i \in scanner[d]
  /\ pending' = {e \in pending : ~(e.dev = d /\ e.id = i)}
  /\ results' = results \cup ({e.cmd : e \in pending \ pending'} \cap Commands)
  /\ scanner' = [scanner EXCEPT ![d] = @ \ {i}]
  /\ UNCHANGED <<cloud, queue, tracked, handlers, mislaid, bounds>>

\* handleDeviceCmd, and handleQueryData on the last pack of a reply: what is
\* pending under that id for that scanner is finished.
handleDeviceCmd(d, i) ==
  /\ i \in scanner[d]
  /\ pending' = {e \in pending : ~(e.dev = d /\ e.id = i)}
  /\ LET ended == {e.cmd : e \in pending \ pending'}
     IN /\ tracked' = tracked \ ended
        /\ results' = results \cup (ended \cap Commands)
  /\ scanner' = [scanner EXCEPT ![d] = @ \ {i}]
  /\ UNCHANGED <<cloud, queue, handlers, mislaid, bounds>>

\* The scanner's answer is lost on the agent: its body breaks off, is too large or
\* names no id, or the last pack of its reply cannot be read or is one too many.
\* What is pending stays so.
Unheard(d, i) ==
  /\ i \in scanner[d] /\ Fault
  /\ scanner' = [scanner EXCEPT ![d] = @ \ {i}]
  /\ mislaid' = mislaid \cup ({e.cmd : e \in {x \in pending : x.dev = d /\ x.id = i}} \cap Commands)
  /\ UNCHANGED <<cloud, queue, tracked, pending, handlers, results, now>>

\* reportCloudCommandResult reaches the cloud, or is given up.
reportCloudCommandResult(c) ==
  /\ c \in results /\ results' = results \ {c}
  /\ \/ listed' = listed \ {c} /\ UNCHANGED budget
     \/ Fault /\ UNCHANGED listed
  /\ UNCHANGED <<issued, queue, tracked, pending, handlers, scanner, mislaid, now>>

\* A crash: what was on its way to the cloud may be lost with it, the scanners
\* keep what they have.
Restart(S) ==
  /\ Spend("restarts")
  /\ Fresh /\ results' = S
  /\ mislaid' = {}
  /\ UNCHANGED <<cloud, scanner, now>>

\* Time passes.
Pass ==
  /\ now < Len(Instants) /\ now' = now + 1
  /\ UNCHANGED <<cloud, queue, tracked, pending, handlers, results, scanner, mislaid, budget>>

Handle(h) ==
  \/ drainCloudCommands(h) \/ Drained(h) \/ Pop(h) \/ Refuse(h) \/ Serve(h)
  \/ \E c \in list[h] : enqueueADMSCommand(h, c)

Next ==
  \/ \E c \in Commands : Issue(c) \/ reportCloudCommandResult(c)
  \/ \E h \in Handlers : Handle(h) \/ \E d \in Devices : Poll(h, d)
  \/ \E d \in Devices : syncDeviceClocks(d) \/ \E i \in scanner[d] : handleDeviceCmd(d, i) \/ Unheard(d, i)
  \/ \E S \in SUBSET results : Restart(S)
  \/ Pass

Spec == Init /\ [][Next]_vars

\* Scanners poll and answer what they have received; handlers and the
\* goroutines that report run.
Fairness ==
  /\ \A h \in Handlers : WF_vars(Handle(h))
  /\ \A d \in Devices : /\ SF_vars(\E h \in Handlers : Poll(h, d))
                        /\ \A i \in IDs : WF_vars(handleDeviceCmd(d, i))
  /\ \A c \in Commands : WF_vars(reportCloudCommandResult(c))

FairSpec == Spec /\ Fairness

-----------------------------------------------------------------------------
\* main.go:1388-1410, 1588-1597, 2000-2010.  A cloud command is in one place
\* only (a queue, a handler's hand, the pending commands) and its id is in
\* cloudCmdID exactly then: lists fetched long ago, answers, refusals and
\* restarts neither put it in twice nor shut it out for good.
TrackedExactlyWhileLive ==
  /\ tracked = {e.cmd : e \in Live} \cap Commands
  /\ \A e, f \in Live : e.cmd = f.cmd /\ e.cmd \in Commands => e.id = f.id

\* "Its time is decided now, at collection, so it is never older than this
\* request" (handleGetRequest): the packed time a scanner is about to get lies
\* between the packed times of its request and of now, however long the command
\* was queued and whatever ends of days, months and years lie between; each is
\* packed as if all months had 31 days.
NeverOlderThanTheRequest ==
  \A h \in Handlers : pc[h] = "render" /\ hand[h].cmd = Clock =>
    /\ encodeZKDateTime(Instants[since[h]]) <= filled[h]
    /\ filled[h] <= encodeZKDateTime(Instants[now])

\* The lists of scanner d are full of mislaid commands.
Crowded(d) == Cardinality(For(d) \cap mislaid) >= ListLimit

\* main.go:1276-1365, 1494-1668.  Although a result is sent only once, every
\* command the cloud has issued gets a result in the end, because a later list
\* brings it again.  The exceptions: one whose write did not reach the scanner,
\* or whose answer the agent could not read, stays pending, and its id in
\* cloudCmdID, until the next start; and when as many of those as a list is long
\* are in the way, the others may not be listed until then.
EveryCommandEnds ==
  \A c \in Commands :
    (c \in listed) ~> (c \notin listed \/ c \in mislaid \/ Crowded(DeviceOf[c]))
=============================================================================
