------------------------------ MODULE Handshake ------------------------------
(***************************************************************************)
(* The requests by which a scanner introduces itself, and the full         *)
(* synchronisation Plasmatix may ask for in answer: handleCData (GET and   *)
(* options), handleRegistry, handlePush and handlePing of main.go, with    *)
(* fetchDeviceState and ackFullSync.                                       *)
(*                                                                         *)
(* The handshake reads the flag of FullSync, tells the scanner to begin at *)
(* stamp 0, and clears the flag with a request of its own, by a goroutine  *)
(* of its own, once the answer is written.                                 *)
(***************************************************************************)
EXTENDS DeviceTracker, FullSync, FiniteSets

CONSTANT MaxRequests    \* bound: requests handled at once

VARIABLE req    \* the requests being handled

Requests == 1..MaxRequests

vars == <<trackerVars, budget, req, syncVars>>

Init ==
  /\ TrackerInit /\ SyncInit
  /\ req = <<>>

At(c, p) == c \in DOMAIN req /\ req[c].pc = p

Goto(c, p) == req' = [req EXCEPT ![c].pc = p]
Done(c)    == req' = [x \in DOMAIN req \ {c} |-> req[x]]

-----------------------------------------------------------------------------
\* A scanner makes a request, and the handler notes where it comes from: "get"
\* is the handshake, "route" is registry or push, which only access control
\* scanners use, "options" answers the handshake ...
Request(c, d, kind) ==
  /\ c \notin DOMAIN req /\ 1..c - 1 \subseteq DOMAIN req
  /\ Cardinality(DOMAIN req) < budget.atOnce
  /\ kind = "route" => firmware[d] = AC
  /\ noteContact(d, addr[d])
  /\ req' = [x \in DOMAIN req \cup {c} |-> IF x # c THEN req[x] ELSE
       [pc |-> "observe", kind |-> kind, d |-> d, firmware |-> firmware[d]]]
  /\ UNCHANGED <<addr, firmware, probing, late, view, budget, syncVars>>

\* ... and a ping or an unknown path tells nothing more.
handlePing(d) ==
  /\ noteContact(d, addr[d])
  /\ UNCHANGED <<addr, firmware, probing, late, view, budget, req, syncVars>>

\* The handshake of attendance firmware names a push version the agent knows (2.2
\* to 2.4), a registry or push request is of access control firmware by its path,
\* options tell the capabilities.  Another version, such as the 3.1.2S captured in
\* adms_options.go, shows no protocol: such a scanner is one of the firmware AC.
Observe(c) ==
  LET r == req[c] IN
  /\ At(c, "observe")
  /\ observeProtocol(r.d,
       IF r.kind = "route" THEN AC ELSE IF r.kind = "get" /\ r.firmware = TA THEN TA ELSE None,
       IF r.kind = "options" THEN Capabilities(r.firmware) ELSE <<>>)
  /\ IF r.kind = "get" THEN Goto(c, "fetch") ELSE Done(c)
  /\ UNCHANGED <<addr, firmware, probing, late, view, budget, syncVars>>

\* Mutation: the request is acknowledged as soon as it is read.
fetchDeviceState_acks(c) ==
  /\ At(c, "fetch")
  /\ \/ Goto(c, IF flag[req[c].d] THEN "stamp 0" ELSE "stamp 9999") /\ UNCHANGED budget
        /\ Cleared(req[c].d)
     \/ Spend("faults") /\ Goto(c, "stamp 9999") /\ UNCHANGED syncVars
  /\ UNCHANGED trackerVars

\* Mutation: PendingFullSync is looked for under another name.
fetchDeviceState_unread(c) ==
  /\ At(c, "fetch")
  /\ Goto(c, "stamp 9999")
  /\ UNCHANGED <<trackerVars, budget, syncVars>>

\* fetchDeviceState: an error is no pending request.
fetchDeviceState(c) ==
  /\ At(c, "fetch")
  /\ \/ Goto(c, IF flag[req[c].d] THEN "stamp 0" ELSE "stamp 9999") /\ UNCHANGED budget
     \/ Spend("faults") /\ Goto(c, "stamp 9999")
  /\ UNCHANGED <<trackerVars, syncVars>>

\* The options are written.  Told to begin at 0 the scanner uploads all it has;
\* the handler goes on either way.
Answer(c) ==
  LET d == req[c].d IN
  \/ /\ At(c, "stamp 9999") /\ Done(c)
     /\ UNCHANGED <<trackerVars, budget, syncVars>>
  \/ /\ At(c, "stamp 0") /\ Goto(c, "ack")
     /\ \/ Told(d) /\ UNCHANGED budget
        \/ Lost(d) /\ Spend("faults")
     /\ UNCHANGED trackerVars

\* ackFullSync, once.
ackFullSync(c) ==
  /\ At(c, "ack")
  /\ Done(c)
  /\ \/ Cleared(req[c].d) /\ UNCHANGED budget
     \/ Spend("faults") /\ UNCHANGED syncVars
  /\ UNCHANGED trackerVars

\* Somebody asks Plasmatix for a full synchronisation.
RequestFullSync(d) ==
  /\ Spend("syncs")
  /\ Asked(d, \E c \in Requests : At(c, "ack") /\ req[c].d = d)
  /\ UNCHANGED <<trackerVars, req>>

\* The agent is restarted: what it knew is gone, a request is not answered and
\* a request for a full synchronisation not acknowledged.
Restart ==
  /\ Spend("restarts")
  /\ devices' = <<>>
  /\ probing' = {} /\ req' = <<>>
  /\ UNCHANGED <<addr, firmware, late, view, syncVars>>

Handle(c) == Observe(c) \/ fetchDeviceState(c) \/ Answer(c) \/ ackFullSync(c)

Kinds == {"get", "route", "options"}

Next ==
  \/ \E c \in Requests : Handle(c) \/ \E d \in Scanners, k \in Kinds : Request(c, d, k)
  \/ \E d \in Scanners : handlePing(d) \/ RequestFullSync(d)
  \/ (Tracker \/ Surroundings) /\ UNCHANGED <<req, syncVars>>
  \/ Restart

Spec == Init /\ [][Next]_vars

\* Handlers and the two loops run; a scanner goes through its handshake again
\* and again, though not always while another request of it is handled; what
\* arrives late does arrive.
Fairness ==
  /\ \A c \in Requests : WF_vars(Handle(c))
  /\ WF_vars(ProbeAll /\ UNCHANGED <<req, syncVars>>)
  /\ WF_vars((\E x \in probing : Probe(x)) /\ UNCHANGED <<req, syncVars>>)
  /\ WF_vars(PostHeartbeat /\ UNCHANGED <<req, syncVars>>)
  /\ WF_vars((\E b \in late : ArriveLate(b)) /\ UNCHANGED <<req, syncVars>>)
  /\ \A d \in Scanners, k \in Kinds : SF_vars(\E c \in Requests : Request(c, d, k))

FairSpec == Spec /\ Fairness
=============================================================================
