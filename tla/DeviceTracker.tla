---------------------------- MODULE DeviceTracker ----------------------------
(***************************************************************************)
(* What the agent knows of the scanners, and what Plasmatix is told of it: *)
(* heartbeat.go and ObserveProtocol of adms_protocol.go.                   *)
(*                                                                         *)
(* Requests from a scanner tell its address and, depending on the request, *)
(* the protocol it speaks or what it is capable of.  One loop dials every  *)
(* address known, another posts a copy of everything to Plasmatix.  The    *)
(* scanners and Plasmatix are external; a scanner may change its address   *)
(* and its firmware at any time.                                           *)
(***************************************************************************)
EXTENDS ScannerIDs, Naturals

CONSTANT Budgets    \* bound: how often things happen to scanners and agent

TA      == "ta_push"
AC      == "ac_push_3"
Unknown == "unknown"

VARIABLES
  addr,      \* addr[d]: the address of scanner d, numbered in the order it has them
  firmware,  \* firmware[d]: the protocol it speaks, which tells its capabilities
  devices,   \* DeviceTracker.devices, a map of what is known of the scanners
  probing,   \* the devices probeAll has still to dial, and where
  late,      \* heartbeats given up that may still arrive
  view,      \* view[d]: what Plasmatix shows of d
  budget     \* what may still happen

trackerVars == <<addr, firmware, devices, probing, late, view>>

\* What a scanner reports it is capable of: a setting all have, and one of their
\* own that access control scanners add.
Capabilities(f) == IF f = TA THEN [shared |-> f] ELSE [shared |-> f, own |-> f]

\* The confidence is 90, 95 or 0, a matter of the profile; versions and evidence
\* are left out.
NewDevice == [ip |-> 0, profile |-> Unknown, caps |-> <<>>, probe |-> None]
Reported(d) == [profile |-> d.profile, caps |-> d.caps, probe |-> d.probe]

TrackerInit ==
  /\ addr = [d \in Scanners |-> 1] /\ firmware \in [Scanners -> {TA, AC}]
  /\ devices = <<>>
  /\ probing = {} /\ late = {}
  /\ view = [d \in Scanners |-> Reported(NewDevice)]
  /\ budget \in Budgets

Spend(what) == budget[what] > 0 /\ budget' = [budget EXCEPT ![what] = @ - 1]

Known(d) == IF d \in DOMAIN devices THEN devices[d] ELSE NewDevice

-----------------------------------------------------------------------------
Put(d, entry) == [e \in DOMAIN devices \cup {d} |-> IF e = d THEN entry ELSE devices[e]]

\* noteContact: the address a request comes from.
noteContact(d, ip) == devices' = Put(d, [Known(d) EXCEPT !.ip = ip])

\* ObserveProtocol: a route or a version that contradicts a confident profile
\* leaves none.
ObserveProtocol(profile, observed) ==
  IF observed = None THEN profile
  ELSE IF profile \notin {Unknown, observed} THEN Unknown ELSE observed

\* mergeCapabilities, key by key: what the scanner no longer reports stays.
mergeCapabilities(current, observed) ==
  [k \in DOMAIN current \cup DOMAIN observed |->
     IF k \in DOMAIN observed THEN observed[k] ELSE current[k]]

\* Mutation: capabilities replace what was known of the device.
observeProtocol_replace(d, protocol, caps) ==
  devices' = Put(d, [Known(d) EXCEPT
       !.profile = IF protocol = None THEN Unknown ELSE protocol,
       !.caps = mergeCapabilities(@, caps)])

\* observeProtocol: protocol is None and caps is empty where the request tells
\* nothing of them.
observeProtocol(d, protocol, caps) ==
  devices' = Put(d, [Known(d) EXCEPT
       !.profile = ObserveProtocol(@, protocol),
       !.caps = mergeCapabilities(@, caps)])

\* probeAll takes a snapshot of the addresses ...
ProbeAll ==
  /\ probing = {}
  /\ probing' = {[d |-> d, ip |-> Known(d).ip] : d \in {e \in Scanners : Known(e).ip # 0}}
  /\ probing' # {}
  /\ UNCHANGED <<addr, firmware, devices, late, view, budget>>

\* ... dials one after another and records the answer.
Probe(x) ==
  /\ x \in probing
  /\ probing' = probing \ {x}
  /\ \E ok \in BOOLEAN :
       /\ \/ ok = (addr[x.d] = x.ip) /\ UNCHANGED budget
          \/ ~ok /\ Spend("faults")
       /\ devices' = IF x.d \notin DOMAIN devices THEN devices
                     ELSE [devices EXCEPT ![x.d].probe = IF ok THEN "ok" ELSE "down"]
  /\ UNCHANGED <<addr, firmware, late, view>>

\* Plasmatix keeps what it had of a scanner a heartbeat does not name.
Show(b) ==
  view' = [d \in Scanners |-> IF d \in DOMAIN b THEN Reported(b[d]) ELSE view[d]]

\* postHeartbeat copies what is known and posts it: it is taken, lost, or given
\* up and taken later.
PostHeartbeat ==
  /\ \/ Show(devices) /\ UNCHANGED <<late, budget>>
     \/ Spend("faults") /\ late' \in {late, late \cup {devices}} /\ UNCHANGED view
  /\ UNCHANGED <<addr, firmware, devices, probing>>

ArriveLate(b) ==
  /\ b \in late /\ late' = late \ {b}
  /\ Show(b)
  /\ UNCHANGED <<addr, firmware, devices, probing, budget>>

\* A scanner gets another address, or other firmware.
Move(d) ==
  /\ Spend("changes") /\ addr' = [addr EXCEPT ![d] = @ + 1]
  /\ UNCHANGED <<firmware, devices, probing, late, view>>

Upgrade(d) ==
  /\ Spend("changes")
  /\ firmware' = [firmware EXCEPT ![d] = IF @ = TA THEN AC ELSE TA]
  /\ UNCHANGED <<addr, devices, probing, late, view>>

Tracker ==
  \/ ProbeAll \/ PostHeartbeat
  \/ \E x \in probing : Probe(x)

Surroundings ==
  \/ \E b \in late : ArriveLate(b)
  \/ \E d \in Scanners : Upgrade(d) \/ Move(d)

-----------------------------------------------------------------------------
\* v shows scanner d as it is.  (What other firmware has reported may be there,
\* too.)
Shows(v, d) ==
  LET told == Capabilities(firmware[d]) IN
  /\ v.profile = firmware[d] /\ v.probe = "ok"
  /\ DOMAIN told \subseteq DOMAIN v.caps /\ \A k \in DOMAIN told : v.caps[k] = told[k]

\* Heartbeats are "the bridge's source of truth" (heartbeat.go): whatever was
\* lost, arrived late, was probed at an old address or was known before a
\* restart, in the end Plasmatix shows every scanner as it is.
ViewSettles == <>[](\A d \in Scanners : Shows(view[d], d))
=============================================================================
