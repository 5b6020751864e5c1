---------------------------- MODULE ResultLedger ----------------------------
(***************************************************************************)
(* What the agent promises about the result of a biometric command, with   *)
(* no file, no lock and no thread: the life of a command id between the    *)
(* moment the agent admits it and the moment the cloud has answered its    *)
(* result.                                                                 *)
(*                                                                         *)
(*   idle --Admit--> inflight --Commit--> durable --Report--> reported     *)
(*                      |  \--Hold--> held --Flush--^                      *)
(*                      \--Abandon--> idle                                 *)
(*                                                                         *)
(* A restart forgets what is only in memory (inflight and held) and        *)
(* nothing else.  ResultOutbox implements this from the storage side,      *)
(* SecretDelivery from the side of the delivery of the commands.           *)
(***************************************************************************)
EXTENDS Naturals, FiniteSets

CONSTANTS Commands,     \* cloud command ids
          Capacity,     \* maxBiometricResultOutboxRecords
          MaxActive     \* maxSecretADMSCommands

VARIABLES stage,        \* stage[c]: where the command is in its life
          value         \* value[c]: the result it owes the cloud, if any

vars == <<stage, value>>

Stages  == {"idle", "inflight", "held", "durable", "reported"}
Results == {"applied", "failed"}
None    == "none"

In(S) == {c \in Commands : stage[c] \in S}

TypeOK ==
  /\ stage \in [Commands -> Stages]
  /\ value \in [Commands -> Results \cup {None}]

Init ==
  /\ stage = [c \in Commands |-> "idle"]
  /\ value = [c \in Commands |-> None]

\* The agent takes a command in only when its result is sure to have a place.
Admit(c) ==
  /\ stage[c] \in {"idle", "reported"}
  /\ Cardinality(In({"inflight", "held", "durable"})) < Capacity
  /\ Cardinality(In({"inflight", "held"})) < MaxActive
  /\ stage' = [stage EXCEPT ![c] = "inflight"]
  /\ UNCHANGED value

Move(c, from, to, v) ==
  /\ stage[c] = from
  /\ stage' = [stage EXCEPT ![c] = to]
  /\ value' = [value EXCEPT ![c] = v]

Abandon(c)   == Move(c, "inflight", "idle", None)
Hold(c, v)   == Move(c, "inflight", "held", v)
Commit(c, v) == Move(c, "inflight", "durable", v)
Flush(c)     == Move(c, "held", "durable", value[c])
Report(c)    == Move(c, "durable", "reported", None)

\* Supersession and shutdown abandon several commands in one step.
AbandonAll(S) ==
  /\ S \subseteq In({"inflight"})
  /\ stage' = [c \in Commands |-> IF c \in S THEN "idle" ELSE stage[c]]
  /\ UNCHANGED value

\* A held result may or may not have reached the file before the crash.
Restart(Survivors) ==
  /\ Survivors \subseteq In({"held"})
  /\ stage' = [c \in Commands |->
                 CASE c \in Survivors                    -> "durable"
                   [] stage[c] \in {"durable", "reported"} -> stage[c]
                   [] OTHER                              -> "idle"]
  /\ value' = [c \in Commands |->
                 IF stage'[c] = "durable" THEN value[c] ELSE None]

Next ==
  \/ \E c \in Commands : \/ Admit(c) \/ Abandon(c) \/ Flush(c) \/ Report(c)
                         \/ \E v \in Results : Hold(c, v) \/ Commit(c, v)
  \/ \E S \in SUBSET Commands : AbandonAll(S) \/ Restart(S)

Spec == Init /\ [][Next]_vars
=============================================================================
