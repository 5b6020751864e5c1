--------------------------- MODULE CommandChannel ---------------------------
(***************************************************************************)
(* The commands Plasmatix hands to the agent: connectLoop, pollOnce,       *)
(* handleCommand and postResponse of main.go, with selfUpdate and the      *)
(* installation of an update in platform_unix.go and platform_windows.go.  *)
(*                                                                         *)
(* The loop polls for one command after another and starts a handler for   *)
(* each, so handlers overlap.  A fetch goes through WebSession.  An update *)
(* replaces the binary and restarts the service, which ends every handler  *)
(* that is still at work.  The service manager and Plasmatix are external. *)
(***************************************************************************)
EXTENDS WebSession

CONSTANTS Updates, Uninstalls, Others,   \* the other commands
          Loads        \* bound: the platforms and sets of commands looked at

ASSUME ChannelAssumption ==
  /\ Updates \cap (Fetches \cup Uninstalls \cup Others) = {}
  /\ \A load \in Loads : load.platform \in {"unix", "windows"}

VARIABLES
  up,        \* "up", "down", or "gone" once the agent has been uninstalled
  platform,  \* "unix" or "windows"
  bin, old,  \* binPath and binPath.old: None, the running image or another
  torn       \* history: a crash, an exit or a failed rollback between the two renames

channelVars == <<up, platform, bin, old, torn>>
vars == <<webVars, channelVars>>

Requests == Fetches \cup Updates \cup Uninstalls \cup Others
Ended    == {"done", "lost", "killed"}

\* What does not end with the process: commands Plasmatix still holds, and the
\* script of an uninstall.
Outside  == {"held", "removing"} \cup Ended

Init ==
  /\ WebInit(Requests)
  /\ \E load \in Loads :
       /\ platform = load.platform
       /\ pc = [r \in Requests |-> IF r \in load.held THEN "held" ELSE "done"]
  /\ up = "up"
  /\ bin = "running" /\ old = None /\ torn = FALSE

-----------------------------------------------------------------------------
\* pollOnce takes the next command and starts its handler; an answer that does
\* not arrive takes the command with it.
pollOnce(r) ==
  /\ up = "up" /\ pc[r] = "held"
  /\ \/ r \in Fetches /\ Goto(r, "client") /\ UNCHANGED <<task, faults>>
     \/ r \in Updates /\ Goto(r, "download") /\ UNCHANGED <<task, faults>>
     \/ r \in Uninstalls \cup Others /\ Report(r, "data") /\ UNCHANGED faults
     \/ Fault /\ Goto(r, "lost") /\ UNCHANGED task
  /\ UNCHANGED <<managerVars, zkbioVars, channelVars>>

\* selfUpdate downloads the binary and runs it with --version.
Download(r) ==
  /\ pc[r] = "download"
  /\ \/ /\ Goto(r, IF platform = "windows" THEN "clear" ELSE "swap")
        /\ UNCHANGED <<task, faults>>
     \/ Fault /\ Report(r, "error")
  /\ UNCHANGED <<managerVars, zkbioVars, up, platform, bin, old, torn>>

\* A file operation fails because the system forbids it or for another reason.
Fails(forbidden) == Fault \/ (forbidden /\ UNCHANGED faults)

\* installUpdate on Windows: a running image can be renamed, but neither
\* removed nor replaced.
ClearOld(r) ==
  /\ pc[r] = "clear"
  /\ \/ old # "running" /\ old' = None /\ Goto(r, "aside") /\ UNCHANGED <<task, faults>>
     \/ Fails(old = "running") /\ Report(r, "error") /\ UNCHANGED old
  /\ UNCHANGED <<managerVars, zkbioVars, up, platform, bin, torn>>

MoveAside(r) ==
  LET forbidden == bin = None \/ old = "running" IN
  /\ pc[r] = "aside"
  /\ \/ ~forbidden /\ old' = bin /\ bin' = None /\ Goto(r, "swap") /\ UNCHANGED <<task, faults>>
     \/ Fails(forbidden) /\ Report(r, "error") /\ UNCHANGED <<bin, old>>
  /\ UNCHANGED <<managerVars, zkbioVars, up, platform, torn>>

\* Mutation: a failed replacement is reported without putting the binary back.
MoveIn_noRollback(r) ==
  /\ pc[r] = "swap"
  /\ \/ bin' = "other" /\ Report(r, "data") /\ UNCHANGED faults
     \/ Fault /\ Report(r, "error") /\ UNCHANGED bin
  /\ UNCHANGED <<managerVars, zkbioVars, up, platform, old, torn>>

\* The new binary is renamed to binPath, which on Unix is all there is to do.
MoveIn(r) ==
  LET forbidden == platform = "windows" /\ bin = "running" IN
  /\ pc[r] = "swap"
  /\ \/ ~forbidden /\ bin' = "other" /\ Report(r, "data") /\ UNCHANGED faults
     \/ /\ Fails(forbidden) /\ UNCHANGED bin
        /\ IF platform = "windows" THEN Goto(r, "rollback") /\ UNCHANGED task
                                   ELSE Report(r, "error")
  /\ UNCHANGED <<managerVars, zkbioVars, up, platform, old, torn>>

Rollback(r) ==
  LET forbidden == old = None \/ bin = "running" IN
  /\ pc[r] = "rollback"
  /\ Report(r, "error")
  /\ \/ ~forbidden /\ bin' = old /\ old' = None /\ UNCHANGED <<torn, faults>>
     \/ Fails(forbidden) /\ torn' = TRUE /\ UNCHANGED <<bin, old>>
  /\ UNCHANGED <<managerVars, zkbioVars, up, platform>>

\* postResponse, once; whether Plasmatix gets it or not, the handler goes on.
postResponse(r) ==
  /\ pc[r] = "respond"
  /\ Goto(r, IF r \in Updates /\ task[r].outcome = "data" THEN "restart"
             ELSE IF r \in Uninstalls THEN "remove" ELSE "done")
  /\ task' = [task EXCEPT ![r] = Idle]
  /\ UNCHANGED <<managerVars, zkbioVars, faults, channelVars>>

\* The process ends, and every handler with it; a script that was started stays.
Stop(next, scripts) ==
  /\ up' = next
  /\ pc' = [r \in Requests |-> IF pc[r] \in Outside THEN pc[r]
                               ELSE IF r \in scripts THEN "removing" ELSE "killed"]
  /\ task' = [r \in Requests |-> Idle]
  /\ client' = 0 /\ fresh' = FALSE /\ loginCh' = None
  /\ UNCHANGED <<sessions, zkbioVars, platform, bin, old>>

\* An update is between its two renames; on Unix there is only one.
Between == platform = "windows" /\ \E r \in Updates : pc[r] \in {"swap", "rollback"}

restartService(r) ==
  /\ pc[r] = "restart"
  /\ Stop("down", {}) /\ UNCHANGED <<torn, faults>>

\* selfUninstall exits once the script that removes everything has been started;
\* until the script stops the service, its manager may start the agent again.
selfUninstall(r) ==
  /\ pc[r] = "remove"
  /\ \/ Stop("down", {r}) /\ torn' = (torn \/ Between) /\ UNCHANGED faults
     \/ /\ Fault /\ Goto(r, "done")
        /\ UNCHANGED <<task, managerVars, zkbioVars, channelVars>>

\* The script stops the service and removes it and the files.
Uninstalled(r) ==
  /\ up # "gone" /\ pc[r] = "removing"
  /\ Stop("gone", {}) /\ UNCHANGED <<torn, faults>>

Crash ==
  /\ up = "up" /\ Fault
  /\ Stop("down", {})
  /\ torn' = (torn \/ Between)

\* The service manager starts what is at binPath; cleanupAfterUpdate tries to
\* remove the binary an update has left aside.
Start ==
  /\ up = "down" /\ bin # None
  /\ up' = "up" /\ bin' = "running"
  /\ \/ old' = (IF platform = "windows" THEN None ELSE old) /\ UNCHANGED faults
     \/ platform = "windows" /\ old # None /\ old' = "other" /\ Fault
  /\ UNCHANGED <<pc, task, managerVars, zkbioVars, platform, torn>>

Handle(r) ==
  \/ Fetch(r) /\ UNCHANGED channelVars
  \/ Download(r) \/ ClearOld(r) \/ MoveAside(r) \/ MoveIn(r) \/ Rollback(r)
  \/ postResponse(r) \/ restartService(r) \/ selfUninstall(r)

Next ==
  \/ \E r \in Requests :
       pollOnce(r) \/ Handle(r) \/ Uninstalled(r) \/ (FetchFault(r) /\ UNCHANGED channelVars)
  \/ (Expire \/ ZKBio) /\ UNCHANGED channelVars
  \/ Crash \/ Start

Spec == Init /\ [][Next]_vars

\* The loop polls, every request a handler makes ends within its time-out, an
\* uninstall script ends, and the service manager restarts the service.
Fairness ==
  /\ \A r \in Requests : WF_vars(pollOnce(r) \/ Handle(r)) /\ WF_vars(Uninstalled(r))
  /\ WF_vars(Start)

FairSpec == Spec /\ Fairness

-----------------------------------------------------------------------------
\* Put "the running binary back, otherwise the service has no image to restart
\* from" (installUpdate): no update that fails, and no other command that
\* restarts the service in the middle of one, leaves binPath empty.  A crash or
\* an uninstall between the two renames of Windows, and a rollback that fails
\* too, are the exceptions.
ImageToRestartFrom ==
  bin = None /\ up # "gone" => torn \/ \E r \in Updates : pc[r] \in {"swap", "rollback"}

\* Every command Plasmatix holds is taken and its handler ends: no login, wait
\* or retry of another handler holds it up, and a restart lets the rest go on.
EveryRequestIsAnswered ==
  <>(up = "gone" \/ torn \/ \A r \in Requests : pc[r] \in Ended)
=============================================================================
