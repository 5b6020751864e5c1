-------------------------- MODULE MCDeviceCommands --------------------------
(***************************************************************************)
(* Instances of DeviceCommands: one scanner, the last second of January    *)
(* and the next one.  Either one command with two requests at once and a   *)
(* restart, or two commands, of which a list holds only one.               *)
(***************************************************************************)
EXTENDS DeviceCommands, TLC

CONSTANTS c1, c2, d1, h1, h2

ForFirst == [c \in Commands |-> d1]

Date(m, d, h, mm) ==
  [year |-> 2024, month |-> m, day |-> d, hour |-> h, minute |-> mm, second |-> mm]
MonthEnd == <<Date(1, 31, 23, 59), Date(2, 1, 0, 0)>>

Budget(C, n, f, r) == [commands |-> C, atOnce |-> n, faults |-> f, restarts |-> r]
MCBudgets == {Budget({c1}, 2, 1, 1), Budget({c1, c2}, 1, 1, 0)}
=============================================================================
