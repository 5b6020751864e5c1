----------------------------- MODULE MCHandshake -----------------------------
(***************************************************************************)
(* Instances of Handshake for TLC: what happens together in one behaviour  *)
(* is kept small, and the combinations are looked at side by side.         *)
(***************************************************************************)
EXTENDS Handshake, TLC

CONSTANT d1

Budget(f, c, s, r, n) ==
  [faults |-> f, changes |-> c, syncs |-> s, restarts |-> r, atOnce |-> n]

MCBudgets == {
  Budget(1, 1, 0, 0, 1),    \* a change and a lost or late message
  Budget(0, 1, 0, 0, 2),    \* a change while requests overlap
  Budget(0, 1, 0, 1, 1),    \* a change and a restart
  Budget(1, 0, 1, 0, 2),    \* overlapping handshakes and a fault
  Budget(1, 0, 2, 0, 1),    \* a second request for a full synchronisation
  Budget(0, 0, 1, 1, 1)}    \* a restart before the acknowledgement
=============================================================================
