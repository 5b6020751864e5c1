--------------------------- MODULE MCResultOutbox ---------------------------
(***************************************************************************)
(* ResultOutbox for TLC.                                                   *)
(***************************************************************************)
EXTENDS ResultOutbox, TLC

CONSTANTS c1, c2, c3
=============================================================================
