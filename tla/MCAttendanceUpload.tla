------------------------- MODULE MCAttendanceUpload -------------------------
(***************************************************************************)
(* Instances of AttendanceUpload for TLC.                                  *)
(***************************************************************************)
EXTENDS AttendanceUpload, TLC

CONSTANTS p1, p2, p3, d1, u1, u2
=============================================================================
