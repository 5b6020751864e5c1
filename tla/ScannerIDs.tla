----------------------------- MODULE ScannerIDs -----------------------------
(***************************************************************************)
(* The scanners whose requests handleCData serves, by serial number.       *)
(***************************************************************************)
CONSTANT Scanners

\* No scanner, no protocol, no place of a handler.
None == "none"
=============================================================================
