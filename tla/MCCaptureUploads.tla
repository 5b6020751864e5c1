-------------------------- MODULE MCCaptureUploads --------------------------
(* Instances of CaptureUploads: one slot of one person, an enrolment and an  *)
(* import for it.                                                            *)
EXTENDS CaptureUploads, TLC

CONSTANTS e1, i1, k1, p1

ToSlot   == e1 :> k1
ToPerson == i1 :> p1
OwnerOf  == k1 :> p1
=============================================================================
