-------------------------- MODULE MCSecretDelivery --------------------------
(***************************************************************************)
(* SecretDelivery for TLC.                                                 *)
(***************************************************************************)
EXTENDS SecretDelivery, TLC

CONSTANTS c1, c2, d1, h1, h2

\* Both commands are for one scanner and carry out one deployment.
OneScanner == [c \in Commands |-> d1]
Deployment == [c \in Commands |-> "x"]

HandlerPermutations == Permutations(Handlers)
=============================================================================
