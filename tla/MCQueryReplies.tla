--------------------------- MODULE MCQueryReplies ---------------------------
(* An instance of QueryReplies: three replies of several packs, and one      *)
(* without a command id, whose packs are not joined.                         *)
EXTENDS QueryReplies, TLC

CONSTANTS r1, r2, r3, r4

Packs == r1 :> 3 @@ r2 :> 2 @@ r3 :> 2 @@ r4 :> 2

\* r2 and r3 are alike.
Alike == Permutations({r2, r3})
=============================================================================
