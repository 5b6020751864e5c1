-------------------------- MODULE MCCommandChannel --------------------------
(***************************************************************************)
(* Instances of CommandChannel for TLC.                                    *)
(***************************************************************************)
EXTENDS CommandChannel, TLC

CONSTANTS f1, f2, f4, u1, u2, x1, o1

Load(p, R) == [platform |-> p, held |-> R]
MCLoads == {Load("windows", {f1, u1, u2}), Load("unix", {f1, f2}), Load("unix", {f4, u1}),
            Load("windows", {u1, x1, o1}), Load("unix", {f1, f4})}
=============================================================================
