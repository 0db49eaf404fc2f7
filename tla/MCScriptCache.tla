--------------------------- MODULE MCScriptCache ---------------------------
(***************************************************************************)
(* Instances of ScriptCache for TLC: two process slots, three processes, a *)
(* script that requires another file, and two contents.                    *)
(***************************************************************************)
EXTENDS ScriptCache, TLC

CONSTANTS P, Q, A, L, X, Y

MCBundle == A :> {A, L}
MCSources == A :> X @@ L :> X
=============================================================================
