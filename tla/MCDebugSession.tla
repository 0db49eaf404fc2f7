--------------------------- MODULE MCDebugSession ---------------------------
(* DebugSession over a program of one method, two lines and a fiber. *)
EXTENDS DebugSession
=============================================================================
