----------------------------- MODULE MCRubyLoad -----------------------------
(***************************************************************************)
(* Instance of RubyLoad for TLC: the main program, two fibers of its       *)
(* thread and a second thread; a script, a file it may require, which may  *)
(* have a syntax error, and a bundled library.                             *)
(***************************************************************************)
EXTENDS RubyLoad, TLC

CONSTANTS Fiber, Nested, Thread, main, other, A, B, U

MCOn == Main :> main @@ Fiber :> main @@ Nested :> main @@ Thread :> other

\* The two fibers are the same but for their names.
FiberSymmetry == Permutations({Fiber, Nested})
=============================================================================
