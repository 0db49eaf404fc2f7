---------------------------- MODULE MCRubyFibers ----------------------------
(***************************************************************************)
(* Instances of RubyFibers for TLC: the main thread and another, with up   *)
(* to MaxFibers fibers each.                                               *)
(***************************************************************************)
EXTENDS RubyFibers

CONSTANTS A, E

MCThreads == {Main, A}
=============================================================================
