---------------------------- MODULE MCRubyQueue ----------------------------
(***************************************************************************)
(* Instances of RubyQueue for TLC: three threads, any of which may be      *)
(* asleep in the queue while the others change it.                         *)
(***************************************************************************)
EXTENDS RubyQueue

CONSTANTS P, Q, C, X, Y

MCThreads == {P, Q, C}
=============================================================================
