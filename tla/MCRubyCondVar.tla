--------------------------- MODULE MCRubyCondVar ---------------------------
(***************************************************************************)
(* Instances of RubyCondVar for TLC: three threads on one mutex and one    *)
(* condition variable.                                                     *)
(***************************************************************************)
EXTENDS RubyCondVar

CONSTANTS A, B, S

MCThreads == {A, B, S}
=============================================================================
