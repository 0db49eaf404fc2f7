---------------------------- MODULE MCRubyUnwind ----------------------------
(* RubyUnwind over every program of a few steps. *)
EXTENDS RubyUnwind
=============================================================================
