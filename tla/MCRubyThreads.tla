--------------------------- MODULE MCRubyThreads ---------------------------
(***************************************************************************)
(* Instances of RubyThreads for TLC: the main thread and two it may spawn, *)
(* directly or one from the other.                                         *)
(***************************************************************************)
EXTENDS RubyThreads

CONSTANTS A, B

MCThreads == {Main, A, B}

Children == MCThreads \ {Main}

\* Only the main program joins.
MainJoins == {Main} \X Children

\* The main program joins both bodies and the first body joins the second.
NestedJoins == MainJoins \cup {<<A, B>>}
=============================================================================
