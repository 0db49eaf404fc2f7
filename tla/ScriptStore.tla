---------------------------- MODULE ScriptStore ----------------------------
(***************************************************************************)
(* What the bytecode cache promises to the processes of one home           *)
(* directory: a dictionary that a store updates in one step, adding its    *)
(* entry and losing none but the one of the same key.  A rebuild of the    *)
(* binary empties it: no build runs another's bytecode.  Of a process      *)
(* whose binary has been replaced it promises only that, and even that     *)
(* only where such a process is told from the new ones (outlived is        *)
(* FALSE).  Once a process has gone on without the lock, entries may be    *)
(* lost.  ScriptCache implements it.                                       *)
(***************************************************************************)
EXTENDS Naturals

VARIABLES
  installed,     \* the build of the binary on disk
  view,          \* the entries that a process of that build finds
  degraded,      \* a process went on without the lock
  outlived       \* a process passes for one of a build it is not

vars == <<installed, view, degraded, outlived>>

Init ==
  /\ installed = 1
  /\ view = {}
  /\ degraded = FALSE
  /\ outlived = FALSE

Store ==
  /\ \E e \in view' :
       /\ e.build = installed
       /\ view' = {x \in view : x.key # e.key} \cup {e}
  /\ UNCHANGED <<installed, degraded, outlived>>

Rebuild ==
  /\ installed' = installed + 1
  /\ view' = {}
  /\ outlived' \in {outlived, TRUE}
  /\ UNCHANGED degraded

\* A process of an earlier build replaces the shard with one of its own.
Evict ==
  /\ installed > 1
  /\ view' = {}
  /\ UNCHANGED <<installed, degraded, outlived>>

Degrade ==
  /\ degraded' = TRUE
  /\ UNCHANGED <<installed, view, outlived>>

\* Two stores at once, one of them without the lock.
Lose ==
  /\ degraded
  /\ \A e \in view' : e.build = installed
  /\ UNCHANGED <<installed, degraded, outlived>>

\* A process of an earlier build stores among the entries of the present one.
Mix ==
  /\ outlived
  /\ UNCHANGED <<installed, degraded, outlived>>

Next == Store \/ Rebuild \/ Evict \/ Degrade \/ Lose \/ Mix

Spec == Init /\ [][Next]_vars
=============================================================================
