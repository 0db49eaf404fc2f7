-------------------------------- MODULE Gvl --------------------------------
(***************************************************************************)
(* What the Global VM Lock promises (README.md: "only one thread executes  *)
(* Ruby at a time"): at any moment at most one thread may touch the host,  *)
(* and the right to do so passes from one thread to another only through   *)
(* a release.  RubyThreads, RubyQueue and RubyCondVar each implement it.    *)
(***************************************************************************)
CONSTANTS
  Threads,    \* the OS threads bound to one VM
  NoThread    \* not a thread

VARIABLE holder    \* the thread that may touch the host, or NoThread

Init == holder = NoThread

Acquire(t) ==
  /\ holder = NoThread
  /\ holder' = t

Release(t) ==
  /\ holder = t
  /\ holder' = NoThread

Next == \E t \in Threads : Acquire(t) \/ Release(t)

Spec == Init /\ [][Next]_holder
=============================================================================
