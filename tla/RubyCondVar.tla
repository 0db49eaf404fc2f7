---------------------------- MODULE RubyCondVar ----------------------------
(***************************************************************************)
(* Mutex / Monitor and ConditionVariable (src/builtins.rs mutex_method and *)
(* condvar_method, src/host.rs condvar_wait and condvar_notify).            *)
(*                                                                         *)
(* A Mutex is one flag on the Ruby object: lock and synchronize set it     *)
(* without looking, unlock and the end of synchronize clear it, and what   *)
(* keeps two critical sections apart is the GVL.  A ConditionVariable is a *)
(* generation counter behind a mutex of its own: wait gives up the GVL,    *)
(* THEN captures the generation and sleeps until it has moved; signal and  *)
(* broadcast bump it, and after that notify one sleeper or all of them.    *)
(***************************************************************************)
EXTENDS Naturals

CONSTANTS
  Threads,
  NoThread,
  Waiters,      \* threads that call cv.wait(m) inside m.synchronize
  Signallers,   \* threads that call signal
  Broadcasters, \* threads that call broadcast
  MayBlock,     \* threads that make another blocking call inside m.synchronize
  MaxDepth,     \* how deep a thread nests synchronize on the same object
  MaxTurns      \* turns of a thread in a behaviour: times it comes to Ruby from
                \* elsewhere, and calls it makes

ASSUME CondVarAssumption ==
  /\ NoThread \notin Threads
  /\ Waiters \subseteq Threads
  /\ Signallers \subseteq Threads
  /\ Broadcasters \subseteq Threads
  /\ MayBlock \subseteq Threads
  /\ MaxDepth \in Nat
  /\ MaxTurns \in Nat

VARIABLES
  gvl,       \* the thread that runs Ruby, or NoThread
  pc,        \* where each thread is
  locked,    \* the mutex's __locked flag
  depth,     \* depth[t]: synchronize blocks t is inside
  gen,       \* CondVarSync.gen
  start,     \* start[t]: the generation t captured in condvar_wait
  parked,    \* threads asleep in c.cv.wait
  turns      \* turns[t]: turns t has taken

mutex == <<locked, depth>>
condvar == <<gen, start, parked>>
vars == <<gvl, pc, locked, depth, gen, start, parked, turns>>

\* t runs Ruby with the GVL.
GvlPcs == {"ruby", "notifyOne", "notifyAll"}

NotifyPcs == {"notifyOne", "notifyAll"}

\* t is inside cv.wait, the mutex given up.
WaitPcs == {"capture", "parked", "back"}

TypeOK ==
  /\ gvl \in Threads \cup {NoThread}
  /\ pc \in [Threads -> GvlPcs \cup WaitPcs \cup {"outside", "blocked"}]
  /\ locked \in BOOLEAN
  /\ depth \in [Threads -> 0..MaxDepth]
  /\ gen \in Nat
  /\ start \in [Threads -> Nat]
  /\ parked \subseteq Threads
  /\ turns \in [Threads -> 0..MaxTurns]

Init ==
  /\ gvl = NoThread
  /\ pc = [t \in Threads |-> "outside"]
  /\ locked = FALSE
  /\ depth = [t \in Threads |-> 0]
  /\ gen = 0
  /\ start = [t \in Threads |-> 0]
  /\ parked = {}
  /\ turns = [t \in Threads |-> 0]

-----------------------------------------------------------------------------
Transition(t, from, to) ==
  /\ pc[t] = from
  /\ pc' = [pc EXCEPT ![t] = to]

Turn(t) ==
  /\ turns[t] < MaxTurns
  /\ turns' = [turns EXCEPT ![t] = @ + 1]

\* gvl_enter and gvl_leave around what is neither a section nor a wait.
EnterRuby(t) ==
  /\ Turn(t)
  /\ gvl = NoThread
  /\ gvl' = t
  /\ Transition(t, "outside", "ruby")
  /\ UNCHANGED <<mutex, condvar>>

LeaveRuby(t) ==
  /\ depth[t] = 0
  /\ Transition(t, "ruby", "outside")
  /\ gvl' = NoThread
  /\ UNCHANGED <<mutex, condvar, turns>>

\* A blocking call inside a critical section: gvl_blocking.
Block(t) ==
  /\ t \in MayBlock
  /\ depth[t] > 0
  /\ Transition(t, "ruby", "blocked")
  /\ gvl' = NoThread
  /\ UNCHANGED <<mutex, condvar, turns>>

Unblock(t) ==
  /\ Turn(t)
  /\ gvl = NoThread
  /\ gvl' = t
  /\ Transition(t, "blocked", "ruby")
  /\ UNCHANGED <<mutex, condvar>>

-----------------------------------------------------------------------------
(* mutex_method.                                                            *)

\* Mutant: lock gives up the GVL as if it waited, and takes the mutex anyway.
SynchronizeYields(t) ==
  /\ Turn(t)
  /\ depth[t] < MaxDepth
  /\ Transition(t, "ruby", "blocked")
  /\ gvl' = NoThread
  /\ locked' = TRUE
  /\ depth' = [depth EXCEPT ![t] = @ + 1]
  /\ UNCHANGED <<condvar>>

\* lock, synchronize, enter, mon_enter: the flag is set whatever it was.
Synchronize(t) ==
  /\ pc[t] = "ruby"
  /\ Turn(t)
  /\ depth[t] < MaxDepth
  /\ locked' = TRUE
  /\ depth' = [depth EXCEPT ![t] = @ + 1]
  /\ UNCHANGED <<gvl, pc, condvar>>

\* try_lock that succeeds; one that fails changes nothing.
TryLock(t) ==
  /\ pc[t] = "ruby"
  /\ Turn(t)
  /\ ~locked
  /\ depth[t] < MaxDepth
  /\ locked' = TRUE
  /\ depth' = [depth EXCEPT ![t] = @ + 1]
  /\ UNCHANGED <<gvl, pc, condvar>>

\* Mutant: a block that raised leaves the flag set.
ExitLocked(t) ==
  /\ pc[t] = "ruby"
  /\ depth[t] > 0
  /\ locked' \in {FALSE, locked}
  /\ depth' = [depth EXCEPT ![t] = @ - 1]
  /\ UNCHANGED <<gvl, pc, condvar, turns>>

\* unlock, exit, mon_exit, and the end of a synchronize block, by a value or
\* by an exception.
Exit(t) ==
  /\ pc[t] = "ruby"
  /\ depth[t] > 0
  /\ locked' = FALSE
  /\ depth' = [depth EXCEPT ![t] = @ - 1]
  /\ UNCHANGED <<gvl, pc, condvar, turns>>

-----------------------------------------------------------------------------
(* wait: unlock the mutex, condvar_wait, relock it.                          *)

Wait(t) ==
  /\ t \in Waiters
  /\ depth[t] > 0
  /\ Turn(t)
  /\ Transition(t, "ruby", "capture")
  /\ locked' = FALSE
  /\ gvl' = NoThread
  /\ UNCHANGED <<depth, condvar>>

\* Under gen's mutex, the GVL already given up: capture the generation and
\* fall asleep.
Capture(t) ==
  /\ Transition(t, "capture", "parked")
  /\ start' = [start EXCEPT ![t] = gen]
  /\ parked' = parked \cup {t}
  /\ UNCHANGED <<gvl, mutex, gen, turns>>

\* A woken sleeper whose generation has not moved sleeps again.
SleepAgain(t) ==
  /\ pc[t] = "parked"
  /\ t \notin parked
  /\ gen = start[t]
  /\ parked' = parked \cup {t}
  /\ UNCHANGED <<gvl, pc, mutex, gen, start, turns>>

\* A woken sleeper whose generation has moved leaves the wait.
WakeUp(t) ==
  /\ t \notin parked
  /\ gen # start[t]
  /\ Transition(t, "parked", "back")
  /\ UNCHANGED <<gvl, mutex, condvar, turns>>

SpuriousWakeup(t) ==
  /\ t \in parked
  /\ parked' = parked \ {t}
  /\ UNCHANGED <<gvl, pc, mutex, gen, start, turns>>

\* Mutant: wait returns without relocking.
ReturnUnlocked(t) ==
  /\ gvl = NoThread
  /\ gvl' = t
  /\ Transition(t, "back", "ruby")
  /\ UNCHANGED <<mutex, condvar, turns>>

Return(t) ==
  /\ gvl = NoThread
  /\ gvl' = t
  /\ Transition(t, "back", "ruby")
  /\ locked' = TRUE
  /\ UNCHANGED <<depth, condvar, turns>>

-----------------------------------------------------------------------------
(* signal and broadcast: bump the generation, then notify.                   *)

Bump(t, kind) ==
  /\ Turn(t)
  /\ Transition(t, "ruby", kind)
  /\ gen' = gen + 1
  /\ UNCHANGED <<gvl, mutex, start, parked>>

Signal(t) == t \in Signallers /\ Bump(t, "notifyOne")

Broadcast(t) == t \in Broadcasters /\ Bump(t, "notifyAll")

\* notify_one wakes a sleeper of the OS's choice, if there is one.
NotifyOne(t) ==
  /\ Transition(t, "notifyOne", "ruby")
  /\ \/ parked = {} /\ UNCHANGED parked
     \/ \E w \in parked : parked' = parked \ {w}
  /\ UNCHANGED <<gvl, mutex, gen, start, turns>>

\* Mutant: broadcast notifies one sleeper.
NotifyAllWakesOne(t) ==
  /\ Transition(t, "notifyAll", "ruby")
  /\ \/ parked = {} /\ UNCHANGED parked
     \/ \E w \in parked : parked' = parked \ {w}
  /\ UNCHANGED <<gvl, mutex, gen, start, turns>>

NotifyAll(t) ==
  /\ Transition(t, "notifyAll", "ruby")
  /\ parked' = {}
  /\ UNCHANGED <<gvl, mutex, gen, start, turns>>

-----------------------------------------------------------------------------
WaitStep(t) == Capture(t) \/ SleepAgain(t) \/ WakeUp(t) \/ Return(t)

Next ==
  \E t \in Threads :
    \/ EnterRuby(t) \/ LeaveRuby(t) \/ Block(t) \/ Unblock(t)
    \/ Synchronize(t) \/ TryLock(t) \/ Exit(t)
    \/ Wait(t) \/ WaitStep(t) \/ SpuriousWakeup(t)
    \/ Signal(t) \/ Broadcast(t) \/ NotifyOne(t) \/ NotifyAll(t)

Spec == Init /\ [][Next]_vars

\* The OS keeps running every thread, and Ruby code that holds the GVL comes to
\* the end of its sections and gives it up.
FairSpec ==
  Spec /\ \A t \in Threads :
    /\ WF_vars(WaitStep(t) \/ NotifyOne(t) \/ NotifyAll(t))
    /\ WF_vars(Exit(t) \/ LeaveRuby(t))

-----------------------------------------------------------------------------
(* Properties.                                                              *)

\* t is inside the critical section and has not given the mutex up.
Inside(t) == depth[t] > 0 /\ pc[t] \notin WaitPcs

Notifying == \E t \in Threads : pc[t] \in NotifyPcs

\* "under the GVL a critical section with no blocking call runs uninterrupted"
\* (BUGS.md), a wait giving the mutex up in between: sections exclude each
\* other, also around cv.wait, which leaves and comes back.
SectionsExclude == \A t, u \in Threads : Inside(t) /\ Inside(u) => t = u

\* "synchronize holds a lock flag around the block (cleared even on a raise)"
\* (BUGS.md): locked? is true exactly while somebody is inside.
FlagAroundBlock == locked <=> \E t \in Threads : Inside(t)

\* What the code does guarantee a waiter alone on its condition variable, or
\* one that is woken by broadcasts: it sleeps through no bump after its capture.
NoMissedWakeup == \A t \in parked : gen # start[t] => Notifying

\* A waiter whose generation has moved comes back to Ruby.
StaleWaiterReturns ==
  \A t \in Threads :
    pc[t] = "parked" /\ start[t] # gen ~> pc[t] = "ruby"

G == INSTANCE Gvl WITH holder <- gvl

\* The GVL passes from thread to thread only through a release.
ImplementsGvl == G!Spec
=============================================================================
