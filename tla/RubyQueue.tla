----------------------------- MODULE RubyQueue -----------------------------
(***************************************************************************)
(* Queue and SizedQueue (src/host.rs queue_push ... queue_clear).           *)
(*                                                                         *)
(* A queue's items sit behind a mutex of their own; its condition variable *)
(* is shared by blocked pushes and blocked pops.  A call that must wait    *)
(* first gives up the GVL, waits in a loop that re-tests its condition     *)
(* under the queue's mutex, then takes the GVL back and goes on -- a pop   *)
(* by trying again from the start, a push by appending.  Every critical    *)
(* section of the queue's mutex is one step here; notify_all comes after   *)
(* the section and is a step of its own, during which a waiter that does   *)
(* not need the GVL may test its condition.                                *)
(***************************************************************************)
EXTENDS Naturals, Sequences, FiniteSets

CONSTANTS
  Threads,     \* the threads that share the queue
  NoThread,
  Values,      \* what they push
  Cap,         \* SizedQueue.new(Cap), or Unbounded for Queue.new
  Unbounded,
  Pushers,     \* threads that call push
  Poppers,     \* threads that call pop
  Closers,     \* threads that call close
  Clearers,    \* threads that call clear
  MaxTurns     \* turns of a thread in a behaviour: times it comes to Ruby
               \* from elsewhere, and queue calls it makes

ASSUME QueueAssumption ==
  /\ NoThread \notin Threads
  /\ Unbounded \notin Nat
  /\ Cap \in Nat \cup {Unbounded}
  /\ Pushers \subseteq Threads
  /\ Poppers \subseteq Threads
  /\ Closers \subseteq Threads
  /\ Clearers \subseteq Threads
  /\ MaxTurns \in Nat

VARIABLES
  gvl,         \* the thread that runs Ruby, or NoThread
  pc,          \* where each thread is
  items,       \* QueueData.items
  closed,      \* QueueData.closed
  parked,      \* threads asleep in q.cv.wait
  arg,         \* arg[t]: the value t is pushing
  reply,       \* reply[t]: what t's last call answered
  turns        \* turns[t]: turns t has taken

data == <<items, closed>>
vars == <<gvl, pc, items, closed, parked, arg, reply, turns>>

Full == Cap # Unbounded /\ Len(items) >= Cap

Replies == Values \cup {"none", "self", "nil", "ThreadError", "ClosedQueueError"}

\* t runs Ruby, or is inside a queue call with the GVL held.
GvlPcs == {"ruby", "append", "take", "notify"}

\* t is inside a queue call without the GVL.
FreePcs == {"pushTest", "pushParked", "pushEnter",
            "popTest", "popParked", "popEnter"}

TypeOK ==
  /\ gvl \in Threads \cup {NoThread}
  /\ pc \in [Threads -> GvlPcs \cup FreePcs \cup {"outside"}]
  /\ items \in Seq(Values)
  /\ closed \in BOOLEAN
  /\ parked \subseteq Threads
  /\ arg \in [Threads -> Values]
  /\ reply \in [Threads -> Replies]
  /\ turns \in [Threads -> 0..MaxTurns]

Init ==
  /\ gvl = NoThread
  /\ pc = [t \in Threads |-> "outside"]
  /\ items = <<>>
  /\ closed = FALSE
  /\ parked = {}
  /\ arg \in [Threads -> Values]
  /\ reply = [t \in Threads |-> "none"]
  /\ turns = [t \in Threads |-> 0]

-----------------------------------------------------------------------------
Transition(t, from, to) ==
  /\ pc[t] = from
  /\ pc' = [pc EXCEPT ![t] = to]

Answer(t, r) == reply' = [reply EXCEPT ![t] = r]

Turn(t) ==
  /\ turns[t] < MaxTurns
  /\ turns' = [turns EXCEPT ![t] = @ + 1]

\* Ruby code of t makes a call on the queue.
Calls(t) == pc[t] = "ruby" /\ Turn(t)

\* gvl_enter and gvl_leave around everything that is not a queue call.
EnterRuby(t) ==
  /\ Turn(t)
  /\ gvl = NoThread
  /\ Transition(t, "outside", "ruby")
  /\ gvl' = t
  /\ UNCHANGED <<data, parked, arg, reply>>

LeaveRuby(t) ==
  /\ Transition(t, "ruby", "outside")
  /\ gvl' = NoThread
  /\ UNCHANGED <<data, parked, arg, reply, turns>>

-----------------------------------------------------------------------------
(* queue_push.                                                              *)

\* Mutant: push does not ask whether there is room.
PushUnchecked(t) ==
  /\ t \in Pushers
  /\ Calls(t)
  /\ \E v \in Values : arg' = [arg EXCEPT ![t] = v]
  /\ Transition(t, "ruby", "append")
  /\ UNCHANGED <<gvl, data, parked, reply>>

\* There is room: go on to append, the GVL held throughout.
PushRoom(t) ==
  /\ t \in Pushers
  /\ Calls(t)
  /\ ~Full
  /\ \E v \in Values : arg' = [arg EXCEPT ![t] = v]
  /\ Transition(t, "ruby", "append")
  /\ UNCHANGED <<gvl, data, parked, reply>>

\* push(v, true) on a full queue.
PushRefused(t) ==
  /\ t \in Pushers
  /\ Calls(t)
  /\ Full
  /\ Answer(t, "ThreadError")
  /\ UNCHANGED <<gvl, pc, data, parked, arg>>

\* A full SizedQueue: give up the GVL and wait.
PushBlocks(t) ==
  /\ t \in Pushers
  /\ Calls(t)
  /\ Full
  /\ \E v \in Values : arg' = [arg EXCEPT ![t] = v]
  /\ Transition(t, "ruby", "pushTest")
  /\ gvl' = NoThread
  /\ UNCHANGED <<data, parked, reply>>

\* One turn of the wait loop: sleep, or leave it to take the GVL back.
PushTest(t) ==
  LET wait == Full /\ ~closed
  IN  /\ Transition(t, "pushTest", IF wait THEN "pushParked" ELSE "pushEnter")
      /\ parked' = IF wait THEN parked \cup {t} ELSE parked
      /\ UNCHANGED <<gvl, data, arg, reply, turns>>

PushEnter(t) ==
  /\ gvl = NoThread
  /\ Transition(t, "pushEnter", "append")
  /\ gvl' = t
  /\ UNCHANGED <<data, parked, arg, reply, turns>>

\* Mutant: a push that waited appends without looking at closed.
AppendAnyway(t) ==
  /\ Transition(t, "append", "notify")
  /\ items' = Append(items, arg[t])
  /\ Answer(t, "self")
  /\ UNCHANGED <<gvl, closed, parked, arg, turns>>

\* Mutant: the newest item goes to the front.
AppendInFront(t) ==
  /\ Transition(t, "append", IF closed THEN "ruby" ELSE "notify")
  /\ items' = IF closed THEN items ELSE <<arg[t]>> \o items
  /\ Answer(t, IF closed THEN "ClosedQueueError" ELSE "self")
  /\ UNCHANGED <<gvl, closed, parked, arg, turns>>

\* Append, unless the queue has been closed; whether it is full is not asked
\* again.
AppendItem(t) ==
  /\ Transition(t, "append", IF closed THEN "ruby" ELSE "notify")
  /\ items' = IF closed THEN items ELSE Append(items, arg[t])
  /\ Answer(t, IF closed THEN "ClosedQueueError" ELSE "self")
  /\ UNCHANGED <<gvl, closed, parked, arg, turns>>

\* Mutant: one waiter is woken where the code wakes all.
NotifyOne(t) ==
  /\ Transition(t, "notify", "ruby")
  /\ \E w \in parked \cup {NoThread} :
       /\ w = NoThread => parked = {}
       /\ parked' = parked \ {w}
  /\ UNCHANGED <<gvl, data, arg, reply, turns>>

\* notify_all, the last step of a push, a pop and a close.
NotifyAll(t) ==
  /\ Transition(t, "notify", "ruby")
  /\ parked' = {}
  /\ UNCHANGED <<gvl, data, arg, reply, turns>>

\* A sleeper that was notified, or woke for no reason, tests again.
Resume(t) ==
  /\ t \notin parked
  /\ \/ Transition(t, "pushParked", "pushTest")
     \/ Transition(t, "popParked", "popTest")
  /\ UNCHANGED <<gvl, data, parked, arg, reply, turns>>

SpuriousWakeup(t) ==
  /\ t \in parked
  /\ parked' = parked \ {t}
  /\ UNCHANGED <<gvl, pc, data, arg, reply, turns>>

-----------------------------------------------------------------------------
(* queue_pop: the loop tries, and on an empty open queue waits and retries.  *)

\* Take the front item; also a pop that waited comes back to here.
Take(t, from) ==
  /\ items # <<>>
  /\ Transition(t, from, "notify")
  /\ items' = Tail(items)
  /\ Answer(t, Head(items))
  /\ UNCHANGED <<gvl, closed, parked, arg>>

Drained(t, from) ==
  /\ items = <<>>
  /\ closed
  /\ Transition(t, from, "ruby")
  /\ Answer(t, "nil")
  /\ UNCHANGED <<gvl, data, parked, arg>>

Wait(t, from) ==
  /\ items = <<>>
  /\ ~closed
  /\ Transition(t, from, "popTest")
  /\ gvl' = NoThread
  /\ UNCHANGED <<data, parked, arg, reply>>

Try(t, from) == Take(t, from) \/ Drained(t, from) \/ Wait(t, from)

PopFirstTry(t) == t \in Poppers /\ Calls(t) /\ Try(t, "ruby")

\* Mutant: the pop that waited does not loop, it takes what it was woken for.
PopOnce(t) ==
  /\ Transition(t, "take", "notify")
  /\ items' = IF items = <<>> THEN items ELSE Tail(items)
  /\ Answer(t, IF items = <<>> THEN "nil" ELSE Head(items))
  /\ UNCHANGED <<gvl, closed, parked, arg, turns>>

PopRetry(t) == Try(t, "take") /\ UNCHANGED turns

\* pop(true) on an empty open queue.
PopRefused(t) ==
  /\ t \in Poppers
  /\ Calls(t)
  /\ items = <<>>
  /\ ~closed
  /\ Answer(t, "ThreadError")
  /\ UNCHANGED <<gvl, pc, data, parked, arg>>

PopTest(t) ==
  LET wait == items = <<>> /\ ~closed
  IN  /\ Transition(t, "popTest", IF wait THEN "popParked" ELSE "popEnter")
      /\ parked' = IF wait THEN parked \cup {t} ELSE parked
      /\ UNCHANGED <<gvl, data, arg, reply, turns>>

PopEnter(t) ==
  /\ gvl = NoThread
  /\ Transition(t, "popEnter", "take")
  /\ gvl' = t
  /\ UNCHANGED <<data, parked, arg, reply, turns>>

-----------------------------------------------------------------------------
\* Mutant: close wakes nobody.
CloseSilently(t) ==
  /\ t \in Closers
  /\ Calls(t)
  /\ closed' = TRUE
  /\ Answer(t, "self")
  /\ UNCHANGED <<gvl, pc, items, parked, arg>>

Close(t) ==
  /\ t \in Closers
  /\ Calls(t)
  /\ Transition(t, "ruby", "notify")
  /\ closed' = TRUE
  /\ Answer(t, "self")
  /\ UNCHANGED <<gvl, items, parked, arg>>

\* clear empties the queue and notifies nobody.
Clear(t) ==
  /\ t \in Clearers
  /\ Calls(t)
  /\ items' = <<>>
  /\ Answer(t, "self")
  /\ UNCHANGED <<gvl, pc, closed, parked, arg>>

-----------------------------------------------------------------------------
PushStep(t) ==
  \/ PushRoom(t) \/ PushRefused(t) \/ PushBlocks(t)
  \/ PushTest(t) \/ PushEnter(t) \/ AppendItem(t)

PopStep(t) ==
  PopFirstTry(t) \/ PopRetry(t) \/ PopRefused(t) \/ PopTest(t) \/ PopEnter(t)

Next ==
  \E t \in Threads :
    \/ EnterRuby(t) \/ LeaveRuby(t)
    \/ PushStep(t) \/ PopStep(t)
    \/ NotifyAll(t) \/ Resume(t) \/ SpuriousWakeup(t)
    \/ Close(t) \/ Clear(t)

Spec == Init /\ [][Next]_vars

\* A call that has started goes on when it can, and no thread keeps the GVL to
\* itself: it ends or blocks elsewhere.
Progress(t) ==
  \/ PushTest(t) \/ PushEnter(t) \/ AppendItem(t)
  \/ PopRetry(t) \/ PopTest(t) \/ PopEnter(t)
  \/ NotifyAll(t) \/ Resume(t)

FairSpec ==
  Spec /\ \A t \in Threads : WF_vars(Progress(t)) /\ WF_vars(LeaveRuby(t))

-----------------------------------------------------------------------------
(* Properties.                                                              *)

\* Everything a queue call does on the host happens with the GVL held.
OnlyHolderRunsRuby == \A t \in Threads : pc[t] \in GvlPcs <=> gvl = t

\* "a consumer that pops an empty queue correctly parks until a push"
\* (BUGS.md): nobody sleeps on an item or a close that no notify_all follows.
NoLostPopWakeup ==
  (\E t \in parked : pc[t] = "popParked") /\ (items # <<>> \/ closed) =>
    \E u \in Threads : pc[u] = "notify"

\* "A SizedQueue blocks while full": nobody sleeps on room, or a close, that no
\* notify_all follows.
NoLostPushWakeup ==
  (\E t \in parked : pc[t] = "pushParked") /\ (~Full \/ closed) =>
    \E u \in Threads : pc[u] = "notify"

\* What the code does guarantee: pushes that were let out of the wait together
\* exceed the capacity by at most one item each, less one.
Overshoot == Cap # Unbounded => Len(items) < Cap + Cardinality(Pushers)

\* No item appears in a closed queue, and a closed queue stays closed.
ClosedOnlyDrains ==
  [][closed => /\ closed'
               /\ Len(items') <= Len(items)]_vars

\* After a close every call that is under way comes back.
CloseFreesAll == closed ~> \A t \in Threads : pc[t] \in {"ruby", "outside"}

F == INSTANCE FifoQueue

\* Every call takes effect at one instant on a FIFO queue.
ImplementsFifo == F!Spec

G == INSTANCE Gvl WITH holder <- gvl

\* The GVL passes from thread to thread only through a release.
ImplementsGvl == G!Spec
=============================================================================
