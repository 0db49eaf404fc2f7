----------------------------- MODULE FifoQueue -----------------------------
(***************************************************************************)
(* What Queue and SizedQueue promise a Ruby program: every call takes      *)
(* effect at one instant on a first-in first-out queue.  A push that       *)
(* succeeds appends while the queue is open and not full, a pop that       *)
(* succeeds takes the oldest item, nil and the errors are given only when  *)
(* the queue is closed and drained, closed, empty or full.  RubyQueue      *)
(* implements it.                                                          *)
(***************************************************************************)
EXTENDS Naturals, Sequences

CONSTANTS
  Threads,
  Values,
  Cap,         \* most items a SizedQueue holds, or Unbounded
  Unbounded

VARIABLES
  items,       \* the queue, oldest first
  closed,
  reply        \* reply[t]: what t's last completed call answered

vars == <<items, closed, reply>>

Replies == Values \cup {"none", "self", "nil", "ThreadError", "ClosedQueueError"}

Full == Cap # Unbounded /\ Len(items) >= Cap

Init ==
  /\ items = <<>>
  /\ closed = FALSE
  /\ reply = [t \in Threads |-> "none"]

Answer(t, r) == reply' = [reply EXCEPT ![t] = r]

Push(t) ==
  /\ ~closed
  /\ ~Full
  /\ \E v \in Values : items' = Append(items, v)
  /\ Answer(t, "self")
  /\ UNCHANGED closed

Pop(t) ==
  /\ items # <<>>
  /\ items' = Tail(items)
  /\ Answer(t, Head(items))
  /\ UNCHANGED closed

PopClosed(t) ==
  /\ closed
  /\ items = <<>>
  /\ Answer(t, "nil")
  /\ UNCHANGED <<items, closed>>

PushClosed(t) ==
  /\ closed
  /\ Answer(t, "ClosedQueueError")
  /\ UNCHANGED <<items, closed>>

\* A non-blocking call that would have had to wait.
WouldBlock(t) ==
  /\ Full \/ items = <<>>
  /\ Answer(t, "ThreadError")
  /\ UNCHANGED <<items, closed>>

Close(t) ==
  /\ closed' = TRUE
  /\ Answer(t, "self")
  /\ UNCHANGED items

Clear(t) ==
  /\ items' = <<>>
  /\ Answer(t, "self")
  /\ UNCHANGED closed

Next ==
  \E t \in Threads :
    \/ Push(t) \/ PushClosed(t)
    \/ Pop(t) \/ PopClosed(t)
    \/ WouldBlock(t) \/ Close(t) \/ Clear(t)

Spec == Init /\ [][Next]_vars
=============================================================================
