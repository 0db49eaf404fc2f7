----------------------------- MODULE RubyFibers -----------------------------
(***************************************************************************)
(* Fiber (src/host.rs new_fiber, fiber_yield, fiber_resume) on one or      *)
(* several threads.                                                        *)
(*                                                                         *)
(* The host keeps one set of registers: frames, scope, signal, the pending *)
(* exception.  fiber_resume swaps the fiber's set in and its caller's out, *)
(* and back when the fiber yields, returns or raises; a thread's body does *)
(* the same once.  A set of registers is modelled by whose it is and the   *)
(* pending exception in it.  The coroutine leaves its cell while it runs,  *)
(* which is what makes a second resume fail.                               *)
(*                                                                         *)
(* The table of cells and the running fiber are thread-local, and a Fiber  *)
(* object is an index: the object <<t, i>>, made by thread t, names cell   *)
(* <<u, i>> to the thread u that resumes it.                               *)
(*                                                                         *)
(* A thread that is started runs to its end while its starter is in join;  *)
(* RubyThreads has the other interleavings.  Every error here has an       *)
(* exception object.  What follows a Rust panic is not modelled.           *)
(***************************************************************************)
EXTENDS Naturals

CONSTANTS
  Threads,
  Main,
  MaxFibers,     \* the fibers a thread makes in a behaviour, at most
  Exceptions,    \* what a program raises
  FiberError,
  None

Ids == 0..(MaxFibers - 1)

Fibers == Threads \X Ids

Executors == Threads \cup Fibers

Raisable == Exceptions \cup {FiberError}

ASSUME FibersAssumption ==
  /\ Main \in Threads
  /\ MaxFibers \in Nat
  /\ Threads \cap Fibers = {}
  /\ None \notin Executors \cup Ids \cup Raisable

VARIABLES
  running,   \* whose Ruby code runs: a thread's own or a fiber's
  regs,      \* the registers in the host
  count,     \* count[t]: length of t's FIBERS
  coro,      \* coro[f]: "none" where there is no cell, "home" when FiberCell.coro
             \* is there, "out" while fiber_resume has taken it
  done,      \* done[x]: FiberCell.done, or the thread has ended
  ctx,       \* ctx[f]: FiberCell.ctx
  curFiber,  \* curFiber[t]: CUR_FIBER of thread t
  call,      \* call[x]: the locals of the call that waits for x to give control
             \* back: fiber_resume, or thread_join with run_thread_body
  raising,   \* raising[x]: the exception x unwinds with, that is the Err it is
             \* about to answer
  panicked   \* a Rust panic: the index was out of bounds

vars == <<running, regs, count, coro, done, ctx, curFiber, call, raising,
          panicked>>

\* FiberContext.
Registers == [owner : Executors \cup {None}, exc : Raisable \cup {None}]

Fresh(x) == [owner |-> x, exc |-> None]

Calls == [by : Executors \cup {None}, ctx : Registers, prev : Ids \cup {None}]

NoCall == [by |-> None, ctx |-> Fresh(None), prev |-> None]

ThreadOf(x) == IF x \in Threads THEN x ELSE x[1]

IdOf(x) == IF x \in Threads THEN None ELSE x[2]

Exists(f) == f[2] < count[f[1]]

TypeOK ==
  /\ running \in Executors
  /\ regs \in Registers
  /\ count \in [Threads -> 0..MaxFibers]
  /\ coro \in [Fibers -> {"none", "home", "out"}]
  /\ \A f \in Fibers : coro[f] # "none" <=> Exists(f)
  /\ done \in [Executors -> BOOLEAN]
  /\ ctx \in [Fibers -> Registers]
  /\ curFiber \in [Threads -> Ids \cup {None}]
  /\ call \in [Executors -> Calls]
  /\ raising \in [Executors -> Raisable \cup {None}]
  /\ panicked \in BOOLEAN

Init ==
  /\ running = Main
  /\ regs = Fresh(Main)
  /\ count = [t \in Threads |-> 0]
  /\ coro = [f \in Fibers |-> "none"]
  /\ done = [x \in Executors |-> FALSE]
  /\ ctx = [f \in Fibers |-> Fresh(None)]
  /\ curFiber = [t \in Threads |-> None]
  /\ call = [x \in Executors |-> NoCall]
  /\ raising = [x \in Executors |-> None]
  /\ panicked = FALSE

Runs(x) == running = x /\ ~panicked

-----------------------------------------------------------------------------
(* Exceptions.                                                              *)

SetPending(x, e) ==
  /\ regs' = [regs EXCEPT !.exc = e]
  /\ raising' = [raising EXCEPT ![x] = e]

\* raise, in code that is not unwinding already.
Raise(x) ==
  /\ Runs(x)
  /\ raising[x] = None
  /\ \E e \in Exceptions : SetPending(x, e)
  /\ UNCHANGED <<running, count, coro, done, ctx, curFiber, call, panicked>>

\* The rescue clause takes the pending exception.
Rescue(x) ==
  /\ Runs(x)
  /\ raising[x] # None
  /\ SetPending(x, None)
  /\ UNCHANGED <<running, count, coro, done, ctx, curFiber, call, panicked>>

\* raise_exc("FiberError", ...).  In an ensure clause it supersedes what is
\* being raised.
RaiseFiberError(x) ==
  /\ SetPending(x, FiberError)
  /\ UNCHANGED <<running, count, coro, done, ctx, curFiber, call, panicked>>

-----------------------------------------------------------------------------
(* new_fiber and fiber_resume up to the switch.                             *)

\* Fiber.new, and the private fiber of an external Enumerator#next.
NewFiber(x) ==
  LET t == ThreadOf(x)
      f == <<t, count[t]>>
  IN  /\ Runs(x)
      /\ count[t] < MaxFibers
      /\ count' = [count EXCEPT ![t] = @ + 1]
      /\ coro' = [coro EXCEPT ![f] = "home"]
      /\ ctx' = [ctx EXCEPT ![f] = Fresh(f)]
      /\ UNCHANGED <<running, regs, done, curFiber, call, raising, panicked>>

\* The cell that the object o names to x.
CellOf(x, o) == <<ThreadOf(x), o[2]>>

\* Mutant: the coroutine is not taken out, or is used wherever it is.
SwitchToAny(x, g) ==
  /\ ~done[g]
  /\ coro' = [coro EXCEPT ![g] = "out"]
  /\ ctx' = [ctx EXCEPT ![g] = Fresh(None)]
  /\ call' = [call EXCEPT ![g] = [by |-> x, ctx |-> regs,
                                  prev |-> curFiber[ThreadOf(x)]]]
  /\ regs' = ctx[g]
  /\ curFiber' = [curFiber EXCEPT ![ThreadOf(x)] = g[2]]
  /\ running' = g
  /\ UNCHANGED <<count, done, raising, panicked>>

\* Take the coroutine and the registers out of the cell, keep the caller's
\* registers and the fiber that ran, and switch.
SwitchTo(x, g) ==
  /\ ~done[g]
  /\ coro[g] = "home"
  /\ coro' = [coro EXCEPT ![g] = "out"]
  /\ ctx' = [ctx EXCEPT ![g] = Fresh(None)]
  /\ call' = [call EXCEPT ![g] = [by |-> x, ctx |-> regs,
                                  prev |-> curFiber[ThreadOf(x)]]]
  /\ regs' = ctx[g]
  /\ curFiber' = [curFiber EXCEPT ![ThreadOf(x)] = g[2]]
  /\ running' = g
  /\ UNCHANGED <<count, done, raising, panicked>>

Resume(x, o) ==
  /\ Runs(x)
  /\ Exists(o)
  /\ Exists(CellOf(x, o))
  /\ SwitchTo(x, CellOf(x, o))

\* "attempt to resume a terminated fiber", "double resume of a fiber".
ResumeFails(x, o) ==
  /\ Runs(x)
  /\ Exists(o)
  /\ Exists(CellOf(x, o))
  /\ done[CellOf(x, o)] \/ coro[CellOf(x, o)] = "out"
  /\ RaiseFiberError(x)

\* The thread's table is shorter than the index.
ResumePanics(x, o) ==
  /\ Runs(x)
  /\ Exists(o)
  /\ ~Exists(CellOf(x, o))
  /\ panicked' = TRUE
  /\ UNCHANGED <<running, regs, count, coro, done, ctx, curFiber, call, raising>>

-----------------------------------------------------------------------------
(* fiber_yield, and fiber_resume after the switch back.                      *)

\* Mutant: CUR_FIBER is cleared instead of put back.
SwitchBackToRoot(g) ==
  /\ running' = call[g].by
  /\ curFiber' = [curFiber EXCEPT ![g[1]] = None]
  /\ coro' = [coro EXCEPT ![g] = "home"]
  /\ call' = [call EXCEPT ![g] = NoCall]

\* Control returns to the fiber_resume that runs g.
SwitchBack(g) ==
  /\ running' = call[g].by
  /\ curFiber' = [curFiber EXCEPT ![g[1]] = call[g].prev]
  /\ coro' = [coro EXCEPT ![g] = "home"]
  /\ call' = [call EXCEPT ![g] = NoCall]

\* Mutant: the registers stay those of the fiber.
YieldKeepingRegs(x) ==
  LET t == ThreadOf(x)
      g == <<t, curFiber[t]>>
  IN  /\ Runs(x)
      /\ curFiber[t] # None
      /\ SwitchBack(g)
      /\ ctx' = [ctx EXCEPT ![g] = regs]
      /\ UNCHANGED <<regs, count, done, raising, panicked>>

\* Fiber.yield, and << on the yielder of an external Enumerator: suspend the
\* thread's current fiber, put its registers in its cell and the caller's back.
Yield(x) ==
  LET t == ThreadOf(x)
      g == <<t, curFiber[t]>>
  IN  /\ Runs(x)
      /\ curFiber[t] # None
      /\ SwitchBack(g)
      /\ regs' = call[g].ctx
      /\ ctx' = [ctx EXCEPT ![g] = regs]
      /\ UNCHANGED <<count, done, raising, panicked>>

\* "attempt to yield on a not resumed fiber".
YieldFails(x) ==
  /\ Runs(x)
  /\ curFiber[ThreadOf(x)] = None
  /\ RaiseFiberError(x)

\* The block returns.
BodyReturns(x) ==
  /\ Runs(x)
  /\ x \in Fibers
  /\ raising[x] = None
  /\ SwitchBack(x)
  /\ done' = [done EXCEPT ![x] = TRUE]
  /\ regs' = call[x].ctx
  /\ ctx' = [ctx EXCEPT ![x] = regs]
  /\ UNCHANGED <<count, raising, panicked>>

\* Mutant: the Err goes to the caller without its exception object.
BodyRaisesMessage(x) ==
  /\ Runs(x)
  /\ x \in Fibers
  /\ raising[x] # None
  /\ SwitchBack(x)
  /\ done' = [done EXCEPT ![x] = TRUE]
  /\ regs' = call[x].ctx
  /\ ctx' = [ctx EXCEPT ![x] = regs]
  /\ raising' = [raising EXCEPT ![x] = None, ![call[x].by] = raising[x]]
  /\ UNCHANGED <<count, panicked>>

\* The block raises: the pending exception is taken out of the fiber's
\* registers and put into the caller's, which goes on unwinding.
BodyRaises(x) ==
  /\ Runs(x)
  /\ x \in Fibers
  /\ raising[x] # None
  /\ SwitchBack(x)
  /\ done' = [done EXCEPT ![x] = TRUE]
  /\ regs' = [call[x].ctx EXCEPT !.exc = IF regs.exc = None THEN @ ELSE regs.exc]
  /\ ctx' = [ctx EXCEPT ![x] = [regs EXCEPT !.exc = None]]
  /\ raising' = [raising EXCEPT ![x] = None, ![call[x].by] = raising[x]]
  /\ UNCHANGED <<count, panicked>>

-----------------------------------------------------------------------------
(* Thread.new and join, run_thread_body.                                     *)

RunThread(x, u) ==
  /\ Runs(x)
  /\ u # Main
  /\ call[u] = NoCall
  /\ ~done[u]
  /\ call' = [call EXCEPT ![u] = [by |-> x, ctx |-> regs, prev |-> None]]
  /\ regs' = Fresh(u)
  /\ running' = u
  /\ UNCHANGED <<count, coro, done, ctx, curFiber, raising, panicked>>

\* The body ends, its starter's registers come back, and join raises what the
\* body raised.
ThreadEnds(u) ==
  /\ Runs(u)
  /\ u \in Threads \ {Main}
  /\ done' = [done EXCEPT ![u] = TRUE]
  /\ call' = [call EXCEPT ![u] = NoCall]
  /\ running' = call[u].by
  /\ IF raising[u] = None
       THEN regs' = call[u].ctx /\ UNCHANGED raising
       ELSE /\ regs' = [call[u].ctx EXCEPT !.exc = regs.exc]
            /\ raising' = [raising EXCEPT ![u] = None, ![call[u].by] = raising[u]]
  /\ UNCHANGED <<count, coro, ctx, curFiber, panicked>>

-----------------------------------------------------------------------------
Next ==
  \E x \in Executors :
    \/ NewFiber(x) \/ Yield(x) \/ YieldFails(x) \/ BodyReturns(x) \/ BodyRaises(x)
    \/ Raise(x) \/ Rescue(x) \/ ThreadEnds(x)
    \/ \E o \in Fibers : Resume(x, o) \/ ResumeFails(x, o) \/ ResumePanics(x, o)
    \/ \E u \in Threads : RunThread(x, u)

Spec == Init /\ [][Next]_vars

-----------------------------------------------------------------------------
(* Properties.                                                              *)

Active(x) == x = Main \/ call[x] # NoCall

\* "its own volatile execution context (scope/signal/frames), swapped at every
\* resume/suspend boundary, so fibers are isolated and nest correctly"
\* (BUGS.md): the registers in the host are those of the code that runs, and
\* everybody else's are where the next switch to them looks.
OwnContext ==
  /\ regs.owner = running
  /\ \A f \in Fibers : coro[f] = "home" => ctx[f].owner = f
  /\ \A x \in Executors : call[x] # NoCall => call[x].ctx.owner = call[x].by

\* "a raise inside the body has its exception object handed back across the
\* boundary on the way out" (BUGS.md): whoever is unwinding has the exception
\* object pending in its own registers, wherever these are, and nobody else has
\* one.
ExceptionTravels ==
  /\ regs.exc = raising[running]
  /\ \A f \in Fibers : coro[f] = "home" => ctx[f].exc = raising[f]
  /\ \A x \in Executors : call[x] # NoCall => call[x].ctx.exc = raising[call[x].by]

\* Fiber.yield suspends the code that calls it and nothing else ("the yielder
\* lives for the whole fiber body, and we only reach here from inside that
\* body", host.rs), also after nested fibers and threads have come and gone.
YieldsItself == curFiber[ThreadOf(running)] = IdOf(running)

Status(x) ==
  IF done[x] THEN "dead"
  ELSE IF Active(x) THEN "active"
  ELSE IF x \in Fibers /\ ~Exists(x) THEN "absent"
  ELSE "suspended"

C == INSTANCE Coroutines WITH
       status <- [x \in Executors |-> Status(x)],
       resumer <- [x \in Executors |-> call[x].by]

\* "Resuming a fiber whose block has returned raises FiberError" (BUGS.md), and
\* so does resuming one that runs or waits: only a suspended fiber is entered,
\* and control always goes back to the one that entered it.
ImplementsCoroutines == C!Spec
=============================================================================
