-------------------------- MODULE RubyFibersProofs --------------------------
(***************************************************************************)
(* Theorems about RubyFibers, for any number of threads and fibers.        *)
(***************************************************************************)
EXTENDS RubyFibers, TLAPS

-----------------------------------------------------------------------------
(* The inductive invariant.                                                  *)

\* The active executors form chains: each waits for one callee at most, the
\* running one for none, and nobody for an executor that is not active.
ChainInv ==
  /\ Active(running)
  /\ ~done[Main]
  /\ call[Main] = NoCall
  /\ \A x \in Executors : call[x] # NoCall =>
       /\ call[x].by \in Executors
       /\ Active(call[x].by)
       /\ call[x].by # running
       /\ ~done[x]
  /\ \A x, y \in Executors :
       call[x] # NoCall /\ call[y] # NoCall /\ call[x].by = call[y].by => x = y

\* The coroutine is out of its cell exactly while somebody waits for it, who is
\* on the same thread and has kept the fiber that ran before.
CellInv ==
  \A f \in Fibers :
    /\ coro[f] = "out" <=> call[f] # NoCall
    /\ coro[f] = "none" => ~done[f]
    /\ call[f] # NoCall => /\ ThreadOf(call[f].by) = f[1]
                           /\ call[f].prev = IdOf(call[f].by)
                           /\ Active(f[1]) \/ done[f[1]]

\* A thread that waits in join has the current fiber of the code that called
\* join, it does not run, and it waits for one thread.  One that has not begun
\* has no current fiber.
ThreadInv ==
  /\ YieldsItself
  /\ \A u \in Threads : ~Active(u) /\ ~done[u] => curFiber[u] = None
  /\ \A u \in Threads : call[u] # NoCall =>
       /\ ThreadOf(call[u].by) # ThreadOf(running)
       /\ curFiber[ThreadOf(call[u].by)] = IdOf(call[u].by)
       /\ Active(ThreadOf(call[u].by)) \/ done[ThreadOf(call[u].by)]
  /\ Active(ThreadOf(running)) \/ done[ThreadOf(running)]
  /\ \A u, v \in Threads :
       /\ call[u] # NoCall
       /\ call[v] # NoCall
       /\ ThreadOf(call[u].by) = ThreadOf(call[v].by)
       => u = v

SwitchInv == TypeOK /\ ChainInv /\ CellInv /\ ThreadInv

-----------------------------------------------------------------------------
(* Executors.                                                                *)

LEMMA FiberShape ==
  ASSUME NEW f \in Fibers
  PROVE  /\ f[1] \in Threads /\ f[2] \in Ids
         /\ f = <<f[1], f[2]>>
         /\ f \in Executors /\ f \notin Threads /\ f # Main
         /\ ThreadOf(f) = f[1] /\ IdOf(f) = f[2]
         /\ IdOf(f) # None
<1>1. f[1] \in Threads /\ f[2] \in Ids /\ f = <<f[1], f[2]>>
  BY DEF Fibers
<1>2. f \in Executors /\ f \notin Threads /\ f # Main
  BY FibersAssumption DEF Executors
<1>3. f[2] # None
  BY <1>1, FibersAssumption
<1> QED
  BY <1>1, <1>2, <1>3 DEF ThreadOf, IdOf

LEMMA ThreadShape ==
  ASSUME NEW t \in Threads
  PROVE  /\ t \in Executors /\ t \notin Fibers
         /\ ThreadOf(t) = t /\ IdOf(t) = None
  BY FibersAssumption DEF Executors, ThreadOf, IdOf

LEMMA ExecutorShape ==
  ASSUME NEW x \in Executors
  PROVE  /\ ThreadOf(x) \in Threads
         /\ IdOf(x) \in Ids \cup {None}
         /\ x # None
         /\ x \in Fibers => x = <<ThreadOf(x), IdOf(x)>>
         /\ x \in Threads => x = ThreadOf(x)
         /\ x \in Threads <=> IdOf(x) = None
         /\ x \in Fibers <=> x \notin Threads
<1>1. CASE x \in Threads
  BY <1>1, ThreadShape, FibersAssumption
<1>2. CASE x \in Fibers
  BY <1>2, FiberShape, FibersAssumption
<1> QED
  BY <1>1, <1>2 DEF Executors

\* A call that somebody made is not the empty one.
LEMMA MadeCall ==
  ASSUME NEW r, r.by \in Executors
  PROVE  r # NoCall
  BY FibersAssumption DEF NoCall

-----------------------------------------------------------------------------
(* What the switching actions do, in terms of the invariant.                 *)

\* Control goes to executor g, that is not active.
Enters(g) ==
  /\ g \in Executors /\ g # Main
  /\ call[g] = NoCall /\ ~done[g]
  /\ running' = g
  /\ \E r \in Calls : /\ r.by = running
                      /\ r.ctx = regs
                      /\ r.prev = IF g \in Fibers
                                    THEN curFiber[ThreadOf(running)] ELSE None
                      /\ call' = [call EXCEPT ![g] = r]
  /\ done' = done
  /\ count' = count
  /\ raising' = raising

\* The running executor gives control back.
Leaves ==
  /\ running # Main
  /\ call[running] # NoCall
  /\ running' = call[running].by
  /\ call' = [call EXCEPT ![running] = NoCall]
  /\ done' \in {done, [done EXCEPT ![running] = TRUE]}
  /\ count' = count

\* Who runs and who waits does not change.
Stays == UNCHANGED <<running, call, done, curFiber>>

EntersFiber(g) ==
  /\ Enters(g)
  /\ g \in Fibers
  /\ g[1] = ThreadOf(running)
  /\ coro[g] = "home"
  /\ coro' = [coro EXCEPT ![g] = "out"]
  /\ ctx' = [ctx EXCEPT ![g] = Fresh(None)]
  /\ regs' = ctx[g]
  /\ curFiber' = [curFiber EXCEPT ![ThreadOf(running)] = IdOf(g)]
  /\ panicked' = panicked

EntersThread(u) ==
  /\ Enters(u)
  /\ u \in Threads
  /\ regs' = Fresh(u)
  /\ UNCHANGED <<coro, ctx, curFiber, panicked>>

LeavesFiber ==
  /\ Leaves
  /\ running \in Fibers
  /\ coro' = [coro EXCEPT ![running] = "home"]
  /\ curFiber' = [curFiber EXCEPT ![ThreadOf(running)] = call[running].prev]
  /\ panicked' = panicked

LeavesThread ==
  /\ Leaves
  /\ running \in Threads
  /\ done' = [done EXCEPT ![running] = TRUE]
  /\ UNCHANGED <<coro, ctx, curFiber, panicked>>

LEMMA ResumeEnters ==
  ASSUME SwitchInv, NEW x \in Executors, NEW o \in Fibers, Resume(x, o)
  PROVE  EntersFiber(CellOf(x, o))
<1> DEFINE g == CellOf(x, o)
           r == [by |-> x, ctx |-> regs, prev |-> curFiber[ThreadOf(x)]]
<1> USE DEF SwitchInv, TypeOK
<1>1. x = running /\ ~panicked
  BY DEF Resume, Runs
<1>2. g \in Fibers /\ g[1] = ThreadOf(x) /\ g[2] = o[2]
  BY ExecutorShape, FiberShape DEF CellOf, Fibers
<1>3. SwitchTo(x, g)
  BY DEF Resume
<1>4. call[g] = NoCall
  BY <1>2, <1>3 DEF SwitchTo, CellInv
<1>5. r \in Calls
  <2>1. curFiber[ThreadOf(x)] \in Ids \cup {None}
    BY ExecutorShape
  <2> QED
    BY <2>1 DEF Calls
<1>6. r.by = running /\ r.ctx = regs /\ r.prev = curFiber[ThreadOf(running)]
  BY <1>1
<1>7. call' = [call EXCEPT ![g] = r]
  BY <1>3 DEF SwitchTo
<1>8. \E c \in Calls : /\ c.by = running
                       /\ c.ctx = regs
                       /\ c.prev = IF g \in Fibers
                                     THEN curFiber[ThreadOf(running)] ELSE None
                       /\ call' = [call EXCEPT ![g] = c]
  BY <1>2, <1>5, <1>6, <1>7
<1>9. Enters(g)
  BY <1>1, <1>2, <1>3, <1>4, <1>8, FiberShape DEF SwitchTo, Enters
<1>10. IdOf(g) = g[2]
  BY <1>2, FiberShape
<1> QED
  BY <1>1, <1>2, <1>3, <1>9, <1>10 DEF SwitchTo, EntersFiber

LEMMA RunThreadEnters ==
  ASSUME SwitchInv, NEW x \in Executors, NEW u \in Threads, RunThread(x, u)
  PROVE  EntersThread(u)
<1> DEFINE r == [by |-> x, ctx |-> regs, prev |-> None]
<1> USE DEF SwitchInv, TypeOK
<1>1. u \in Executors /\ u \notin Fibers
  BY ThreadShape
<1>2. r \in Calls
  BY <1>1 DEF Calls
<1>3. \E c \in Calls : /\ c.by = running
                       /\ c.ctx = regs
                       /\ c.prev = IF u \in Fibers
                                     THEN curFiber[ThreadOf(running)] ELSE None
                       /\ call' = [call EXCEPT ![u] = c]
  BY <1>1, <1>2 DEF RunThread, Runs
<1>4. Enters(u)
  BY <1>1, <1>3 DEF RunThread, Enters
<1> QED
  BY <1>4 DEF RunThread, EntersThread

\* Fiber.yield suspends the fiber that calls it.
LEMMA YieldLeaves ==
  ASSUME SwitchInv, NEW x \in Executors, Yield(x)
  PROVE  /\ x = running /\ x \in Fibers
         /\ SwitchBack(x)
         /\ regs' = call[x].ctx
         /\ ctx' = [ctx EXCEPT ![x] = regs]
         /\ UNCHANGED <<count, done, raising, panicked>>
<1>1. x = running
  BY DEF Yield, Runs
<1>2. curFiber[ThreadOf(x)] = IdOf(x) /\ curFiber[ThreadOf(x)] # None
  BY <1>1 DEF Yield, SwitchInv, ThreadInv, YieldsItself
<1>3. x \in Fibers /\ x = <<ThreadOf(x), curFiber[ThreadOf(x)]>>
  BY <1>2, ExecutorShape
<1> QED
  BY <1>1, <1>3 DEF Yield

LEMMA SwitchBackLeaves ==
  ASSUME SwitchInv, running \in Fibers, SwitchBack(running),
         done' \in {done, [done EXCEPT ![running] = TRUE]},
         count' = count, panicked' = panicked
  PROVE  LeavesFiber
<1>1. running # Main /\ running[1] = ThreadOf(running)
  BY FiberShape
<1>2. call[running] # NoCall
  BY <1>1 DEF SwitchInv, ChainInv, Active
<1> QED
  BY <1>1, <1>2 DEF SwitchBack, Leaves, LeavesFiber

LEMMA FiberLeaves ==
  ASSUME SwitchInv, NEW x \in Executors,
         Yield(x) \/ BodyReturns(x) \/ BodyRaises(x)
  PROVE  LeavesFiber /\ x = running
<1>1. CASE Yield(x)
  BY <1>1, YieldLeaves, SwitchBackLeaves
<1>2. CASE BodyReturns(x)
  BY <1>2, SwitchBackLeaves DEF BodyReturns, Runs
<1>3. CASE BodyRaises(x)
  BY <1>3, SwitchBackLeaves DEF BodyRaises, Runs
<1> QED
  BY <1>1, <1>2, <1>3

LEMMA ThreadLeaves ==
  ASSUME SwitchInv, NEW u \in Executors, ThreadEnds(u)
  PROVE  LeavesThread /\ u = running
<1>1. u = running /\ u \in Threads /\ u # Main
  BY DEF ThreadEnds, Runs
<1>2. call[running] # NoCall
  BY <1>1 DEF SwitchInv, ChainInv, Active
<1> QED
  BY <1>1, <1>2 DEF ThreadEnds, Leaves, LeavesThread

-----------------------------------------------------------------------------
(* The chain of callers.                                                     *)

LEMMA ChainInit == Init => ChainInv
  BY FibersAssumption DEF Init, ChainInv, Active, Executors

LEMMA ChainEnter ==
  ASSUME SwitchInv, NEW g, Enters(g)
  PROVE  ChainInv'
<1> USE DEF SwitchInv, TypeOK
<1>1. g \in Executors /\ g # Main /\ call[g] = NoCall /\ ~done[g]
  BY DEF Enters
<1>2. running' = g /\ done' = done
  BY DEF Enters
<1>3. PICK r \in Calls : r.by = running /\ call' = [call EXCEPT ![g] = r]
  BY DEF Enters
<1>4. call'[g] = r /\ r # NoCall
  BY <1>1, <1>3, MadeCall
<1>5. \A x \in Executors : x # g => call'[x] = call[x]
  BY <1>3
<1>6. Main \in Executors
  BY FibersAssumption DEF Executors
<1>7. \A x : Active(x) /\ x \in Executors => Active(x)'
  BY <1>1, <1>4, <1>5 DEF Active
<1>8. Active(running)' /\ ~done'[Main] /\ call'[Main] = NoCall
  BY <1>1, <1>2, <1>4, <1>5, <1>6 DEF ChainInv, Active
<1>9. ASSUME NEW x \in Executors, call'[x] # NoCall
      PROVE  /\ call'[x].by \in Executors
             /\ Active(call[x].by)'
             /\ call'[x].by # running'
             /\ ~done'[x]
  <2>1. CASE x = g
    <3>1. running # g
      BY <1>1 DEF ChainInv, Active
    <3> QED
      BY <2>1, <3>1, <1>1, <1>2, <1>3, <1>4, <1>7 DEF ChainInv
  <2>2. CASE x # g
    <3>1. call'[x] = call[x]
      BY <2>2, <1>5
    <3>2. /\ call[x].by \in Executors
          /\ Active(call[x].by)
          /\ ~done[x]
      BY <3>1, <1>9 DEF ChainInv
    <3>3. call[x].by # g
      BY <3>2, <1>1 DEF Active
    <3> QED
      BY <3>1, <3>2, <3>3, <1>2, <1>7
  <2> QED
    BY <2>1, <2>2
<1>10. ASSUME NEW x \in Executors, NEW y \in Executors,
              call'[x] # NoCall, call'[y] # NoCall, call'[x].by = call'[y].by
       PROVE  x = y
  BY <1>3, <1>4, <1>5, <1>10 DEF ChainInv
<1> QED
  BY <1>8, <1>9, <1>10 DEF ChainInv

LEMMA ChainLeave ==
  ASSUME SwitchInv, Leaves
  PROVE  ChainInv'
<1> USE DEF SwitchInv, TypeOK
<1> DEFINE c == call[running].by
<1>1. /\ running # Main /\ call[running] # NoCall
      /\ running' = c
      /\ call' = [call EXCEPT ![running] = NoCall]
      /\ done' \in {done, [done EXCEPT ![running] = TRUE]}
  BY DEF Leaves
<1>2. /\ c \in Executors /\ Active(c) /\ c # running
      /\ running \in Executors
  BY <1>1 DEF ChainInv
<1>3. \A x \in Executors : x # running => call'[x] = call[x] /\ done'[x] = done[x]
  BY <1>1
<1>4. call'[running] = NoCall
  BY <1>1
<1>5. Main \in Executors
  BY FibersAssumption DEF Executors
<1>6. \A x \in Executors : Active(x) /\ x # running => Active(x)'
  BY <1>3 DEF Active
<1>7. Active(running)'
  BY <1>1, <1>2, <1>6 DEF Active
<1>8. ~done'[Main] /\ call'[Main] = NoCall
  BY <1>1, <1>3, <1>5 DEF ChainInv
<1>9. ASSUME NEW x \in Executors, call'[x] # NoCall
      PROVE  /\ call'[x].by \in Executors
             /\ Active(call[x].by)'
             /\ call'[x].by # running'
             /\ ~done'[x]
  <2>1. x # running /\ call'[x] = call[x] /\ done'[x] = done[x]
    BY <1>3, <1>4, <1>9
  <2>2. /\ call[x].by \in Executors
        /\ Active(call[x].by)
        /\ call[x].by # running
        /\ ~done[x]
    BY <2>1, <1>9 DEF ChainInv
  <2>3. call[x].by # c
    BY <2>1, <1>1, <1>2, <1>9 DEF ChainInv
  <2> QED
    BY <2>1, <2>2, <2>3, <1>1, <1>6
<1>10. ASSUME NEW x \in Executors, NEW y \in Executors,
              call'[x] # NoCall, call'[y] # NoCall, call'[x].by = call'[y].by
       PROVE  x = y
  BY <1>3, <1>4, <1>10 DEF ChainInv
<1> QED
  BY <1>7, <1>8, <1>9, <1>10 DEF ChainInv

LEMMA ChainStay ==
  ASSUME ChainInv, Stays
  PROVE  ChainInv'
  BY DEF Stays, ChainInv, Active

-----------------------------------------------------------------------------
(* The cells.                                                                *)

LEMMA CellInit == Init => CellInv
<1> SUFFICES ASSUME Init, NEW f \in Fibers
             PROVE  coro[f] # "out" /\ call[f] = NoCall /\ ~done[f]
  BY DEF CellInv
<1> QED
  BY FiberShape DEF Init

LEMMA CellEnterFiber ==
  ASSUME SwitchInv, NEW g, EntersFiber(g)
  PROVE  CellInv'
<1> USE DEF SwitchInv, TypeOK
<1>1. g \in Fibers /\ g[1] = ThreadOf(running) /\ g \in Executors
  BY DEF EntersFiber, Enters
<1>2. PICK r \in Calls : /\ r.by = running
                         /\ r.prev = curFiber[ThreadOf(running)]
                         /\ call' = [call EXCEPT ![g] = r]
  BY <1>1 DEF EntersFiber, Enters
<1>3. r # NoCall
  BY <1>2, MadeCall
<1>4. done' = done /\ coro' = [coro EXCEPT ![g] = "out"]
  BY DEF EntersFiber, Enters
<1>5. SUFFICES ASSUME NEW f \in Fibers
               PROVE  /\ coro'[f] = "out" <=> call'[f] # NoCall
                      /\ coro'[f] = "none" => ~done'[f]
                      /\ call'[f] # NoCall =>
                           /\ ThreadOf(call'[f].by) = f[1]
                           /\ call'[f].prev = IdOf(call'[f].by)
                           /\ Active(f[1])' \/ done'[f[1]]
  BY DEF CellInv, ThreadOf, IdOf
<1>6. f \in Executors /\ f[1] \in Executors
  BY FiberShape, ThreadShape
<1>7. \A x \in Executors : Active(x) => Active(x)'
  BY <1>2, <1>3 DEF Active
<1>8. CASE f = g
  <2>1. coro'[f] = "out" /\ call'[f] = r
    BY <1>1, <1>2, <1>4, <1>8
  <2>2. r.prev = IdOf(running)
    BY <1>2 DEF ThreadInv, YieldsItself
  <2>3. Active(f[1]) \/ done[f[1]]
    BY <1>1, <1>8 DEF ThreadInv
  <2> QED
    BY <2>1, <2>2, <2>3, <1>1, <1>2, <1>3, <1>4, <1>6, <1>7, <1>8
<1>9. CASE f # g
  <2>1. coro'[f] = coro[f] /\ call'[f] = call[f]
    BY <1>2, <1>4, <1>6, <1>9
  <2> QED
    BY <2>1, <1>4, <1>6, <1>7 DEF CellInv
<1> QED
  BY <1>8, <1>9

\* A switch of threads leaves the cells alone.
LEMMA CellOther ==
  ASSUME SwitchInv,
         \A f \in Fibers : /\ call'[f] = call[f] /\ done'[f] = done[f]
                           /\ coro'[f] = "out" <=> coro[f] = "out"
                           /\ coro'[f] = "none" => coro[f] = "none",
         \A t \in Threads : Active(t) \/ done[t] => Active(t)' \/ done'[t]
  PROVE  CellInv'
<1>1. SUFFICES ASSUME NEW f \in Fibers
               PROVE  /\ coro'[f] = "out" <=> call'[f] # NoCall
                      /\ coro'[f] = "none" => ~done'[f]
                      /\ call'[f] # NoCall =>
                           /\ ThreadOf(call'[f].by) = f[1]
                           /\ call'[f].prev = IdOf(call'[f].by)
                           /\ Active(f[1])' \/ done'[f[1]]
  BY DEF CellInv, ThreadOf, IdOf
<1>2. f[1] \in Threads
  BY FiberShape
<1> QED
  BY <1>2 DEF SwitchInv, CellInv

LEMMA CellEnterThread ==
  ASSUME SwitchInv, NEW u, EntersThread(u)
  PROVE  CellInv'
<1> USE DEF SwitchInv, TypeOK
<1>1. PICK r \in Calls : r.by = running /\ call' = [call EXCEPT ![u] = r]
  BY DEF EntersThread, Enters
<1>2. r # NoCall
  BY <1>1, MadeCall
<1>3. \A f \in Fibers : /\ call'[f] = call[f] /\ done'[f] = done[f]
                        /\ coro'[f] = coro[f]
  BY <1>1, FiberShape DEF EntersThread, Enters
<1>4. \A t \in Threads : Active(t) \/ done[t] => Active(t)' \/ done'[t]
  BY <1>1, <1>2, ThreadShape DEF EntersThread, Enters, Active
<1> QED
  BY <1>3, <1>4, CellOther

LEMMA CellLeaveThread ==
  ASSUME SwitchInv, LeavesThread
  PROVE  CellInv'
<1> USE DEF SwitchInv, TypeOK
<1>1. \A f \in Fibers : /\ call'[f] = call[f] /\ done'[f] = done[f]
                        /\ coro'[f] = coro[f]
  BY FiberShape DEF LeavesThread, Leaves
<1>2. \A t \in Threads : Active(t) \/ done[t] => Active(t)' \/ done'[t]
  BY ThreadShape DEF LeavesThread, Leaves, Active
<1> QED
  BY <1>1, <1>2, CellOther

LEMMA CellLeaveFiber ==
  ASSUME SwitchInv, LeavesFiber
  PROVE  CellInv'
<1> USE DEF SwitchInv, TypeOK
<1>1. /\ running \in Fibers
      /\ call' = [call EXCEPT ![running] = NoCall]
      /\ coro' = [coro EXCEPT ![running] = "home"]
      /\ done' \in {done, [done EXCEPT ![running] = TRUE]}
  BY DEF LeavesFiber, Leaves
<1>2. \A t \in Threads : t \in Executors /\ t # running
  BY <1>1, ThreadShape
<1>3. \A t \in Threads : call'[t] = call[t] /\ done'[t] = done[t]
  BY <1>1, <1>2
<1>4. SUFFICES ASSUME NEW f \in Fibers
               PROVE  /\ coro'[f] = "out" <=> call'[f] # NoCall
                      /\ coro'[f] = "none" => ~done'[f]
                      /\ call'[f] # NoCall =>
                           /\ ThreadOf(call'[f].by) = f[1]
                           /\ call'[f].prev = IdOf(call'[f].by)
                           /\ Active(f[1])' \/ done'[f[1]]
  BY DEF CellInv, ThreadOf, IdOf
<1>5. f \in Executors /\ f[1] \in Threads
  BY FiberShape
<1>6. CASE f = running
  BY <1>1, <1>5, <1>6
<1>7. CASE f # running
  <2>1. coro'[f] = coro[f] /\ call'[f] = call[f] /\ done'[f] = done[f]
    BY <1>1, <1>5, <1>7
  <2> QED
    BY <2>1, <1>3, <1>5 DEF CellInv, Active
<1> QED
  BY <1>6, <1>7

-----------------------------------------------------------------------------
(* The threads.                                                              *)

LEMMA ThreadInit == Init => ThreadInv
<1> SUFFICES ASSUME Init PROVE ThreadInv
  OBVIOUS
<1>1. Main \in Threads /\ ThreadOf(running) = Main /\ IdOf(running) = None
  BY FibersAssumption, ThreadShape DEF Init
<1>2. \A u \in Threads : call[u] = NoCall /\ curFiber[u] = None
  BY ThreadShape DEF Init
<1> QED
  BY <1>1, <1>2 DEF ThreadInv, YieldsItself, Active

\* A switch between fibers of the running thread.
LEMMA ThreadKeeps ==
  ASSUME SwitchInv,
         running' \in Executors, ThreadOf(running') = ThreadOf(running),
         \A u \in Threads : call'[u] = call[u] /\ done'[u] = done[u],
         curFiber' = [curFiber EXCEPT ![ThreadOf(running)] = IdOf(running')]
  PROVE  ThreadInv'
<1> USE DEF SwitchInv, TypeOK
<1> DEFINE t == ThreadOf(running)
<1>1. t \in Threads
  BY ExecutorShape
<1>2. curFiber'[t] = IdOf(running') /\ \A u \in Threads : u # t => curFiber'[u] = curFiber[u]
  BY <1>1
<1>3. \A u \in Threads : Active(u)' <=> Active(u)
  BY DEF Active
<1>4. Active(t)' \/ done'[t]
  BY <1>1, <1>3 DEF ThreadInv
<1>5. \A u \in Threads : ~Active(u)' /\ ~done'[u] => curFiber'[u] = None
  BY <1>2, <1>3, <1>4 DEF ThreadInv
<1>6. ASSUME NEW u \in Threads, call'[u] # NoCall
      PROVE  /\ ThreadOf(call'[u].by) # t
             /\ curFiber'[ThreadOf(call'[u].by)] = IdOf(call'[u].by)
             /\ Active(ThreadOf(call[u].by))' \/ done'[ThreadOf(call'[u].by)]
  <2>1. call'[u] = call[u] /\ call[u].by \in Executors
    BY <1>6, ThreadShape DEF ChainInv
  <2>2. ThreadOf(call[u].by) \in Threads
    BY <2>1, ExecutorShape
  <2> QED
    BY <2>1, <2>2, <1>2, <1>3, <1>6 DEF ThreadInv
<1>7. \A u, v \in Threads :
        call'[u] # NoCall /\ call'[v] # NoCall
          /\ ThreadOf(call'[u].by) = ThreadOf(call'[v].by) => u = v
  BY DEF ThreadInv
<1>8. ThreadOf(running)' = t
  BY DEF ThreadOf
<1>9. YieldsItself'
  BY <1>2, <1>8 DEF YieldsItself, IdOf
<1> QED
  BY <1>4, <1>5, <1>6, <1>7, <1>8, <1>9 DEF ThreadInv, ThreadOf, IdOf

LEMMA ThreadEnterFiber ==
  ASSUME SwitchInv, NEW g, EntersFiber(g)
  PROVE  ThreadInv'
<1> USE DEF SwitchInv, TypeOK
<1>1. g \in Fibers /\ running' = g /\ ThreadOf(g) = ThreadOf(running)
  BY FiberShape DEF EntersFiber, Enters
<1>2. \A u \in Threads : call'[u] = call[u] /\ done'[u] = done[u]
  BY <1>1, ThreadShape DEF EntersFiber, Enters
<1>3. curFiber' = [curFiber EXCEPT ![ThreadOf(running)] = IdOf(running')]
  BY <1>1 DEF EntersFiber
<1> QED
  BY <1>1, <1>2, <1>3, FiberShape, ThreadKeeps

LEMMA ThreadLeaveFiber ==
  ASSUME SwitchInv, LeavesFiber
  PROVE  ThreadInv'
<1> USE DEF SwitchInv, TypeOK
<1>1. /\ running \in Fibers /\ running' = call[running].by
      /\ call[running] # NoCall
  BY DEF LeavesFiber, Leaves
<1>2. running' \in Executors
  BY <1>1 DEF ChainInv
<1>3. ThreadOf(running') = ThreadOf(running)
  BY <1>1, FiberShape DEF CellInv
<1>4. \A u \in Threads : call'[u] = call[u] /\ done'[u] = done[u]
  BY <1>1, ThreadShape DEF LeavesFiber, Leaves
<1>5. curFiber' = [curFiber EXCEPT ![ThreadOf(running)] = IdOf(running')]
  BY <1>1 DEF LeavesFiber, CellInv
<1> QED
  BY <1>2, <1>3, <1>4, <1>5, ThreadKeeps

LEMMA ThreadEnterThread ==
  ASSUME SwitchInv, NEW w, EntersThread(w)
  PROVE  ThreadInv'
<1> USE DEF SwitchInv, TypeOK
<1>1. w \in Threads /\ call[w] = NoCall /\ ~done[w] /\ w # Main
  BY DEF EntersThread, Enters
<1>2. PICK r \in Calls : r.by = running /\ call' = [call EXCEPT ![w] = r]
  BY DEF EntersThread, Enters
<1>3. r # NoCall
  BY <1>2, MadeCall
<1>4. running' = w /\ done' = done /\ curFiber' = curFiber
  BY DEF EntersThread, Enters
<1>5. ~Active(w)
  BY <1>1 DEF Active
<1>6. ThreadOf(running) # w /\ ThreadOf(running) \in Threads
  BY <1>1, <1>5, ExecutorShape DEF ThreadInv
<1>7. call'[w] = r /\ \A u \in Threads : u # w => call'[u] = call[u]
  BY <1>1, <1>2, ThreadShape
<1>8. Active(w)' /\ \A u \in Threads : Active(u) => Active(u)'
  BY <1>3, <1>7 DEF Active
<1>9. ThreadOf(running)' = w /\ IdOf(running)' = None
  BY <1>1, <1>4, ThreadShape DEF ThreadOf, IdOf
<1>10. curFiber[w] = None
  BY <1>1, <1>5 DEF ThreadInv
<1>11. \A u \in Threads : ~Active(u)' /\ ~done'[u] => curFiber'[u] = None
  BY <1>4, <1>8 DEF ThreadInv
<1>12. ASSUME NEW u \in Threads, call'[u] # NoCall
       PROVE  /\ ThreadOf(call'[u].by) # w
              /\ curFiber'[ThreadOf(call'[u].by)] = IdOf(call'[u].by)
              /\ Active(ThreadOf(call[u].by))' \/ done'[ThreadOf(call'[u].by)]
  <2>1. CASE u = w
    BY <2>1, <1>2, <1>4, <1>6, <1>7, <1>8 DEF ThreadInv, YieldsItself
  <2>2. CASE u # w
    <3>1. call'[u] = call[u] /\ call[u].by \in Executors
      BY <2>2, <1>7, <1>12, ThreadShape DEF ChainInv
    <3>2. ThreadOf(call[u].by) \in Threads
      BY <3>1, ExecutorShape
    <3> QED
      BY <3>1, <3>2, <1>1, <1>4, <1>5, <1>8, <1>12 DEF ThreadInv
  <2> QED
    BY <2>1, <2>2
<1>13. ASSUME NEW u \in Threads, NEW v \in Threads,
              call'[u] # NoCall, call'[v] # NoCall,
              ThreadOf(call'[u].by) = ThreadOf(call'[v].by)
       PROVE  u = v
  BY <1>2, <1>7, <1>13 DEF ThreadInv
<1> QED
  BY <1>4, <1>8, <1>9, <1>10, <1>11, <1>12, <1>13
     DEF ThreadInv, YieldsItself, ThreadOf, IdOf

LEMMA ThreadLeaveThread ==
  ASSUME SwitchInv, LeavesThread
  PROVE  ThreadInv'
<1> USE DEF SwitchInv, TypeOK
<1> DEFINE w == running
           c == call[running].by
<1>1. /\ w \in Threads /\ call[w] # NoCall /\ w # Main
      /\ running' = c
      /\ call' = [call EXCEPT ![w] = NoCall]
      /\ done' = [done EXCEPT ![w] = TRUE]
      /\ curFiber' = curFiber
  BY DEF LeavesThread, Leaves
<1>2. c \in Executors /\ ThreadOf(c) \in Threads
  BY <1>1, ThreadShape, ExecutorShape DEF ChainInv
<1>3. call'[w] = NoCall /\ done'[w]
  BY <1>1, ThreadShape
<1>4. \A u \in Threads : u # w => call'[u] = call[u] /\ done'[u] = done[u]
  BY <1>1, ThreadShape
<1>5. \A u \in Threads : Active(u) \/ done[u] => Active(u)' \/ done'[u]
  BY <1>3, <1>4 DEF Active
<1>6. curFiber[ThreadOf(c)] = IdOf(c)
  BY <1>1 DEF ThreadInv
<1>7. Active(ThreadOf(running))' \/ done'[ThreadOf(running')]
  <2>1. PICK t \in Threads : t = ThreadOf(c)
    BY <1>2
  <2>2. Active(t) \/ done[t]
    BY <2>1, <1>1 DEF ThreadInv
  <2>3. Active(t)' \/ done'[t]
    BY <2>2, <1>5
  <2>4. ThreadOf(running)' = t
    BY <2>1, <1>1 DEF ThreadOf
  <2> QED
    BY <2>3, <2>4 DEF Active, ThreadOf
<1>8. \A u \in Threads : ~Active(u)' /\ ~done'[u] => curFiber'[u] = None
  BY <1>1, <1>5 DEF ThreadInv
<1>9. ASSUME NEW u \in Threads, call'[u] # NoCall
      PROVE  /\ ThreadOf(call'[u].by) # ThreadOf(c)
             /\ curFiber'[ThreadOf(call'[u].by)] = IdOf(call'[u].by)
             /\ Active(ThreadOf(call[u].by))' \/ done'[ThreadOf(call'[u].by)]
  <2>1. u # w /\ call'[u] = call[u]
    BY <1>3, <1>4, <1>9
  <2>2. call[u].by \in Executors /\ ThreadOf(call[u].by) \in Threads
    BY <2>1, <1>9, ThreadShape, ExecutorShape DEF ChainInv
  <2>3. Active(ThreadOf(call[u].by)) \/ done[ThreadOf(call[u].by)]
    BY <2>1, <1>9 DEF ThreadInv
  <2>4. Active(ThreadOf(call[u].by))' \/ done'[ThreadOf(call[u].by)]
    BY <2>1, <2>2, <2>3, <1>5 DEF ThreadOf, Active
  <2> QED
    BY <2>1, <2>4, <1>1, <1>9 DEF ThreadInv
<1>10. ASSUME NEW u \in Threads, NEW v \in Threads,
              call'[u] # NoCall, call'[v] # NoCall,
              ThreadOf(call'[u].by) = ThreadOf(call'[v].by)
       PROVE  u = v
  BY <1>3, <1>4, <1>10 DEF ThreadInv
<1>11. ThreadOf(running)' = ThreadOf(c) /\ IdOf(running)' = IdOf(c)
  BY <1>1 DEF ThreadOf, IdOf
<1>12. YieldsItself'
  BY <1>1, <1>6, <1>11 DEF YieldsItself
<1> QED
  BY <1>7, <1>8, <1>9, <1>10, <1>11, <1>12 DEF ThreadInv, ThreadOf, IdOf

LEMMA ThreadStay ==
  ASSUME ThreadInv, Stays
  PROVE  ThreadInv'
  BY DEF Stays, ThreadInv, YieldsItself, Active, ThreadOf, IdOf

-----------------------------------------------------------------------------
(* Types.                                                                    *)

LEMMA TypeInit == Init => TypeOK
<1> SUFFICES ASSUME Init PROVE TypeOK
  OBVIOUS
<1>1. \A x \in Executors \cup {None} : Fresh(x) \in Registers
  BY DEF Fresh, Registers
<1>2. NoCall \in Calls
  BY <1>1 DEF NoCall, Calls
<1>3. running \in Executors /\ regs \in Registers
  BY <1>1, FibersAssumption, ThreadShape DEF Init
<1>4. count \in [Threads -> 0..MaxFibers]
  BY FibersAssumption DEF Init
<1>5. \A f \in Fibers : coro[f] # "none" <=> Exists(f)
  BY FiberShape DEF Init, Exists, Ids
<1>6. /\ coro \in [Fibers -> {"none", "home", "out"}]
      /\ done \in [Executors -> BOOLEAN]
      /\ ctx \in [Fibers -> Registers]
      /\ curFiber \in [Threads -> Ids \cup {None}]
      /\ call \in [Executors -> Calls]
      /\ raising \in [Executors -> Raisable \cup {None}]
      /\ panicked \in BOOLEAN
  BY <1>1, <1>2 DEF Init
<1> QED
  BY <1>3, <1>4, <1>5, <1>6 DEF TypeOK

LEMMA TypeNewFiber ==
  ASSUME SwitchInv, NEW x \in Executors, NewFiber(x)
  PROVE  TypeOK'
<1> USE DEF SwitchInv, TypeOK
<1> DEFINE t == ThreadOf(x)
           f == <<t, count[t]>>
<1>1. t \in Threads
  BY ExecutorShape
<1>2. count[t] \in Ids /\ count[t] + 1 \in 0..MaxFibers
  BY <1>1, FibersAssumption DEF NewFiber, Ids
<1>3. f \in Fibers
  BY <1>1, <1>2 DEF Fibers
<1>4. count' = [count EXCEPT ![t] = @ + 1] /\ coro' = [coro EXCEPT ![f] = "home"]
  BY DEF NewFiber
<1>5. count' \in [Threads -> 0..MaxFibers]
  BY <1>1, <1>2, <1>4
<1>6. ASSUME NEW h \in Fibers
      PROVE  coro'[h] # "none" <=> Exists(h)'
  <2>1. h = <<h[1], h[2]>> /\ h[1] \in Threads /\ h[2] \in Nat
    BY FiberShape DEF Ids
  <2>2. coro[h] # "none" <=> h[2] < count[h[1]]
    BY DEF Exists
  <2>3. CASE h[1] = t
    <3>1. count'[h[1]] = count[t] + 1
      BY <1>1, <1>4, <2>3
    <3>2. h = f <=> h[2] = count[t]
      BY <2>1, <2>3
    <3>3. h[2] < count[t] + 1 <=> h[2] < count[t] \/ h[2] = count[t]
      BY <1>1, <2>1
    <3> QED
      BY <2>2, <2>3, <3>1, <3>2, <3>3, <1>3, <1>4 DEF Exists
  <2>4. CASE h[1] # t
    BY <2>1, <2>2, <2>4, <1>4 DEF Exists
  <2> QED
    BY <2>3, <2>4
<1>7. Fresh(f) \in Registers
  BY <1>3, FiberShape DEF Fresh, Registers
<1>8. ctx' \in [Fibers -> Registers] /\ coro' \in [Fibers -> {"none", "home", "out"}]
  BY <1>3, <1>7 DEF NewFiber
<1> QED
  BY <1>5, <1>6, <1>8 DEF NewFiber

LEMMA TypePending ==
  ASSUME SwitchInv, NEW x \in Executors, NEW e \in Raisable \cup {None},
         SetPending(x, e)
  PROVE  regs' \in Registers /\ raising' \in [Executors -> Raisable \cup {None}]
  BY DEF SwitchInv, TypeOK, SetPending, Registers

LEMMA TypeExceptions ==
  ASSUME SwitchInv, NEW x \in Executors,
         \/ YieldFails(x) \/ Raise(x) \/ Rescue(x)
         \/ \E o \in Fibers : ResumeFails(x, o) \/ ResumePanics(x, o)
  PROVE  TypeOK'
<1>1. CASE YieldFails(x) \/ \E o \in Fibers : ResumeFails(x, o)
  <2>1. RaiseFiberError(x)
    BY <1>1 DEF YieldFails, ResumeFails
  <2>2. regs' \in Registers /\ raising' \in [Executors -> Raisable \cup {None}]
    BY <2>1, TypePending DEF RaiseFiberError, Raisable
  <2> QED
    BY <2>1, <2>2 DEF RaiseFiberError, SwitchInv, TypeOK, Exists
<1>2. CASE Raise(x)
  <2>1. regs' \in Registers /\ raising' \in [Executors -> Raisable \cup {None}]
    BY <1>2, TypePending DEF Raise, Raisable
  <2> QED
    BY <1>2, <2>1 DEF Raise, SwitchInv, TypeOK, Exists
<1>3. CASE Rescue(x)
  <2>1. regs' \in Registers /\ raising' \in [Executors -> Raisable \cup {None}]
    BY <1>3, TypePending DEF Rescue
  <2> QED
    BY <1>3, <2>1 DEF Rescue, SwitchInv, TypeOK, Exists
<1>4. CASE \E o \in Fibers : ResumePanics(x, o)
  BY <1>4 DEF ResumePanics, SwitchInv, TypeOK, Exists
<1> QED
  BY <1>1, <1>2, <1>3, <1>4

LEMMA TypeEnterFiber ==
  ASSUME SwitchInv, NEW g, EntersFiber(g)
  PROVE  TypeOK'
<1> USE DEF SwitchInv, TypeOK
<1>1. g \in Fibers /\ ThreadOf(running) \in Threads
  BY ExecutorShape DEF EntersFiber
<1>2. call' \in [Executors -> Calls] /\ running' \in Executors
  BY DEF EntersFiber, Enters
<1>3. curFiber' \in [Threads -> Ids \cup {None}]
  BY <1>1, FiberShape DEF EntersFiber
<1>4. regs' \in Registers /\ ctx' \in [Fibers -> Registers]
  BY <1>1 DEF EntersFiber, Fresh, Registers
<1>5. /\ coro' \in [Fibers -> {"none", "home", "out"}]
      /\ \A f \in Fibers : coro'[f] # "none" <=> Exists(f)'
  BY <1>1 DEF EntersFiber, Enters, Exists
<1> QED
  BY <1>2, <1>3, <1>4, <1>5 DEF EntersFiber, Enters

LEMMA TypeEnterThread ==
  ASSUME SwitchInv, NEW u, EntersThread(u)
  PROVE  TypeOK'
<1> USE DEF SwitchInv, TypeOK
<1>1. call' \in [Executors -> Calls] /\ running' \in Executors
  BY DEF EntersThread, Enters
<1>2. regs' \in Registers
  BY DEF EntersThread, Enters, Fresh, Registers
<1> QED
  BY <1>1, <1>2 DEF EntersThread, Enters, Exists

\* What the ways to give control back have in common.
LEMMA TypeLeave ==
  ASSUME SwitchInv, Leaves
  PROVE  /\ running' \in Executors
         /\ call' \in [Executors -> Calls]
         /\ done' \in [Executors -> BOOLEAN]
         /\ count' \in [Threads -> 0..MaxFibers]
         /\ call[running] \in Calls
         /\ call[running].by \in Executors
         /\ call[running].ctx \in Registers
         /\ call[running].prev \in Ids \cup {None}
<1>1. call[running].by \in Executors /\ call[running] \in Calls
  BY DEF SwitchInv, TypeOK, ChainInv, Leaves
<1>2. NoCall \in Calls
  BY DEF NoCall, Calls, Fresh, Registers
<1> QED
  BY <1>1, <1>2 DEF SwitchInv, TypeOK, Leaves, Calls

LEMMA TypeLeaveFiber ==
  ASSUME SwitchInv, LeavesFiber, NEW x \in Executors,
         Yield(x) \/ BodyReturns(x) \/ BodyRaises(x)
  PROVE  TypeOK'
<1> USE DEF SwitchInv, TypeOK
<1>1. x = running /\ running \in Fibers
  BY FiberLeaves DEF LeavesFiber
<1>2. Leaves
  BY DEF LeavesFiber
<1>3. /\ coro' \in [Fibers -> {"none", "home", "out"}]
      /\ \A f \in Fibers : coro'[f] # "none" <=> Exists(f)'
  <2>1. count' = count /\ coro' = [coro EXCEPT ![running] = "home"]
    BY DEF LeavesFiber, Leaves
  <2>2. coro[running] = "out"
    BY <1>1, <1>2 DEF CellInv, Leaves
  <2> QED
    BY <1>1, <2>1, <2>2 DEF Exists
<1>4. curFiber' \in [Threads -> Ids \cup {None}]
  BY <1>2, TypeLeave DEF LeavesFiber
<1>5. /\ regs' \in Registers
      /\ ctx' \in [Fibers -> Registers]
      /\ raising' \in [Executors -> Raisable \cup {None}]
  <2>1. CASE Yield(x)
    BY <2>1, <1>1, <1>2, YieldLeaves, TypeLeave
  <2>2. CASE BodyReturns(x)
    BY <2>2, <1>1, <1>2, TypeLeave DEF BodyReturns
  <2>3. CASE BodyRaises(x)
    <3>1. call[x].ctx \in Registers /\ call[x].by \in Executors
      BY <1>1, <1>2, TypeLeave
    <3>2. regs' \in Registers
      BY <2>3, <3>1 DEF BodyRaises, Registers
    <3>3. ctx' \in [Fibers -> Registers]
      BY <2>3 DEF BodyRaises, Registers
    <3>4. raising' \in [Executors -> Raisable \cup {None}]
      BY <2>3, <3>1 DEF BodyRaises
    <3> QED
      BY <3>2, <3>3, <3>4
  <2> QED
    BY <2>1, <2>2, <2>3
<1> QED
  BY <1>2, <1>3, <1>4, <1>5, TypeLeave DEF LeavesFiber

LEMMA TypeLeaveThread ==
  ASSUME SwitchInv, LeavesThread, NEW u \in Executors, ThreadEnds(u)
  PROVE  TypeOK'
<1> USE DEF SwitchInv, TypeOK
<1>1. u = running /\ Leaves
  BY ThreadLeaves DEF LeavesThread
<1>2. call[u].ctx \in Registers /\ call[u].by \in Executors
  BY <1>1, TypeLeave
<1>3. regs' \in Registers
  BY <1>2 DEF ThreadEnds, Registers
<1>4. raising' \in [Executors -> Raisable \cup {None}]
  BY <1>2 DEF ThreadEnds
<1> QED
  BY <1>1, <1>3, <1>4, TypeLeave DEF LeavesThread, Leaves, Exists

-----------------------------------------------------------------------------
(* SwitchInv is inductive.                                                   *)

\* The kinds of step, by what they do to who runs.
LEMMA NextKinds ==
  ASSUME Next
  PROVE  \E x \in Executors :
           \/ NewFiber(x) \/ YieldFails(x) \/ Raise(x) \/ Rescue(x)
           \/ \E o \in Fibers : ResumeFails(x, o) \/ ResumePanics(x, o)
           \/ \E o \in Fibers : Resume(x, o)
           \/ \E u \in Threads : RunThread(x, u)
           \/ Yield(x) \/ BodyReturns(x) \/ BodyRaises(x)
           \/ ThreadEnds(x)
  BY DEF Next

LEMMA SwitchQuiet ==
  ASSUME SwitchInv, NEW x \in Executors,
         \/ NewFiber(x) \/ YieldFails(x) \/ Raise(x) \/ Rescue(x)
         \/ \E o \in Fibers : ResumeFails(x, o) \/ ResumePanics(x, o)
  PROVE  SwitchInv'
<1>1. Stays
  BY DEF NewFiber, YieldFails, Raise, Rescue, ResumeFails, ResumePanics,
         RaiseFiberError, Stays
<1>2. ChainInv' /\ ThreadInv'
  BY <1>1, ChainStay, ThreadStay DEF SwitchInv
<1>3. TypeOK'
  BY TypeNewFiber, TypeExceptions
<1>4. \A f \in Fibers : /\ coro'[f] = "out" <=> coro[f] = "out"
                        /\ coro'[f] = "none" => coro[f] = "none"
  <2>1. CASE NewFiber(x)
    <3> DEFINE f == <<ThreadOf(x), count[ThreadOf(x)]>>
    <3>1. ~Exists(f)
      BY <2>1, ExecutorShape DEF SwitchInv, TypeOK, Exists
    <3> QED
      BY <2>1, <3>1 DEF NewFiber, SwitchInv, TypeOK
  <2>2. CASE ~NewFiber(x)
    BY <2>2 DEF YieldFails, Raise, Rescue, ResumeFails, ResumePanics,
                RaiseFiberError
  <2> QED
    BY <2>1, <2>2
<1>5. CellInv'
  BY <1>1, <1>4, CellOther DEF Stays, Active
<1> QED
  BY <1>2, <1>3, <1>5 DEF SwitchInv

LEMMA SwitchInit == Init => SwitchInv
  BY TypeInit, ChainInit, CellInit, ThreadInit DEF SwitchInv

LEMMA SwitchStep ==
  ASSUME SwitchInv, [Next]_vars
  PROVE  SwitchInv'
<1>1. CASE UNCHANGED vars
  BY <1>1 DEF vars, SwitchInv, TypeOK, ChainInv, CellInv, ThreadInv, YieldsItself,
              Active, ThreadOf, IdOf, Exists
<1>2. ASSUME NEW x \in Executors, NEW o \in Fibers, Resume(x, o)
      PROVE  SwitchInv'
  BY <1>2, ResumeEnters, TypeEnterFiber, ChainEnter, CellEnterFiber,
     ThreadEnterFiber DEF EntersFiber, SwitchInv
<1>3. ASSUME NEW x \in Executors, NEW u \in Threads, RunThread(x, u)
      PROVE  SwitchInv'
  BY <1>3, RunThreadEnters, TypeEnterThread, ChainEnter, CellEnterThread,
     ThreadEnterThread DEF EntersThread, SwitchInv
<1>4. ASSUME NEW x \in Executors, Yield(x) \/ BodyReturns(x) \/ BodyRaises(x)
      PROVE  SwitchInv'
  BY <1>4, FiberLeaves, TypeLeaveFiber, ChainLeave, CellLeaveFiber,
     ThreadLeaveFiber DEF LeavesFiber, SwitchInv
<1>5. ASSUME NEW x \in Executors, ThreadEnds(x)
      PROVE  SwitchInv'
  BY <1>5, ThreadLeaves, TypeLeaveThread, ChainLeave, CellLeaveThread,
     ThreadLeaveThread DEF LeavesThread, SwitchInv
<1> QED
  BY <1>1, <1>2, <1>3, <1>4, <1>5, SwitchQuiet, NextKinds

LEMMA SwitchInvariant == Spec => []SwitchInv
  BY SwitchInit, SwitchStep, PTL DEF Spec

\* Types, and that a cell is there exactly below the length of its table.
THEOREM TypeCorrect == Spec => []TypeOK
<1>1. SwitchInv => TypeOK
  BY DEF SwitchInv
<1> QED
  BY <1>1, SwitchInvariant, PTL

\* Fiber.yield suspends the code that calls it: CUR_FIBER is the running fiber,
\* however fibers and threads are nested.
THEOREM YieldSuspendsCaller == Spec => []YieldsItself
<1>1. SwitchInv => YieldsItself
  BY DEF SwitchInv, ThreadInv
<1> QED
  BY <1>1, SwitchInvariant, PTL

-----------------------------------------------------------------------------
(* Whose registers.                                                          *)

LEMMA OwnInit == Init => OwnContext
<1> SUFFICES ASSUME Init PROVE OwnContext
  OBVIOUS
<1>1. \A f \in Fibers : coro[f] = "none"
  BY DEF Init
<1>2. \A x \in Executors : call[x] = NoCall
  BY DEF Init
<1>3. regs.owner = running
  BY DEF Init, Fresh
<1> QED
  BY <1>1, <1>2, <1>3 DEF OwnContext

LEMMA OwnEnterFiber ==
  ASSUME SwitchInv, OwnContext, NEW g, EntersFiber(g)
  PROVE  OwnContext'
<1> USE DEF SwitchInv, TypeOK
<1>1. g \in Fibers /\ coro[g] = "home" /\ g \in Executors
  BY DEF EntersFiber, Enters
<1>2. PICK r \in Calls : /\ r.by = running /\ r.ctx = regs
                         /\ call' = [call EXCEPT ![g] = r]
  BY DEF EntersFiber, Enters
<1>3. regs'.owner = running'
  BY <1>1 DEF EntersFiber, Enters, OwnContext
<1>4. \A f \in Fibers : coro'[f] = "home" => ctx'[f].owner = f
  BY <1>1 DEF EntersFiber, OwnContext
<1>5. \A x \in Executors : call'[x] # NoCall => call'[x].ctx.owner = call'[x].by
  BY <1>1, <1>2 DEF OwnContext
<1> QED
  BY <1>3, <1>4, <1>5 DEF OwnContext

LEMMA OwnEnterThread ==
  ASSUME SwitchInv, OwnContext, NEW u, EntersThread(u)
  PROVE  OwnContext'
<1> USE DEF SwitchInv, TypeOK
<1>1. PICK r \in Calls : /\ r.by = running /\ r.ctx = regs
                         /\ call' = [call EXCEPT ![u] = r]
  BY DEF EntersThread, Enters
<1>2. \A x \in Executors : call'[x] # NoCall => call'[x].ctx.owner = call'[x].by
  BY <1>1 DEF OwnContext
<1>3. regs'.owner = running'
  BY DEF EntersThread, Enters, Fresh
<1> QED
  BY <1>2, <1>3 DEF EntersThread, OwnContext

LEMMA OwnLeaveFiber ==
  ASSUME SwitchInv, OwnContext, NEW x \in Executors,
         Yield(x) \/ BodyReturns(x) \/ BodyRaises(x)
  PROVE  OwnContext'
<1> USE DEF SwitchInv, TypeOK
<1>1. LeavesFiber /\ x = running /\ x \in Fibers /\ call[x] # NoCall
  BY FiberLeaves DEF LeavesFiber, Leaves
<1>2. \A y \in Executors : call'[y] # NoCall => call'[y].ctx.owner = call'[y].by
  BY <1>1 DEF LeavesFiber, Leaves, OwnContext
<1>3. call[x].ctx \in Registers /\ call[x].ctx.owner = call[x].by
  BY <1>1, TypeLeave DEF LeavesFiber, OwnContext
<1>4. regs'.owner = call[x].by
  <2>1. CASE Yield(x)
    BY <2>1, <1>3, YieldLeaves
  <2>2. CASE BodyReturns(x)
    BY <2>2, <1>3 DEF BodyReturns
  <2>3. CASE BodyRaises(x)
    BY <2>3, <1>3 DEF BodyRaises, Registers
  <2> QED
    BY <2>1, <2>2, <2>3
<1>5. /\ ctx'[x].owner = x
      /\ \A f \in Fibers : f # x => ctx'[f] = ctx[f]
  <2>1. CASE Yield(x)
    BY <2>1, <1>1, YieldLeaves DEF OwnContext
  <2>2. CASE BodyReturns(x)
    BY <2>2, <1>1 DEF BodyReturns, OwnContext
  <2>3. CASE BodyRaises(x)
    BY <2>3, <1>1 DEF BodyRaises, OwnContext, Registers
  <2> QED
    BY <2>1, <2>2, <2>3
<1>6. \A f \in Fibers : f # x => coro'[f] = coro[f]
  BY <1>1 DEF LeavesFiber
<1>7. \A f \in Fibers : coro'[f] = "home" => ctx'[f].owner = f
  BY <1>5, <1>6 DEF OwnContext
<1>8. running' = call[x].by
  BY <1>1 DEF LeavesFiber, Leaves
<1> QED
  BY <1>2, <1>4, <1>7, <1>8 DEF OwnContext

LEMMA OwnLeaveThread ==
  ASSUME SwitchInv, OwnContext, NEW u \in Executors, ThreadEnds(u)
  PROVE  OwnContext'
<1> USE DEF SwitchInv, TypeOK
<1>1. LeavesThread /\ u = running /\ call[u] # NoCall
  BY ThreadLeaves DEF LeavesThread, Leaves
<1>2. call[u].ctx \in Registers /\ call[u].ctx.owner = call[u].by
  BY <1>1, TypeLeave DEF LeavesThread, OwnContext
<1>3. regs'.owner = call[u].by
  BY <1>2 DEF ThreadEnds, Registers
<1>4. \A y \in Executors : call'[y] # NoCall => call'[y].ctx.owner = call'[y].by
  BY <1>1 DEF LeavesThread, Leaves, OwnContext
<1> QED
  BY <1>1, <1>3, <1>4 DEF LeavesThread, Leaves, OwnContext

LEMMA OwnQuiet ==
  ASSUME SwitchInv, OwnContext, NEW x \in Executors,
         \/ NewFiber(x) \/ YieldFails(x) \/ Raise(x) \/ Rescue(x)
         \/ \E o \in Fibers : ResumeFails(x, o) \/ ResumePanics(x, o)
  PROVE  OwnContext'
<1> USE DEF SwitchInv, TypeOK
<1>1. CASE NewFiber(x)
  BY <1>1 DEF NewFiber, Fresh, OwnContext
<1>2. CASE ~NewFiber(x)
  <2>1. UNCHANGED <<running, coro, ctx, call>>
    BY <1>2 DEF YieldFails, Raise, Rescue, ResumeFails, ResumePanics,
                RaiseFiberError
  <2>2. regs'.owner = regs.owner
    BY <1>2 DEF YieldFails, Raise, Rescue, ResumeFails, ResumePanics,
                RaiseFiberError, SetPending, Registers
  <2> QED
    BY <2>1, <2>2 DEF OwnContext
<1> QED
  BY <1>1, <1>2

LEMMA OwnStep ==
  ASSUME SwitchInv, OwnContext, [Next]_vars
  PROVE  OwnContext'
<1>1. CASE UNCHANGED vars
  BY <1>1 DEF vars, OwnContext
<1> QED
  BY <1>1, NextKinds, ResumeEnters, RunThreadEnters, OwnEnterFiber,
     OwnEnterThread, OwnLeaveFiber, OwnLeaveThread, OwnQuiet

\* Fibers are isolated: the registers in the host are always those of the code
\* that runs, and a suspended or waiting executor finds its own again.
THEOREM RegistersAreOwn == Spec => []OwnContext
  BY SwitchInvariant, OwnInit, OwnStep, PTL DEF Spec

-----------------------------------------------------------------------------
(* Exceptions.                                                               *)

\* What has not begun raises nothing.
UnbornInv ==
  /\ \A f \in Fibers : coro[f] = "none" => raising[f] = None
  /\ \A u \in Threads : ~Active(u) /\ ~done[u] => raising[u] = None

RaiseInv == ExceptionTravels /\ UnbornInv

LEMMA RaiseInit == Init => RaiseInv
<1> SUFFICES ASSUME Init PROVE RaiseInv
  OBVIOUS
<1>1. \A x \in Executors : raising[x] = None /\ call[x] = NoCall
  BY DEF Init
<1>2. regs.exc = raising[running]
  BY <1>1, FibersAssumption, ThreadShape DEF Init, Fresh
<1>3. \A f \in Fibers : coro[f] = "none"
  BY DEF Init
<1> QED
  BY <1>1, <1>2, <1>3, FiberShape, ThreadShape
     DEF RaiseInv, ExceptionTravels, UnbornInv

LEMMA RaiseEnterFiber ==
  ASSUME SwitchInv, RaiseInv, NEW g, EntersFiber(g)
  PROVE  RaiseInv'
<1> USE DEF SwitchInv, TypeOK, RaiseInv
<1>1. g \in Fibers /\ coro[g] = "home" /\ g \in Executors
  BY DEF EntersFiber, Enters
<1>2. PICK r \in Calls : /\ r.by = running /\ r.ctx = regs
                         /\ call' = [call EXCEPT ![g] = r]
  BY DEF EntersFiber, Enters
<1>3. raising' = raising /\ running' = g /\ done' = done
  BY DEF EntersFiber, Enters
<1>4. regs'.exc = raising'[running']
  BY <1>1, <1>3 DEF EntersFiber, ExceptionTravels
<1>5. \A f \in Fibers : coro'[f] = "home" => ctx'[f].exc = raising'[f]
  BY <1>1, <1>3 DEF EntersFiber, ExceptionTravels
<1>6. \A x \in Executors : call'[x] # NoCall => call'[x].ctx.exc = raising'[call'[x].by]
  BY <1>1, <1>2, <1>3 DEF ExceptionTravels
<1>7. \A f \in Fibers : coro'[f] = "none" => raising'[f] = None
  BY <1>3 DEF EntersFiber, UnbornInv
<1>8. \A u \in Threads : ~Active(u)' /\ ~done'[u] => raising'[u] = None
  BY <1>1, <1>2, <1>3, ThreadShape DEF UnbornInv, Active
<1> QED
  BY <1>4, <1>5, <1>6, <1>7, <1>8 DEF ExceptionTravels, UnbornInv

LEMMA RaiseEnterThread ==
  ASSUME SwitchInv, RaiseInv, NEW u, EntersThread(u)
  PROVE  RaiseInv'
<1> USE DEF SwitchInv, TypeOK, RaiseInv
<1>1. u \in Threads /\ u \in Executors /\ ~Active(u) /\ ~done[u]
  BY DEF EntersThread, Enters, Active
<1>2. PICK r \in Calls : /\ r.by = running /\ r.ctx = regs
                         /\ call' = [call EXCEPT ![u] = r]
  BY DEF EntersThread, Enters
<1>3. /\ raising' = raising /\ running' = u /\ done' = done
      /\ coro' = coro /\ ctx' = ctx /\ regs' = Fresh(u)
  BY DEF EntersThread, Enters
<1>4. regs'.exc = raising'[running']
  BY <1>1, <1>3 DEF Fresh, UnbornInv
<1>5. \A x \in Executors : call'[x] # NoCall => call'[x].ctx.exc = raising'[call'[x].by]
  BY <1>1, <1>2, <1>3 DEF ExceptionTravels
<1>6. r # NoCall
  BY <1>2, MadeCall
<1>7. \A v \in Threads : ~Active(v)' /\ ~done'[v] => raising'[v] = None
  BY <1>1, <1>2, <1>3, <1>6, ThreadShape DEF UnbornInv, Active
<1> QED
  BY <1>3, <1>4, <1>5, <1>7 DEF ExceptionTravels, UnbornInv

\* The error of the executor that leaves goes to the caller, or it has none.
HandsOver ==
  LET c == call[running].by
  IN  \/ raising' = raising /\ regs'.exc = call[running].ctx.exc
      \/ /\ raising' = [raising EXCEPT ![running] = None, ![c] = raising[running]]
         /\ regs'.exc = regs.exc

LEMMA RaiseLeave ==
  ASSUME SwitchInv, RaiseInv, Leaves, HandsOver,
         \A f \in Fibers : coro'[f] = "home" =>
           \/ f = running /\ ctx'[f].exc = raising'[f]
           \/ f # running /\ coro[f] = "home" /\ ctx'[f] = ctx[f],
         \A f \in Fibers : coro'[f] = "none" => coro[f] = "none",
         running \in Threads => done'[running]
  PROVE  RaiseInv'
<1> USE DEF SwitchInv, TypeOK, RaiseInv
<1> DEFINE c == call[running].by
<1>1. /\ running # Main /\ call[running] # NoCall
      /\ running' = c
      /\ call' = [call EXCEPT ![running] = NoCall]
  BY DEF Leaves
<1>2. c \in Executors /\ Active(c) /\ c # running
  BY <1>1 DEF ChainInv
<1>3. /\ raising'[c] = regs'.exc
      /\ \A x \in Executors : x # c /\ x # running => raising'[x] = raising[x]
  BY <1>1, <1>2 DEF HandsOver, ExceptionTravels
<1>4. \A f \in Fibers : f \in Executors /\ (coro[f] = "home" => f # c)
  BY <1>2, FiberShape DEF CellInv, Active
<1>5. \A f \in Fibers : coro'[f] = "home" => ctx'[f].exc = raising'[f]
  BY <1>3, <1>4 DEF ExceptionTravels
<1>6. ASSUME NEW x \in Executors, call'[x] # NoCall
      PROVE  call'[x].ctx.exc = raising'[call'[x].by]
  <2>1. x # running /\ call'[x] = call[x]
    BY <1>1, <1>6
  <2>2. call[x].by \in Executors /\ call[x].by # running /\ call[x].by # c
    BY <2>1, <1>1, <1>6 DEF ChainInv
  <2> QED
    BY <2>1, <2>2, <1>3, <1>6 DEF ExceptionTravels
<1>7. ASSUME NEW f \in Fibers, coro'[f] = "none"
      PROVE  raising'[f] = None
  <2>1. coro[f] = "none" /\ f # running /\ f # c
    BY <1>1, <1>2, <1>7, FiberShape DEF CellInv, Active
  <2> QED
    BY <2>1, <1>3, <1>4 DEF UnbornInv
<1>8. ASSUME NEW u \in Threads, ~Active(u)', ~done'[u]
      PROVE  raising'[u] = None
  <2>1. u # running /\ u \in Executors
    BY <1>8, ThreadShape
  <2>2. call'[u] = call[u] /\ done'[u] = done[u]
    BY <2>1 DEF Leaves
  <2>3. ~Active(u) /\ u # c
    BY <2>2, <1>2, <1>8 DEF Active
  <2> QED
    BY <2>1, <2>2, <2>3, <1>3, <1>8 DEF UnbornInv
<1> QED
  BY <1>1, <1>3, <1>5, <1>6, <1>7, <1>8 DEF ExceptionTravels, UnbornInv

LEMMA RaiseLeaveFiber ==
  ASSUME SwitchInv, RaiseInv, NEW x \in Executors,
         Yield(x) \/ BodyReturns(x) \/ BodyRaises(x)
  PROVE  RaiseInv'
<1> USE DEF SwitchInv, TypeOK, RaiseInv
<1>1. LeavesFiber /\ Leaves /\ x = running /\ x \in Fibers /\ x \notin Threads
  BY FiberLeaves, FiberShape DEF LeavesFiber
<1>2. /\ call[x].ctx \in Registers
      /\ call[x].by \in Executors /\ call[x].by # x
  BY <1>1, TypeLeave DEF Leaves, ChainInv
<1>3. regs.exc = raising[x]
  BY <1>1 DEF ExceptionTravels
<1>4. HandsOver /\ ctx'[x].exc = raising'[x]
  <2>1. CASE Yield(x)
    BY <2>1, <1>1, <1>3, YieldLeaves DEF HandsOver
  <2>2. CASE BodyReturns(x)
    BY <2>2, <1>1, <1>3 DEF BodyReturns, HandsOver
  <2>3. CASE BodyRaises(x)
    <3>1. regs.exc # None
      BY <2>3, <1>3 DEF BodyRaises
    <3>2. regs'.exc = regs.exc
      BY <2>3, <3>1, <1>2 DEF BodyRaises, Registers
    <3>3. ctx'[x].exc = None /\ raising'[x] = None
      BY <2>3, <1>1, <1>2 DEF BodyRaises, Registers
    <3> QED
      BY <2>3, <3>2, <3>3, <1>1 DEF BodyRaises, HandsOver
  <2> QED
    BY <2>1, <2>2, <2>3
<1>5. \A f \in Fibers : f # x => ctx'[f] = ctx[f]
  <2>1. CASE Yield(x)
    BY <2>1, <1>1, YieldLeaves
  <2>2. CASE BodyReturns(x) \/ BodyRaises(x)
    BY <2>2, <1>1 DEF BodyReturns, BodyRaises
  <2> QED
    BY <2>1, <2>2
<1>6. \A f \in Fibers : f # x => coro'[f] = coro[f]
  BY <1>1 DEF LeavesFiber
<1>7. coro'[x] = "home"
  BY <1>1 DEF LeavesFiber
<1> QED
  BY <1>1, <1>4, <1>5, <1>6, <1>7, RaiseLeave

LEMMA RaiseLeaveThread ==
  ASSUME SwitchInv, RaiseInv, NEW u \in Executors, ThreadEnds(u)
  PROVE  RaiseInv'
<1> USE DEF SwitchInv, TypeOK, RaiseInv
<1>1. LeavesThread /\ Leaves /\ u = running /\ u \in Threads
  BY ThreadLeaves DEF LeavesThread
<1>2. call[u].ctx \in Registers
  BY <1>1, TypeLeave
<1>3. HandsOver
  BY <1>1, <1>2 DEF ThreadEnds, HandsOver, Registers
<1>4. \A f \in Fibers : f # u
  BY <1>1, ThreadShape
<1>5. coro' = coro /\ ctx' = ctx /\ done'[running]
  BY <1>1 DEF LeavesThread
<1> QED
  BY <1>1, <1>3, <1>4, <1>5, RaiseLeave

LEMMA RaiseQuiet ==
  ASSUME SwitchInv, RaiseInv, NEW x \in Executors,
         \/ NewFiber(x) \/ YieldFails(x) \/ Raise(x) \/ Rescue(x)
         \/ \E o \in Fibers : ResumeFails(x, o) \/ ResumePanics(x, o)
  PROVE  RaiseInv'
<1> USE DEF SwitchInv, TypeOK, RaiseInv
<1>1. CASE NewFiber(x)
  <2> DEFINE f == <<ThreadOf(x), count[ThreadOf(x)]>>
  <2>1. coro' = [coro EXCEPT ![f] = "home"] /\ ctx' = [ctx EXCEPT ![f] = Fresh(f)]
    BY <1>1 DEF NewFiber
  <2>2. UNCHANGED <<running, regs, call, done, raising>>
    BY <1>1 DEF NewFiber
  <2>3. ~Exists(f)
    BY ExecutorShape DEF Exists
  <2>4. f \in Fibers => raising[f] = None
    BY <2>3 DEF UnbornInv
  <2>5. \A h \in Fibers : coro'[h] = "home" => ctx'[h].exc = raising'[h]
    BY <2>1, <2>2, <2>4 DEF ExceptionTravels, Fresh
  <2>6. \A h \in Fibers : coro'[h] = "none" => coro[h] = "none"
    BY <2>1
  <2> QED
    BY <2>2, <2>5, <2>6 DEF ExceptionTravels, UnbornInv, Active
<1>2. CASE \E o \in Fibers : ResumePanics(x, o)
  BY <1>2 DEF ResumePanics, ExceptionTravels, UnbornInv, Active
<1>3. ASSUME NEW e, SetPending(x, e), x = running,
             UNCHANGED <<running, coro, done, ctx, call>>
      PROVE  RaiseInv'
  <2>1. regs'.exc = e /\ raising'[x] = e
    BY <1>3 DEF SetPending, Registers
  <2>2. \A y \in Executors : y # x => raising'[y] = raising[y]
    BY <1>3 DEF SetPending
  <2>3. \A f \in Fibers : f \in Executors /\ (coro[f] # "out" => f # x)
    BY <1>3, FiberShape DEF ChainInv, CellInv, Active
  <2>4. \A y \in Executors : call[y] # NoCall => call[y].by # x /\ call[y].by \in Executors
    BY <1>3 DEF ChainInv
  <2>5. \A u \in Threads : u \in Executors /\ (~Active(u) => u # x)
    BY <1>3, ThreadShape DEF ChainInv
  <2>6. regs'.exc = raising'[running']
    BY <1>3, <2>1
  <2>7. ASSUME NEW f \in Fibers, coro'[f] = "home"
        PROVE  ctx'[f].exc = raising'[f]
    <3>1. coro[f] = "home" /\ ctx'[f] = ctx[f]
      BY <1>3, <2>7
    <3>2. raising'[f] = raising[f]
      BY <2>2, <2>3, <3>1
    <3> QED
      BY <3>1, <3>2 DEF ExceptionTravels
  <2>8. \A y \in Executors : call'[y] # NoCall => call'[y].ctx.exc = raising'[call'[y].by]
    BY <1>3, <2>2, <2>4 DEF ExceptionTravels
  <2>9. ASSUME NEW f \in Fibers, coro'[f] = "none"
        PROVE  raising'[f] = None
    <3>1. coro[f] = "none"
      BY <1>3, <2>9
    <3>2. raising'[f] = raising[f]
      BY <2>2, <2>3, <3>1
    <3> QED
      BY <3>1, <3>2 DEF UnbornInv
  <2>10. \A u \in Threads : ~Active(u)' /\ ~done'[u] => raising'[u] = None
    BY <1>3, <2>2, <2>5 DEF UnbornInv, Active
  <2> QED
    BY <2>6, <2>7, <2>8, <2>9, <2>10 DEF ExceptionTravels, UnbornInv
<1>4. CASE Raise(x)
  BY <1>4, <1>3 DEF Raise, Runs
<1>5. CASE Rescue(x)
  BY <1>5, <1>3 DEF Rescue, Runs
<1>6. CASE YieldFails(x) \/ \E o \in Fibers : ResumeFails(x, o)
  BY <1>6, <1>3 DEF YieldFails, ResumeFails, RaiseFiberError, Runs
<1> QED
  BY <1>1, <1>2, <1>4, <1>5, <1>6

LEMMA RaiseStep ==
  ASSUME SwitchInv, RaiseInv, [Next]_vars
  PROVE  RaiseInv'
<1>1. CASE UNCHANGED vars
  BY <1>1 DEF vars, RaiseInv, ExceptionTravels, UnbornInv, Active
<1> QED
  BY <1>1, NextKinds, ResumeEnters, RunThreadEnters, RaiseEnterFiber,
     RaiseEnterThread, RaiseLeaveFiber, RaiseLeaveThread, RaiseQuiet

\* An exception keeps its object across every switch, and nobody gets another's.
THEOREM ExceptionsTravel == Spec => []ExceptionTravels
<1>1. Init => RaiseInv
  BY RaiseInit
<1>2. RaiseInv => ExceptionTravels
  BY DEF RaiseInv
<1> QED
  BY <1>1, <1>2, SwitchInvariant, RaiseStep, PTL DEF Spec

-----------------------------------------------------------------------------
(* The refinement.                                                           *)

\* An executor that a step leaves alone keeps its status.
LEMMA StatusKept ==
  ASSUME NEW x \in Executors,
         call'[x] = call[x], done'[x] = done[x],
         x \in Fibers => (Exists(x)' <=> Exists(x))
  PROVE  Status(x)' = Status(x)
  BY DEF Status, Active

LEMMA RefinesInit == Init => C!Init
<1> SUFFICES ASSUME Init PROVE C!Init
  OBVIOUS
<1>1. \A x \in Executors : call[x] = NoCall /\ ~done[x]
  BY DEF Init
<1>2. \A x \in Executors : /\ Status(x) \in {"absent", "suspended", "active"}
                           /\ Status(x) = "active" <=> x = Main
  BY <1>1 DEF Status, Active
<1>3. [x \in Executors |-> call[x].by] = [x \in Executors |-> None]
  BY <1>1 DEF NoCall
<1>4. running = Main
  BY DEF Init
<1> DEFINE st == [x \in Executors |-> Status(x)]
<1>5. /\ st \in [Executors -> {"absent", "suspended", "active"}]
      /\ \A x \in Executors : st[x] = "active" <=> x = Main
  BY <1>2
<1> QED
  BY <1>3, <1>4, <1>5 DEF C!Init

LEMMA RefinesEnter ==
  ASSUME SwitchInv, NEW g, Enters(g), g \in Fibers => Exists(g)
  PROVE  C!Enter(g)
<1> USE DEF SwitchInv, TypeOK
<1> DEFINE st == [x \in Executors |-> Status(x)]
<1>1. g \in Executors /\ g # Main /\ call[g] = NoCall /\ ~done[g]
  BY DEF Enters
<1>2. PICK r \in Calls : r.by = running /\ call' = [call EXCEPT ![g] = r]
  BY DEF Enters
<1>3. st[g] = "suspended"
  BY <1>1 DEF Status, Active
<1>4. Status(g)' = "active"
  BY <1>1, <1>2, MadeCall DEF Status, Active, Enters
<1>5. \A x \in Executors : x # g => Status(x)' = Status(x)
  BY <1>2, StatusKept DEF Enters, Exists
<1>6. st' = [st EXCEPT ![g] = "active"]
  BY <1>1, <1>4, <1>5
<1>7. [x \in Executors |-> call[x].by]' =
        [[x \in Executors |-> call[x].by] EXCEPT ![g] = running]
  BY <1>1, <1>2
<1> QED
  BY <1>3, <1>6, <1>7 DEF C!Enter, Enters

LEMMA RefinesLeave ==
  ASSUME SwitchInv, Leaves
  PROVE  IF done'[running] THEN C!Leave("dead") ELSE C!Leave("suspended")
<1> USE DEF SwitchInv, TypeOK
<1> DEFINE st == [x \in Executors |-> Status(x)]
           s == IF done'[running] THEN "dead" ELSE "suspended"
<1>1. /\ running # Main /\ call[running] # NoCall
      /\ call' = [call EXCEPT ![running] = NoCall]
      /\ count' = count
  BY DEF Leaves
<1>2. ~done[running]
  BY <1>1 DEF ChainInv
<1>3. st[running] = "active"
  BY <1>1, <1>2 DEF Status, Active
<1>4. running \in Fibers => Exists(running)
  BY <1>1 DEF CellInv
<1>5. \A x \in Executors : x # running => Status(x)' = Status(x)
  BY <1>1, StatusKept DEF Leaves, Exists
<1>6. st' = [st EXCEPT ![running] = s]
  <2>1. PICK w \in Executors : w = running
    OBVIOUS
  <2>2. call'[w] = NoCall /\ w # Main /\ (w \in Fibers => Exists(w)')
    BY <2>1, <1>1, <1>4 DEF Exists
  <2>3. Status(w)' = s
    BY <2>1, <2>2 DEF Status, Active
  <2> QED
    BY <2>1, <2>3, <1>5
<1>7. [x \in Executors |-> call[x].by]' =
        [[x \in Executors |-> call[x].by] EXCEPT ![running] = None]
  BY <1>1 DEF NoCall
<1>8. running' = [x \in Executors |-> call[x].by][running]
  BY DEF Leaves
<1> QED
  BY <1>1, <1>3, <1>6, <1>7, <1>8 DEF C!Leave

LEMMA RefinesNewFiber ==
  ASSUME SwitchInv, NEW x \in Executors, NewFiber(x)
  PROVE  \E f \in Executors : C!Create(f)
<1> USE DEF SwitchInv, TypeOK
<1> DEFINE t == ThreadOf(x)
           st == [y \in Executors |-> Status(y)]
<1>1. t \in Threads /\ count[t] \in Ids
  BY ExecutorShape, FibersAssumption DEF NewFiber, Ids
<1>2. PICK f \in Fibers : f = <<t, count[t]>>
  BY <1>1 DEF Fibers
<1>3. /\ count' = [count EXCEPT ![t] = @ + 1]
      /\ UNCHANGED <<running, done, call>>
  BY DEF NewFiber
<1>4. ~Exists(f) /\ Exists(f)'
  BY <1>1, <1>2, <1>3 DEF Exists, Ids
<1>5. f \in Executors /\ ~done[f] /\ ~Active(f)
  <2>1. coro[f] = "none" /\ f # Main /\ f \in Executors
    BY <1>4, FiberShape
  <2> QED
    BY <2>1 DEF CellInv, Active
<1>6. st[f] = "absent" /\ Status(f)' = "suspended"
  <2>1. ~Active(f)' /\ ~done'[f]
    BY <1>3, <1>5 DEF Active
  <2> QED
    BY <2>1, <1>4, <1>5 DEF Status
<1>7. ASSUME NEW y \in Executors, y # f
      PROVE  Status(y)' = Status(y)
  <2>1. y \in Fibers => (Exists(y)' <=> Exists(y))
    <3>1. SUFFICES ASSUME y \in Fibers PROVE Exists(y)' <=> Exists(y)
      OBVIOUS
    <3>2. y = <<y[1], y[2]>> /\ y[1] \in Threads /\ y[2] \in Nat
      BY <3>1, FiberShape DEF Ids
    <3>3. CASE y[1] = t
      <4>1. y[2] # count[t]
        BY <3>2, <3>3, <1>2, <1>7
      <4> QED
        BY <3>2, <3>3, <4>1, <1>1, <1>3 DEF Exists, Ids
    <3>4. CASE y[1] # t
      BY <3>2, <3>4, <1>3 DEF Exists
    <3> QED
      BY <3>3, <3>4
  <2> QED
    BY <2>1, <1>3, StatusKept
<1>8. st' = [st EXCEPT ![f] = "suspended"]
  BY <1>5, <1>6, <1>7
<1>9. [y \in Executors |-> call[y].by]' = [y \in Executors |-> call[y].by]
  BY <1>3
<1> QED
  BY <1>3, <1>5, <1>6, <1>8, <1>9 DEF C!Create

\* Raising and rescuing change nobody's status.
LEMMA RefinesStutter ==
  ASSUME UNCHANGED <<running, count, done, call>>
  PROVE  UNCHANGED C!vars
<1>1. \A x \in Executors : Status(x)' = Status(x)
  BY StatusKept DEF Exists
<1>2. [x \in Executors |-> Status(x)]' = [x \in Executors |-> Status(x)]
  BY <1>1
<1>3. [x \in Executors |-> call[x].by]' = [x \in Executors |-> call[x].by]
  OBVIOUS
<1> QED
  BY <1>2, <1>3 DEF C!vars

LEMMA RefinesStep ==
  ASSUME SwitchInv, [Next]_vars
  PROVE  [C!Next]_(C!vars)
<1>1. CASE UNCHANGED vars
  BY <1>1, RefinesStutter DEF vars
<1>2. ASSUME NEW x \in Executors, NEW o \in Fibers, Resume(x, o)
      PROVE  C!Next
  <2>1. Enters(CellOf(x, o)) /\ CellOf(x, o) \in Executors
    BY <1>2, ResumeEnters DEF EntersFiber, Enters
  <2>2. C!Enter(CellOf(x, o))
    BY <2>1, <1>2, RefinesEnter DEF Resume
  <2> QED
    BY <2>1, <2>2 DEF C!Next
<1>3. ASSUME NEW x \in Executors, NEW u \in Threads, RunThread(x, u)
      PROVE  C!Next
  <2>1. Enters(u) /\ u \in Executors /\ u \notin Fibers
    BY <1>3, RunThreadEnters, ThreadShape DEF EntersThread
  <2>2. C!Enter(u)
    BY <2>1, RefinesEnter
  <2> QED
    BY <2>1, <2>2 DEF C!Next
<1>4. ASSUME NEW x \in Executors,
             Yield(x) \/ BodyReturns(x) \/ BodyRaises(x) \/ ThreadEnds(x)
      PROVE  C!Next
  <2>1. Leaves
    BY <1>4, FiberLeaves, ThreadLeaves DEF LeavesFiber, LeavesThread
  <2> QED
    BY <2>1, RefinesLeave DEF C!Next
<1>5. ASSUME NEW x \in Executors, NewFiber(x)
      PROVE  C!Next
  BY <1>5, RefinesNewFiber DEF C!Next
<1>6. ASSUME NEW x \in Executors,
             \/ YieldFails(x) \/ Raise(x) \/ Rescue(x)
             \/ \E o \in Fibers : ResumeFails(x, o) \/ ResumePanics(x, o)
      PROVE  UNCHANGED C!vars
  <2>1. UNCHANGED <<running, count, done, call>>
    BY <1>6 DEF YieldFails, Raise, Rescue, ResumeFails, ResumePanics,
                RaiseFiberError
  <2> QED
    BY <2>1, RefinesStutter
<1> QED
  BY <1>1, <1>2, <1>3, <1>4, <1>5, <1>6, NextKinds

\* RubyFibers implements Coroutines: only a suspended executor is entered, and
\* control goes back to the one that entered it.
THEOREM CoroutineRefinement == Spec => ImplementsCoroutines
<1>1. Init => C!Init
  BY RefinesInit
<1>2. SwitchInv /\ [Next]_vars => [C!Next]_(C!vars)
  BY RefinesStep
<1> QED
  BY <1>1, <1>2, SwitchInvariant, PTL DEF Spec, ImplementsCoroutines, C!Spec
=============================================================================
