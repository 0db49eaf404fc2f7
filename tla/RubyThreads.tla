---------------------------- MODULE RubyThreads ----------------------------
(***************************************************************************)
(* Ruby threads over the Global VM Lock (src/host.rs).                      *)
(*                                                                         *)
(* One RubyHost sits behind one mutex.  A thread that locked it publishes  *)
(* a raw pointer into it (HOST_PTR) and runs Ruby through that pointer     *)
(* until a blocking call clears the pointer and drops the guard.  The host *)
(* has ONE set of execution registers (frames, scope, signal, pending      *)
(* exception, ...); a thread body swaps a fresh set in when it starts and  *)
(* the set it found out again when it ends.  The outcome of a body is      *)
(* published, without the GVL, in three separate cells that join reads.    *)
(*                                                                         *)
(* What Ruby code does between two of these steps is the environment: a    *)
(* thread at "ruby" may spawn, join, block, sleep, raise or return.  The   *)
(* constants bound which thread may do which.                              *)
(***************************************************************************)
EXTENDS FiniteSets

CONSTANTS
  Threads,    \* the OS threads of one program
  NoThread,   \* "no thread", "no exception", "nothing published"
  Main,       \* the thread that entered eval_str
  MayJoin,    \* <<t, u>>: the program of t may join u
  MayBlock,   \* threads that may block on a queue or a condition variable
  MaySleep    \* threads that may call sleep

ASSUME ThreadsAssumption ==
  /\ NoThread \notin Threads
  /\ Main \in Threads
  /\ MayJoin \subseteq Threads \X (Threads \ {Main})
  /\ MayBlock \subseteq Threads
  /\ MaySleep \subseteq Threads

VARIABLES
  lock,      \* owner of the Mutex<RubyHost>, or NoThread
  ptr,       \* ptr[t]: HOST_PTR of t is non-null
  pc,        \* where each thread is
  resume,    \* where t goes on after gvl_leave or gvl_enter
  host,      \* the execution registers in the host
  saved,     \* saved[t]: the registers t found when its body started
  handle,    \* handle[t]: t has a ThreadCell whose JoinHandle is in place
  out,       \* out[t]: outcome of t's body, still local to its OS thread
  result,    \* result[t]: the ThreadCell's result
  exc,       \* exc[t]: the ThreadCell's exc, the thread that raised it
  done,      \* done[t]: the ThreadCell's done flag
  answer     \* answer[t]: t's last join: of whom, as first joiner, what

registers == <<host, saved>>
cells == <<handle, out, result, exc, done>>
vars == <<lock, ptr, pc, resume, host, saved, handle, out, result, exc, done,
          answer>>

-----------------------------------------------------------------------------
(* Registers (FiberContext): whose they are and the pending exception, named *)
(* by the thread that raised it.                                            *)

MaybeThread == Threads \cup {NoThread}

Context == [owner : MaybeThread, exc : MaybeThread]

Fresh(t) == [owner |-> t, exc |-> NoThread]

NoContext == [owner |-> NoThread, exc |-> NoThread]

(* What a body came to, and what a join answered.                           *)

Results == {"none", "ok", "err"}

Outcome == [res : Results, exc : MaybeThread]

JoinAnswer == [of : MaybeThread, first : BOOLEAN, res : Results,
               exc : MaybeThread]

NoOutcome == [res |-> "none", exc |-> NoThread]

\* t asks for the outcome of u; it has read nothing yet.
Asked(u, first) == [of |-> u, first |-> first, res |-> "none", exc |-> NoThread]

\* Ruby code of t is on the host's registers.
BodyPcs == {"ruby", "raised", "asleep", "readResult", "readExc"}

\* t works on the host through its published pointer.
HostPcs == BodyPcs \cup {"install", "clear"}

GonePcs == {"pubResult", "pubExc", "pubDone", "ended"}

AllPcs == HostPcs \cup GonePcs
            \cup {"unborn", "enter", "publish", "unlock", "osjoin", "parked"}

TypeOK ==
  /\ lock \in MaybeThread
  /\ ptr \in [Threads -> BOOLEAN]
  /\ pc \in [Threads -> AllPcs]
  /\ resume \in [Threads -> AllPcs]
  /\ host \in Context
  /\ saved \in [Threads -> Context]
  /\ handle \in [Threads -> BOOLEAN]
  /\ out \in [Threads -> Outcome]
  /\ result \in [Threads -> Results]
  /\ exc \in [Threads -> MaybeThread]
  /\ done \in [Threads -> BOOLEAN]
  /\ answer \in [Threads -> JoinAnswer]

Init ==
  /\ lock = NoThread
  /\ ptr = [t \in Threads |-> FALSE]
  /\ pc = [t \in Threads |-> IF t = Main THEN "enter" ELSE "unborn"]
  /\ resume = [t \in Threads |-> IF t = Main THEN "ruby" ELSE "unborn"]
  /\ host = Fresh(Main)
  /\ saved = [t \in Threads |-> NoContext]
  /\ handle = [t \in Threads |-> FALSE]
  /\ out = [t \in Threads |-> NoOutcome]
  /\ result = [t \in Threads |-> "none"]
  /\ exc = [t \in Threads |-> NoThread]
  /\ done = [t \in Threads |-> FALSE]
  /\ answer = [t \in Threads |-> Asked(NoThread, FALSE)]

-----------------------------------------------------------------------------
(* Moving the program counter.                                              *)

\* The process is alive: once the main thread has ended, so has it.
Alive == pc[Main] # "ended"

Transition(t, from, to) ==
  /\ Alive
  /\ pc[t] = from
  /\ pc' = [pc EXCEPT ![t] = to]

\* Start gvl_leave; t goes on at `then` once the guard is dropped.
LeaveGvl(t, from, then) ==
  /\ Transition(t, from, "clear")
  /\ resume' = [resume EXCEPT ![t] = then]

\* Start gvl_enter; t goes on at `then` once the pointer is published.
EnterGvl(t, from, then) ==
  /\ Transition(t, from, "enter")
  /\ resume' = [resume EXCEPT ![t] = then]

-----------------------------------------------------------------------------
(* gvl_enter: lock the mutex, then publish the pointer.                      *)

\* Mutant: the lock is tried, not waited for.
TryLockOnly(t) ==
  /\ Transition(t, "enter", "publish")
  /\ lock' \in {lock, t}
  /\ UNCHANGED <<ptr, resume, registers, cells, answer>>

Lock(t) ==
  /\ Transition(t, "enter", "publish")
  /\ lock = NoThread
  /\ lock' = t
  /\ UNCHANGED <<ptr, resume, registers, cells, answer>>

Publish(t) ==
  /\ Transition(t, "publish", resume[t])
  /\ ptr' = [ptr EXCEPT ![t] = TRUE]
  /\ UNCHANGED <<lock, resume, registers, cells, answer>>

(* gvl_leave: clear the pointer, then drop the guard.                        *)

\* Mutant: the guard is dropped before the pointer is cleared.
DropThenClear(t) ==
  /\ Transition(t, "clear", "unlock")
  /\ lock' = NoThread
  /\ UNCHANGED <<ptr, resume, registers, cells, answer>>

Clear(t) ==
  /\ Transition(t, "clear", "unlock")
  /\ ptr' = [ptr EXCEPT ![t] = FALSE]
  /\ UNCHANGED <<lock, resume, registers, cells, answer>>

\* Mutant: the pointer is cleared and the guard is kept.
UnlockNothing(t) ==
  /\ Transition(t, "unlock", resume[t])
  /\ UNCHANGED <<lock, ptr, resume, registers, cells, answer>>

Unlock(t) ==
  /\ Transition(t, "unlock", resume[t])
  /\ lock' = NoThread
  /\ UNCHANGED <<ptr, resume, registers, cells, answer>>

-----------------------------------------------------------------------------
(* spawn_thread and run_thread_body.                                        *)

Spawn(t, u) ==
  /\ Alive
  /\ pc[t] = "ruby"
  /\ pc[u] = "unborn"
  /\ pc' = [pc EXCEPT ![u] = "enter"]
  /\ resume' = [resume EXCEPT ![u] = "install"]
  /\ handle' = [handle EXCEPT ![u] = TRUE]
  /\ UNCHANGED <<lock, ptr, registers, out, result, exc, done, answer>>

\* Mutant: the body runs on the registers it finds.
InstallNothing(t) ==
  /\ Transition(t, "install", "ruby")
  /\ saved' = [saved EXCEPT ![t] = host]
  /\ UNCHANGED <<lock, ptr, resume, host, cells, answer>>

Install(t) ==
  /\ Transition(t, "install", "ruby")
  /\ saved' = [saved EXCEPT ![t] = host]
  /\ host' = Fresh(t)
  /\ UNCHANGED <<lock, ptr, resume, cells, answer>>

\* An exception is raised in t's Ruby code.
Raise(t) ==
  /\ Transition(t, "ruby", "raised")
  /\ host' = [host EXCEPT !.exc = t]
  /\ UNCHANGED <<lock, ptr, resume, saved, cells, answer>>

\* A rescue clause of t takes the pending exception.
Rescue(t) ==
  /\ Transition(t, "raised", "ruby")
  /\ host' = [host EXCEPT !.exc = NoThread]
  /\ UNCHANGED <<lock, ptr, resume, saved, cells, answer>>

\* The body's block returns a value.
BodyReturns(t) ==
  /\ t # Main
  /\ LeaveGvl(t, "ruby", "pubResult")
  /\ out' = [out EXCEPT ![t] = [res |-> "ok", exc |-> NoThread]]
  /\ host' = saved[t]
  /\ UNCHANGED <<lock, ptr, saved, handle, result, exc, done, answer>>

\* Mutant: the spawner's registers are put back before the exception is taken.
BodyFailsLate(t) ==
  /\ t # Main
  /\ LeaveGvl(t, "raised", "pubResult")
  /\ out' = [out EXCEPT ![t] = [res |-> "err", exc |-> saved[t].exc]]
  /\ host' = [saved[t] EXCEPT !.exc = NoThread]
  /\ UNCHANGED <<lock, ptr, saved, handle, result, exc, done, answer>>

\* The body's block raised: its exception is taken off its own registers first.
BodyFails(t) ==
  /\ t # Main
  /\ LeaveGvl(t, "raised", "pubResult")
  /\ out' = [out EXCEPT ![t] = [res |-> "err", exc |-> host.exc]]
  /\ host' = saved[t]
  /\ UNCHANGED <<lock, ptr, saved, handle, result, exc, done, answer>>

\* The OS thread publishes its outcome, without the GVL, cell by cell.
PublishResult(t) ==
  /\ Transition(t, "pubResult", "pubExc")
  /\ result' = [result EXCEPT ![t] = out[t].res]
  /\ UNCHANGED <<lock, ptr, resume, registers, handle, out, exc, done, answer>>

\* Mutant: done is stored before the exception.
PublishDoneEarly(t) ==
  /\ Transition(t, "pubExc", "pubDone")
  /\ done' = [done EXCEPT ![t] = TRUE]
  /\ UNCHANGED <<lock, ptr, resume, registers, handle, out, result, exc, answer>>

PublishExc(t) ==
  /\ Transition(t, "pubExc", "pubDone")
  /\ exc' = [exc EXCEPT ![t] = out[t].exc]
  /\ UNCHANGED <<lock, ptr, resume, registers, handle, out, result, done, answer>>

PublishDone(t) ==
  /\ Transition(t, "pubDone", "ended")
  /\ done' = [done EXCEPT ![t] = TRUE]
  /\ UNCHANGED <<lock, ptr, resume, registers, handle, out, result, exc, answer>>

-----------------------------------------------------------------------------
(* thread_join.                                                             *)

\* The first join of u takes the JoinHandle and waits without the GVL.
JoinFirst(t, u) ==
  /\ <<t, u>> \in MayJoin
  /\ handle[u]
  /\ LeaveGvl(t, "ruby", "osjoin")
  /\ handle' = [handle EXCEPT ![u] = FALSE]
  /\ answer' = [answer EXCEPT ![t] = Asked(u, TRUE)]
  /\ UNCHANGED <<lock, ptr, registers, out, result, exc, done>>

\* A later join finds no handle and goes straight on to read the cells.
JoinLater(t, u) ==
  /\ <<t, u>> \in MayJoin
  /\ pc[u] # "unborn"
  /\ ~handle[u]
  /\ Transition(t, "ruby", "readResult")
  /\ answer' = [answer EXCEPT ![t] = Asked(u, FALSE)]
  /\ UNCHANGED <<lock, ptr, resume, registers, cells>>

\* JoinHandle::join returns once the OS thread has ended.
OsJoin(t) ==
  /\ EnterGvl(t, "osjoin", "readResult")
  /\ pc[answer[t].of] = "ended"
  /\ UNCHANGED <<lock, ptr, registers, cells, answer>>

ReadResult(t) ==
  /\ Transition(t, "readResult", "readExc")
  /\ answer' = [answer EXCEPT ![t].res = result[answer[t].of]]
  /\ UNCHANGED <<lock, ptr, resume, registers, cells>>

\* Read the exception, re-raise it in the joiner, or return the value.
ReadExc(t) ==
  LET e == exc[answer[t].of]
  IN  /\ Transition(t, "readExc",
                    IF answer[t].res = "err" THEN "raised" ELSE "ruby")
      /\ answer' = [answer EXCEPT ![t].exc = e]
      /\ host' = IF e = NoThread THEN host ELSE [host EXCEPT !.exc = e]
      /\ UNCHANGED <<lock, ptr, resume, saved, cells>>

-----------------------------------------------------------------------------
(* Other blocking calls.                                                    *)

\* A queue or a condition variable parks t: gvl_blocking.
Block(t) ==
  /\ t \in MayBlock
  /\ LeaveGvl(t, "ruby", "parked")
  /\ UNCHANGED <<lock, ptr, registers, cells, answer>>

Unpark(t) ==
  /\ EnterGvl(t, "parked", "ruby")
  /\ UNCHANGED <<lock, ptr, registers, cells, answer>>

\* kernel_sleep: the OS thread sleeps where it stands.
Sleep(t) ==
  /\ t \in MaySleep
  /\ Transition(t, "ruby", "asleep")
  /\ UNCHANGED <<lock, ptr, resume, registers, cells, answer>>

Awake(t) ==
  /\ Transition(t, "asleep", "ruby")
  /\ UNCHANGED <<lock, ptr, resume, registers, cells, answer>>

\* The main program ends, by its last statement or by an uncaught exception.
MainEnds ==
  /\ \E from \in {"ruby", "raised"} : LeaveGvl(Main, from, "ended")
  /\ UNCHANGED <<lock, ptr, registers, cells, answer>>

-----------------------------------------------------------------------------
\* Steps the runtime and the OS take, whatever the program does.
RuntimeStep(t) ==
  \/ Lock(t) \/ Publish(t) \/ Clear(t) \/ Unlock(t)
  \/ Install(t)
  \/ PublishResult(t) \/ PublishExc(t) \/ PublishDone(t)
  \/ OsJoin(t) \/ ReadResult(t) \/ ReadExc(t)

\* Steps the Ruby program of t chooses.
ProgramStep(t) ==
  \/ \E u \in Threads : Spawn(t, u) \/ JoinFirst(t, u) \/ JoinLater(t, u)
  \/ Raise(t) \/ Rescue(t)
  \/ BodyReturns(t) \/ BodyFails(t)
  \/ Block(t) \/ Unpark(t)
  \/ Sleep(t) \/ Awake(t)

Next == MainEnds \/ \E t \in Threads : RuntimeStep(t) \/ ProgramStep(t)

Spec == Init /\ [][Next]_vars

\* The OS keeps running every thread; the program's bodies end.
BodyEnds(t) == BodyReturns(t) \/ BodyFails(t)

Fairness ==
  /\ \A t \in Threads : WF_vars(RuntimeStep(t)) /\ SF_vars(BodyEnds(t))
  /\ SF_vars(MainEnds)

FairSpec == Spec /\ Fairness

-----------------------------------------------------------------------------
(* Properties.                                                              *)

\* README.md "only one thread executes Ruby at a time": a thread that works on
\* the host holds the lock with its pointer published, and nobody else's
\* pointer is live -- also while another thread is leaving or entering.
OnlyHolderTouchesHost ==
  /\ \A t \in Threads : pc[t] \in HostPcs => ptr[t]
  /\ \A t \in Threads : ptr[t] => lock = t

\* README.md "each thread swaps in its own call stack": Ruby code of t runs on
\* t's registers, with an exception pending in them only while it is raised.
OwnContext ==
  \A t \in Threads : pc[t] \in BodyPcs =>
    /\ host.owner = t
    /\ pc[t] # "raised" => host.exc = NoThread

\* thread_join "wait for the OS thread to finish": a join that returned has the
\* outcome of the body it joined, and an Err comes with its exception object.
JoinWaits ==
  \A t \in Threads :
    pc[t] \in {"ruby", "raised"} /\ answer[t].of # NoThread =>
      /\ answer[t].res = out[answer[t].of].res
      /\ answer[t].res # "none"
      /\ answer[t].res = "err" <=> answer[t].exc # NoThread

\* The caller that took the JoinHandle has the whole outcome, result and
\* exception object, even while others join the same thread.
FirstJoinWaits ==
  \A t \in Threads :
    LET a == answer[t]
    IN  pc[t] \in {"ruby", "raised"} /\ a.first =>
          /\ a.res # "none"
          /\ [res |-> a.res, exc |-> a.exc] = out[a.of]

\* A thread seen dead (alive? is false) has its whole outcome in place for
\* value: the result, and the exception object of a body that failed.
DeadMeansPublished ==
  \A t \in Threads : done[t] =>
    /\ result[t] # "none"
    /\ [res |-> result[t], exc |-> exc[t]] = out[t]

\* A join of the main thread returns when the bodies end.
JoinReturns == pc[Main] = "osjoin" ~> pc[Main] \in {"ruby", "raised"}

\* Whoever works through a live pointer is the abstract lock's holder.
Holder ==
  IF \E t \in Threads : ptr[t] THEN CHOOSE t \in Threads : ptr[t] ELSE NoThread

G == INSTANCE Gvl WITH holder <- Holder

\* The mutex, the pointer and the hand-over implement the Global VM Lock.
ImplementsGvl == G!Spec
=============================================================================
