# A TLA+ model of rubylang

rubylang is a Ruby implementation in Rust: a lexer, parser and bytecode
compiler in front of the fusevm virtual machine, one object heap (`RubyHost`,
`src/host.rs`), some 36 000 lines of built-in methods (`src/builtins.rs`), real
OS threads under a Global VM Lock, fibers, a bytecode cache shared between
processes, a debug adapter, an ahead-of-time compiler and a REPL.

Most of it is sequential and is compared with MRI's output by the repository's
own parity tests. This directory models the part those tests do not reach: what
threads do to each other. `tests/threads.rs` says of its cases "All are
deterministic ... no reliance on timing/interleaving"; the interleavings are the
subject here.

Paths below are relative to the repository; line numbers are those of
`PROJECT.json`.

## The system

### Components, their state, their operations

| component | state | operations | modelled in |
|---|---|---|---|
| Global VM Lock | `CURRENT_VM` (`Arc<Mutex<RubyHost>>`), thread-locals `HOST_PTR`, `GVL_GUARD` | `gvl_enter`, `gvl_leave`, `with_gvl`, `gvl_blocking`, `with_host` | `Gvl`, `RubyThreads` |
| Threads | `RubyHost.threads` (`ThreadCell`: handle, result, exc, done), the execution registers (`FiberContext`: scope, signal, frames, pending exception, ...) | `spawn_thread`, `run_thread_body`, `thread_join`, `thread_alive`, `kernel_sleep`, end of `eval_str_cfg` | `RubyThreads` |
| Queue, SizedQueue | `QueueData` (items, closed, cap) behind a mutex, one condition variable | `queue_push`, `queue_pop`, `queue_close`, `queue_clear`, `queue_len`, `queue_closed` | `FifoQueue`, `RubyQueue` |
| Mutex, Monitor | the object's `__locked` flag | `lock`, `try_lock`, `unlock`, `synchronize`, `enter`, `exit` | `RubyCondVar` |
| ConditionVariable | a generation counter behind a mutex, one condition variable | `wait`, `signal`, `broadcast`, `wait_until` | `RubyCondVar` (not `wait_until`) |
| Fibers | thread-local `FIBERS` (coroutine, yielder, context, done), `CUR_FIBER` | `new_fiber`, `fiber_resume`, `fiber_yield`, `fiber_alive` | `Coroutines`, `RubyFibers` |
| External enumerators | a private fiber, the values taken and fed | `next`, `peek`, `rewind`, `feed` | not modelled, below |
| Exceptions and non-local exits | `pending_exc`, `signal`, `$!`, the Rust call stack, `at_exit_procs` | `run_begin`, `run_method`, `call_proc_self_ctx`, `finish_block_call`, `catch`, `run_main`, `run_at_exit_handlers` | `RubyUnwind` |
| Bytecode cache | the shard file, `scripts.lock`, temporary files, the sources on disk, the executable | `build`, `store_keyed`, `write_shard`, `load_keyed`, `ShardLock` | `ScriptStore`, `ScriptCache` |
| VM pool | thread-local `VM_POOL` keyed by `ChunkId` | `run_chunk_pooled`, `reset_host` | `RubyLoad` |
| require, load, autoload | loaded features, pending autoloads, the host's templates, the stack of running files | `do_require`, `load_merged`, `b_getconst`, `enter_code_file` | `RubyLoad` |
| Debug adapter | breakpoints, step mode, last depth, the pipe on standard output | `handle_stopped`, `on_debug_line`, `launch` | `DebugSession` |
| Around advice | the intercept registry, `around_stack`, `IN_ADVICE` | `fire_advice`, `proceed` | not modelled, below |
| Heap, dispatch, ancestry cache, hash iteration levels | `RubyHost` tables | method lookup, `hash_iter_step` | not modelled, below |
| Built-in classes | data | pure functions | no |
| Lexer, parser, compiler, ERB | none that lasts | pure translations | no |
| REPL, CLI, LSP, tables, tools, bundled Ruby libraries | terminal, options, files | I/O around one evaluation at a time | no |

### How they interact

Everything that is Ruby happens between a `gvl_enter` and a `gvl_leave`. A call
that has to wait (`join`, `pop` on an empty queue, `push` on a full one,
`ConditionVariable#wait`) runs inside `gvl_blocking`: it gives the GVL up, waits
on something of its own that does not need the GVL, and takes the GVL back. The
three things a thread may wait for (an OS thread, a queue's condition variable, a
`CondVarSync`) know nothing of one another; what they share is the GVL and the
execution registers in the host. `RubyThreads` therefore keeps the queue and the
condition variable as "a blocking call" (`Block`, `Unpark`), `RubyQueue` and
`RubyCondVar` keep the rest of the thread as "Ruby code" (`EnterRuby`,
`LeaveRuby`), and all three are shown to implement the same abstract lock, `Gvl`:
that is where they compose.

Fibers never give the GVL up. They share the execution registers with threads:
a resume, a yield and the start and end of a thread body all swap them.
`RubyFibers` therefore has the thread bodies too, run from start to end inside a
join, which is the case in which `RubyThreads` proves that the swap of the threads
is right.

Two of the registers, the signal and the pending exception, are what exceptions
and jumps travel in. `RubyUnwind` is about what one thread without fibers does with
them, `RubyFibers` about getting them across a switch.

Code comes from files (`require`, `load`, `autoload`, blocks of files loaded
earlier) and runs on VMs taken from a pool. `RubyLoad` has both, because what makes
a recycled VM right is how a file's code is numbered when it is merged; and it has
threads and fibers, because the pool and the stack of running files belong to the
OS thread. Processes meet in one more place, the shard of compiled scripts
(`ScriptCache`). The debug adapter runs on the thread of the program it debugs
(`DebugSession`).

### What is hard

* The host is reached through a raw pointer published per thread; nothing but
  the order of four statements keeps two threads from having a live one.
* The registers are swapped when a thread body starts and ends, and at no
  blocking call in between.
* A thread's outcome is three cells written one after the other without the GVL.
* Every wait has a gap between the release of the GVL and the lock on the thing
  waited for, and another between the wakeup and the return of the GVL. What was
  tested before a gap may have changed after it.
* `notify_one` and `notify_all` come after the critical section that makes them
  due.
* Condition variables wake for no reason, and a `notify_one` may go to the wrong
  sleeper.
* Fibers nest in fibers and in threads started from fibers; who runs, whose
  registers are in the host, where everybody else's are and which fiber a yield
  suspends is kept in three places that every switch has to change together.
* A jump is one register and names neither the frame that it leaves nor the one
  that takes it; every construct on its way decides by its own epilogue, and an
  ensure clause runs Ruby code in the middle of it.
* Builds, runs, edits and a replaced executable meet in files, one system call at
  a time; a build reads its sources twice; any process may die at any step, and the
  lock is best effort.
* A file may require itself through others, fail to compile, raise, or be loaded
  again; blocks of all of them call each other; a recycled VM still holds the code
  of whoever had it last.
* The debugger knows a step only by the depth of the frames; between two markers
  frames go and others come at the same depth. The program's output goes into a
  pipe that only its own thread empties.

### What makes each component correct

* GVL: at most one thread has a live pointer, and it is the owner of the mutex.
* Threads: Ruby code of a thread runs on its own registers; a join returns the
  body's whole outcome and does return; a thread seen dead has published.
* Queue: first in, first out, each call at one instant; capacity; nobody sleeps
  on an item, on room or on a close; a closed queue only drains.
* Mutex: sections without blocking calls exclude each other, around
  `wait` too; the flag says whether somebody is inside.
* ConditionVariable: no wakeup that was due is missed.
* Fibers: the code that runs has its own registers and nobody else's exception;
  a yield suspends its caller; only a suspended fiber is entered, and control goes
  back to the one that entered it.
* Unwinding: a jump lands where Ruby says, a begin with an ensure clause is left
  through that clause and by nothing else, `rescue` and `$!` have the exception that
  was raised, the exit status is that of the last thing that went wrong.
* Cache: a hit runs what the files hold; no reader sees half a shard or another
  build's bytecode; under the lock no store is lost; builds come to an end.
* Loading: a file is required once; `false` means that it has run; a body runs its
  own code, in its own file.
* Debugger: the program stops where the user asked and nowhere else, all output
  reaches the client, and a session whose client has gone comes to its end.

`PROJECT.json` lists the hazards one by one with the line where each one bites.

## Modules

`Gvl` — the abstract lock: a holder, `Acquire`, `Release`. The specification that
`RubyThreads`, `RubyQueue` and `RubyCondVar` implement.

`RubyThreads` — one action per step of the run time: `Lock`, `Publish`
(`gvl_enter`), `Clear`, `Unlock` (`gvl_leave`), `Spawn` (`spawn_thread`),
`Install`, `BodyReturns`, `BodyFails` (`run_thread_body`: the register swap, the
capture of the exception), `PublishResult`, `PublishExc`, `PublishDone` (the end of
the OS thread's closure), `JoinFirst`, `JoinLater`, `OsJoin`, `ReadResult`,
`ReadExc` (`thread_join`), `Block`, `Unpark` (`gvl_blocking`), `Sleep`, `Awake`
(`kernel_sleep`), `Raise`, `Rescue`, and `MainEnds` (the end of `eval_str_cfg`,
after which the process is gone). The registers are abstracted to whose they are
and the pending exception, an exception to the thread that raised it, a value to
"ok". What a program does is nondeterministic, within the constants `MayJoin`,
`MayBlock` and `MaySleep`.

`FifoQueue` — what `Queue` and `SizedQueue` promise: each call takes effect at one
instant on a FIFO queue.

`RubyQueue` — each critical section of the queue's own mutex is an action:
`PushRoom`, `PushRefused`, `PushBlocks`, `PushTest`, `PushEnter`, `AppendItem`
(`queue_push`), `PopFirstTry`, `PopRetry`, `PopRefused`, `PopTest`, `PopEnter`
(`queue_pop`), `Close`, `Clear`; `NotifyAll` after the section; `Resume` and
`SpuriousWakeup` for `Condvar::wait`. The test and the append of a push that finds
room are two actions although the GVL is held throughout, because a thread inside
its wait loop does not need the GVL to look at the queue. The two sections are
those of the code.

`RubyCondVar` — the flag of `mutex_method` and the generation of
`condvar_wait`/`condvar_notify` together, because `wait` is about both:
`Synchronize`, `TryLock`, `Exit`, `Block`, `Unblock`, `Wait`, `Capture`,
`SleepAgain`, `WakeUp`, `Return`, `Signal`, `Broadcast`, `NotifyOne`, `NotifyAll`.
`Wait` covers the clearing of the flag and `gvl_leave`, `Capture` the start of the
wait under the generation's mutex, `Return` `gvl_enter` and the setting of the
flag.

`Coroutines` — what fibers promise: an executor is absent, suspended, active or
dead, and control passes by entering a suspended one and by going back to the one
that entered.

`RubyFibers` — `NewFiber` (`new_fiber`), `Resume`, `ResumeFails` (dead, or not at
home), `ResumePanics` (`fiber_resume` up to the switch), `Yield`, `YieldFails`
(`fiber_yield` and the half of `fiber_resume` after the switch back), `BodyReturns`,
`BodyRaises`, `Raise`, `Rescue`, `RunThread`, `ThreadEnds` (`spawn_thread`,
`run_thread_body` and `thread_join` in one piece). `fiber_resume`'s locals, which
live on the Rust stack across the switch, are `call[x]`: the caller, its registers,
the fiber that ran before. A Fiber object is a pair of the thread that made it and
an index, and `CellOf` is the lookup in the resuming thread's table.

`RubyUnwind` — the stack of nested Rust calls, each with what its construct keeps,
and an arbitrary program: a running chunk may take any step its place in the
program text allows. The steps: `Call`, `CallWithBlock`, `Yield`, `CallKept`,
`Iterate`, `Forward`, `Catch`, `Begin`, `Keep`, `AtExit`, `Return`, `Break`,
`NextIteration`, `Retry`, `Throw`, `Raise`, `Reraise`, `RaiseBare` (a builtin that
answers an error without an exception object), `Exit`, `End`. The epilogues:
`MethodEnds` (`run_method`), `BlockEnds` and `BlockEndsOrphan`
(`call_proc_self_ctx`), `SiteEnds` (`finish_block_call`), `BuiltinEnds`,
`CatchEnds`, `BodyEnds`, `BodyRaised`, `MatchEnds`, `MatchRaised`, `RescueEnds`,
`RescueRetries`, `EnsureEnds` (`run_begin`), `MainEnds` (`run_main`),
`HandlerRuns`, `HandlerEnds`, `Finish` (`run_at_exit_handlers`). Where the code does
not do what Ruby does, the step that meets the difference puts a mark into
`strayed`; the properties say what holds as long as theirs is not there. The
differences are listed below.

`ScriptStore` — what the cache promises: a dictionary whose stores take effect at
one instant. `ScriptCache` — the processes that share it, one action per system
call: `StartBuild`, `BundleRead`, `BundleSkip`, `ReadKey`, `ReadManifest` (`build` in
`aot.rs`), `Lock`, `LockFails`, `Load`, `Create`, `Fill`, `Rename`, `EndBuild`,
`BuildFails`, `WriteFails` (`store_keyed`, `write_shard`), `StartRun`, `ReadSource`,
`Probe`, `Check`, `EndRun` (`load_keyed`), and `Crash`, `Edit`, `Rebuild` for the world
around them. A compiled program is the contents it was compiled from, a content
stands for its hash. `Stamp` is `build_stamp`, which takes the size and the time of
the executable anew, by its path, each time it is asked. `Rebuild` chooses what that
path is to the processes that run already (`follows`): on Linux the kernel marks it
as deleted and they get a stamp no other process has, on macOS it leads to the new
executable and they get the stamp of the new build. Both are released
(`.github/workflows/release.yml` 33-38). `outlived` remembers that a process went on
after a replacement of the second kind.

`DebugSession` — the client's requests, the adapter's handling of them while the
program is not running (`ServeBreakpoints`, `ServeFunctionBreakpoints`, `ServeOther`,
`ServeLaunch`, `ServeResume`, `RunAlone`, `Leave`), and the program: `Call`, `Return`
(`run_method`'s push and pop of a frame), `NewFiber`, `ResumeFiber`, `YieldFiber`,
`FiberEnds` (`new_fiber`, `fiber_resume`, `fiber_yield`), `Echo` and `Puts` (output
without and with a newline), `Marker` (`on_debug_line`), `Finish`, `Exit`. Each fiber
has its frames in `stacks`; the depth the adapter sees is that of the fiber that
runs, because `install_fiber_ctx` swaps the whole vector (`host.rs` 13962). A block has
no frame of its own: its markers are those of the method around it. `origin` and
`marked_last` are history: the frames, by identity, of the last resume and of the
last marker.

`RubyLoad` — `Require`, `Load`, `Autoload`, `ReadConst` (`b_getconst`), `Define`, `Call` (a
block of whatever program), `End` (of a body, also by an exception), `SwitchThread` and
`StartThread` (the GVL passes on), `StartFiber`, `Resume`, `Yield` and `EndFiber`
(`fiber_resume`, `fiber_yield`: control moves along `chain`, which is who resumed whom),
and `StartRun` (`reset_host`). A body records the program that was wanted and the one
its VM held.

`MCRubyThreads`, `MCRubyQueue`, `MCRubyCondVar`, `MCRubyFibers`, `MCRubyUnwind`,
`MCScriptCache`, `MCDebugSession`, `MCRubyLoad` — the instances for TLC.

`RubyThreadsProofs`, `RubyQueueProofs`, `RubyCondVarProofs`, `RubyFibersProofs`,
`RubyUnwindProofs`, `ScriptCacheProofs`, `DebugSessionProofs`, `RubyLoadProofs` — the
theorems.

Definitions commented "Mutant:" are plausible mistakes in the operation that
follows them; each property is confirmed to fail when one of them takes the
operation's place. They are in no specification.

## Runs

| run | question | instance |
|---|---|---|
| `threads_gvl` | do lock, pointer and hand-over exclude threads from the host, and does a thread seen dead have its outcome, with everything allowed? | main and two threads, which may join in a chain; all may block, one may sleep; 53 000 states |
| `threads_joins` | own registers, every join right, every join of the main program returns, for bodies that run through | main joins both, any number of times; 1 900 states |
| `threads_contexts_mixed` | own registers when a body blocks in the middle: violated | as above, with blocking |
| `queue_fifo` | FIFO at one instant, no popper left asleep | unbounded, two values, two pushers, two poppers, a closer, a clearer, four turns each; 1.2 million states |
| `queue_sized` | no pusher left asleep, the overshoot, closing | capacity 1, two pushers, two poppers, a closer, four turns each; 200 000 states |
| `mutex_sections` | exclusion and the flag, with signal and broadcast | two waiters, sections without other blocking calls; 56 000 states |
| `condvar_broadcast` | nobody left asleep by a broadcast, and back to Ruby after it | two waiters, nested sections, one that blocks; 99 000 states |
| `fibers_switch` | own registers and exceptions, yields, coroutine discipline, whatever is resumed | main and a thread, two fibers each, also resumed across threads; 48 000 states |
| `unwind_jumps` | jumps, ensure, rescue, `$!`, throw, exit status | every program of four steps; 1.3 million states |
| `cache_stores` | hits, torn and foreign shards, lost stores, builds that end | two processes at a time of three in all, a script that requires a file, two contents, one edit, one rebuild of either kind; 420 000 states |
| `debug_session` | stops, output, the end of a session | two lines of which one has a marker, one method name, one fiber, three frames each, a pipe of one line, five steps, three requests; 1.1 million states |
| `load_files` | files loaded once, bodies with their own code and file, pools | a script, a file that may not compile, a bundled library; two fibers, also one inside the other, and a second thread; 480 000 states up to renaming the fibers |

### Bounds

Three threads in the first three modules: one that waits, one that is in the way,
one that acts. Every counterexample found, and every mutant, needs at most three.
In `RubyFibers` two threads with two fibers each: three levels of nesting on one
thread, a thread started from inside a fiber, and a table that is shorter on one
thread than on the other. `MaxTurns`
bounds the calls of a thread and its returns to Ruby from elsewhere; four turns
let a thread enter, push or wait, come back and do it again, and let the queue go
from empty to full to empty. A capacity of 1 makes the smallest queue that is both
full and empty often. Values are model values. The proofs have no bounds.

`unwind_jumps` lets every kind of step mix with every other in four steps, which is
what it takes to raise or jump out of a clause of a begin that was entered because
of something else. Five steps of smaller sets of kinds were run by hand (begin,
raise, bare, retry; call, iterate, break, return, proc; catch, begin, raise, call)
and pass. In `cache_stores` one edit and one rebuild can fall anywhere between the
steps of two processes; three launches (`MaxLaunches`) make the interesting
histories (built, edited, built again, run) possible, the third process in a slot
that is used again. The edit gives the script a second key, so there are two entries
of which a store can lose one. All files start with the same content, as nothing
compares contents of different files. `debug_session` has the depths a step over and
a step out need to tell a frame from its caller and from another call of it, in the
main program and in a fiber; five steps are the marker of a method, a call or a
resume, and three that follow, three requests a breakpoint, the launch and a step.
`load_files` has three bodies inside each other and a pool of two, so that a VM is
dropped, reused and found again; the two fibers are symmetric (`FiberSymmetry`), as
no definition tells one from the other.

`CHECK_DEADLOCK FALSE` is said in every run but `unwind_jumps`, because a program may
stop: the process ends, or a thread waits for a call no other thread makes
(`BUGS.md` notes that MRI's deadlock detector is missing), or the bounds are used
up. In `unwind_jumps` the only way to stop is the end of the program: some construct
always has an answer for what reaches it.

### Fairness

`RubyThreads!FairSpec`: weak fairness of the run time's own steps, because the OS
keeps running every thread; strong fairness of the end of bodies and of the main
program, because a thread that is not blocked reaches its end although it may
spawn, join and raise on the way. It says nothing of `Block` and `Sleep`.

`RubyQueue!FairSpec` and `RubyCondVar!FairSpec`: weak fairness of the steps of a call
that has started and of the thread that holds the GVL coming to its end or to a
blocking call. Weak fairness is enough for the lock itself, since turns run out;
nothing is assumed about which waiter of a mutex gets it. A thread asleep in a
condition variable is under no obligation to wake: spurious wakeups are possible,
not fair.

`ScriptCache!FairSpec`: weak fairness of the steps of a build that has started; a
crash or an edit is never owed. `DebugSession!Spec`: weak fairness of the adapter
and of the program, which are one thread; the client owes nothing. `SessionEnds` is
for programs that end: the bound on the steps ends them.

## Differences between the code and what is said of it

`threads_contexts_mixed` shows that threads do not have their own registers: the
swap happens when a body starts and when it ends (`host.rs` 14144, 14153) and not
in `gvl_blocking`. Two threads that block on a queue in the middle continue on each
other's frames.

The others have no run of their own. Each was seen in a counterexample of one of
these models, and the properties are stated around it.

Threads, queues, condition variables, fibers:

* Only the first `join` waits. While it does, a second `join` or `value` of the same
  thread returns nil at once, or the `Err` without the exception object
  (`JoinWaits` holds only for bodies that run through).
* A push that waited does not test the capacity again after it has taken the GVL
  back (`host.rs` 14259): two pushes let out by one pop both append. `Overshoot` is the
  bound that does hold.
* `clear` notifies nobody (`host.rs` 14319): a push sleeps on in front of an empty
  queue. `NoLostPushWakeup` is for queues that nobody clears.
* `ConditionVariable#wait` captures the generation after it has given the GVL up
  (`host.rs` 14342, 14349), not while holding the mutex as its comment says: a
  signal in between is missed.
* The generation moves, then `notify_one` is called. A thread that starts its wait in
  between may take the wakeup, and sleeps again; the signal frees nobody.
* `kernel_sleep` (`builtins.rs` 27640) does not release the GVL, although the comment
  of `gvl_blocking` lists `sleep`.
* `lock` and `synchronize` set their flag without looking at it, and the first of two
  overlapping or nested sections to end clears it for the other (`PlainSections`).
* `FIBERS` is thread-local and nothing compares threads (`host.rs` 13901, 14044), so a
  Fiber resumed on another thread runs that thread's fiber of the same number, or
  panics; `BUGS.md` 2067 says that fibers remain thread-owned. The model has these
  resumes, and the properties of `fibers_switch` hold in spite of them.

Exceptions and jumps (the marks of `strayed` in brackets):

* A clause that rescues something inside an ensure clause takes `pending_exc`, and
  the exception on its way out goes on without its object (`host.rs` 13785,
  13857-13877) ["object"].
* A jump that drops an exception leaves its object in `pending_exc`: a return, a next,
  a retry or a loop's break that an exception meets on its way up. Inside an ensure
  clause that runs because of an outer exception, that one then goes on with the wrong
  object. No program of four steps does this; it was met where the proof of
  `RescueHasTheRaised` did not go through ["object"].
* An ensure clause that runs because of a jump ends at its first call, since the
  signal is still set, although `host.rs` 13763 says that "`ensure` always runs"; an
  exception raised in it does not replace the jump, although the comment at
  `host.rs` 13862 says so; a method it calls consumes an outer return. `EnsureRuns` is
  not said of a program that met this: the begin would be left out of the clause, but
  not at its end ["signal"].
* A `break` or `return` out of an ensure clause that runs because of an exception
  loses to the exception, or leaves it in `pending_exc` ["signal"].
* A `break` ends at the first call with a literal block on its way, so
  `each { yield }` keeps the break of the outer block (`builtins.rs` 15218, 903-906);
  a begin in a native loop keeps one that is not its own, contrary to the comment at
  `builtins.rs` 452; a lambda keeps every return and break that passes
  through ["taken"].
* A `rescue *list` whose list raises skips the ensure clause (`host.rs` 13819)
  ["clause"].
* A `return` left over by an `at_exit` handler ends the next handler at its first
  call ["signal"].

Bytecode cache:

* A file edited between the build's two readings (`aot.rs` 95-115) is filed under
  contents that were not compiled, and stays there as long as the file is not edited
  again, although `cache.rs` 130-135 says that an edit invalidates the entry.
  `EditsWhileBuilding` is FALSE in the run and a condition of the theorem.
* Without the lock, which may fail, one of two stores is lost, as the code accepts
  (`degraded` in `ScriptStore`).
* Where the path of a replaced executable leads to the new one (macOS), a process of
  the old build reads the new build's shard, merges into it and stamps what it
  compiled as the new build's, although `cache.rs` 193 says that "a rebuilt binary must
  not read them back". `StampIsTrue` and `ImplementsStore` are not said once a process
  has outlived its executable that way (`outlived`, `Mix` in `ScriptStore`). On Linux
  the same process gets a stamp of its own and at worst empties the shard for the
  others (`Evict`).

Loading:

* A file whose body raised stays in `$LOADED_FEATURES`; an autoload is used up even if
  the load fails.
* A second thread that requires a file in the middle of its body is told `false`, or
  does not find its constant (`AnswersLoaded` leaves these out).
* A fiber that yields inside a body of another file leaves that file on its
  thread's stack (`OwnFile` leaves out the threads where one did); `BUGS.md` 1987
  describes the stack as that of the running code.
* A bundled library's methods and blocks are filed under the file that required it.

Debugger:

* Output beyond the size of the pipe between two stops blocks the program for ever,
  since the thread that would empty the pipe is the one that writes (`"hung"`).
* `exit` in the program ends the adapter at once, without the rest of the output and
  without `terminated`.
* A function breakpoint is missed when the method called before it, at the same
  depth, returned without a marker in between (`dap.rs` 187).
* Depths are compared across fibers, whose frames have nothing to do with each other
  (`dap.rs` 344, 351, `host.rs` 13962): a step over a resume from three frames deep stops
  inside the fiber, a step in a fiber runs on through a caller that is deeper, a
  function breakpoint is met again, or missed, at the first marker after a switch.
  `StopsAreRight` is about markers in the fiber of the step, and of the last marker
  (`SameFiber`).
* Once the frame of a step is gone, a marker deeper than it is taken for one inside
  it, although the frame that took its place is another: one that has run no marker
  yet and makes a call, as in a default argument (`NoneUnmarked`).
* A frame without a method is called "main" (`host.rs` 5794), so a function breakpoint
  of that name stops there too; the model has no such name.
* `setBreakpoints` for one file replaces those of all files. Requests are read only
  while the program is stopped. Ruby threads other than the one of the adapter never
  stop, since `DBG` is a thread-local (`dap.rs` 59); what they do to the registers of
  the thread that does is that of `threads_contexts_mixed` and left out here.

## Proofs

All theorems hold for every value of the constants that satisfies the named
assumptions of the module (`ThreadsAssumption`, `QueueAssumption`,
`CondVarAssumption`, `FibersAssumption`, `CacheAssumption`, `LinesAssumption`,
`StepsAssumption`, `NoneAssumption`, `BoundsAssumption`, `LoadAssumption`), so for any number of threads,
fibers, processes, files and frames, and the further condition shown. The
property a theorem states is in brackets.

| theorem | condition | inductive invariant |
|---|---|---|
| `RubyThreadsProofs!TypeCorrect` | | types, and that an answer names a thread |
| `OneThreadAtATime` (`OnlyHolderTouchesHost`) | | `LockInv`: where a thread is determines whether it owns the mutex and whether its pointer is live |
| `DeadArePublished` (`DeadMeansPublished`) | | `CellInv`: how far a thread has come with its outcome determines which cells agree with it |
| `FirstJoinHasOutcome` (`FirstJoinWaits`) | | `CellInv` and `JoinInv`: a first joiner past its wait asks about a thread that has ended |
| `GvlRefinement` (`ImplementsGvl`) | | `LockInv`; publishing the pointer is `Acquire`, clearing it is `Release` |
| `RegistersAreOwn` (`OwnContext`), `JoinsWait` (`JoinWaits`) | `BodiesRunThrough`: no body joins or blocks | `RegisterInv`: at most one thread is between `Install` and the end of its body besides the main program, whose registers are the ones to put back |
| `RubyQueueProofs!TypeCorrect`, `HolderRunsRuby`, `GvlRefinement` | | the GVL's holder is where the program counters say |
| `PopIsWoken` (`NoLostPopWakeup`) | | with the holder and the parked threads |
| `PushIsWoken` (`NoLostPushWakeup`) | nobody calls `clear` | the same |
| `CloseIsFinal` (`ClosedOnlyDrains`) | | types |
| `OvershootIsBounded` (`Overshoot`) | finitely many pushers, at least one | `CapInv`: items plus pushes let out of the wait stay below the capacity plus the number of pushers |
| `FifoRefinement` (`ImplementsFifo`) | unbounded, or a single pusher (`Uncontended`) | `RoomInv`: a push that has been let out has room |
| `RubyCondVarProofs!TypeCorrect`, `GvlRefinement` | | the holder |
| `SectionsAreExclusive` (`SectionsExclude`), `FlagIsExact` (`FlagAroundBlock`) | `PlainSections`: no blocking call but `wait`, no nesting | `SectionInv`: whoever is inside holds the GVL, whoever waits has a section to come back to |
| `BroadcastWakesAll` (`NoMissedWakeup`) | nobody calls `signal` | parked threads are at "parked" |
| `RubyFibersProofs!TypeCorrect`, `YieldSuspendsCaller` (`YieldsItself`) | | `SwitchInv`: `ChainInv`, who waits for whom; `CellInv`, a coroutine is away from its cell exactly while somebody on the same thread waits for it; `ThreadInv`, a thread that waits in `join` keeps the current fiber of the code that called it |
| `RegistersAreOwn` (`OwnContext`) | | `SwitchInv` and the property |
| `ExceptionsTravel` (`ExceptionTravels`) | | `SwitchInv` and `UnbornInv`: what has not begun raises nothing |
| `CoroutineRefinement` (`ImplementsCoroutines`) | | `SwitchInv` |
| `RubyUnwindProofs!TypeCorrect` (`TypeOK`) | | `TypeInv`: types, the main program or its end at the bottom of the stack and nowhere else, a begin above the method, block or main program it is part of |
| `EnsureClausesRun` (`EnsureRuns`) | no list of a rescue clause raised ("clause"), no ensure clause entered with a jump pending did more than end or jump ("signal") | `TypeInv` |
| `RescueHasTheRaised` (`RescuesTheRaisedBarring`) | no object was lost | `ObjectInv`: `pending_exc` has the object of the error on its way, or else that of the innermost one an ensure clause holds back |
| `BangIsTheHandled` (`BangIsHandled`) | the same | `ObjectInv` and `BangInv`: each clause that handles an exception has kept the `$!` of the clauses below it |
| `ThrowsAreCaught` (`ThrowHasCatch`) | the mark "signal" is not set | `ThrowInv`: the catch a throw aims at is on the stack and no clause above it holds an error back |
| `StatusIsTheLast` (`ExitStatusIsLast`) | neither "object" nor "signal" is marked | `ObjectInv`, `ThrowInv` and `ExitInv`: at the end, the status so far tells of the last exception |
| `JumpsLand` (`JumpLands`) | neither "signal" nor "taken" is marked | `IdInv`: identities grow along the stack, and a proc knows the method it was written in and the lambda or method a return of its leaves; `PartInv`: a begin is part of what lies below it; `AimInv`: for the jump on its way and for each one an ensure clause holds back, the construct it is to stop at is on the stack and nothing above it stops it first; and `ThrowInv` |
| `ScriptCacheProofs!TypeCorrect` | | `Typed`: types, and a process between its steps has what its place says |
| `NeverTorn` (`ShardIsWhole`) | | `StampInv`: every shard on disk, in a temporary file or in memory is whole, and unless a process outlived its executable under a path that follows, stamped with the build of its entries |
| `NoForeignBytecode` (`StampIsTrue`) | no process outlived its executable under a path that follows | the same |
| `StoreRefinement` (`ImplementsStore`) | atomic stores until a process goes on without the lock or outlives its executable in that way | `SerialInv`: till then whoever is between the load and the rename holds it and its image is the present view and its own entry |
| `HitsAreFaithful` (`RunsWhatItFound`) | no file changes between a build's two readings | `FaithInv`: every entry, stored or on its way, was compiled from what its manifest says |
| `DebugSessionProofs!TypeCorrect` | | types, and the fiber that runs and those that wait for it are different ones that have a frame each (`Chained`) |
| `NothingUnsent` (`OutputWhole`) | | `OutputInv`: what was written is in the buffer, in the pipe or sent |
| `StopsAreMeant` (`StopsAreRight`) | the marker is in the fiber of the step, or of the last marker; a step that is done stops unless a frame below has run no marker, a function breakpoint unless the frame of the last marker has returned | `StopInv`: no frame above that of the last marker has run one (`Standing`); until the step is done, the frame it waits above is either the one it was at the last resume or has run no marker (`Aim`) |
| `RubyLoadProofs!RunsOnce` (`LoadsOnce`) | | `OnceInv`: what is not a feature was never started |
| `LoadedMeansLoaded` (`AnswersLoaded`) | no thread or fiber lost control in the middle of a file | `AnswerInv`: unless interrupted, a feature has ended or is being loaded by the code that runs |
| `RubyLoadProofs!TypeCorrect` (`TypeOK`) | | `NestInv`: of the contexts that resumed each other only the last can be between bodies, and the first body of a thread or of the program has its file; `CountInv`: a thread's file stack is as high as its bodies pushed files, whichever fibers they are in |
| `RunsInItsFile` (`OwnFile`) | no fiber was left in the middle of a body | these and `HeightInv`: the file of a body is where the bodies around it left the top of the stack |
| `RunsWhatWasAsked` (`RunsItsCode`) | | `CodeInv`: blocks, pooled VMs and running bodies with an identity hold the template it names |

The invariants need strengthening because none of the properties mentions the
steps on the way: `OnlyHolderTouchesHost` says nothing of a thread that has cleared
its pointer and not yet dropped the guard, `Overshoot` nothing of a push between
its wait and its append, `YieldsItself` nothing of the fibers further up the chain,
whose number each call has kept in `prev` for the moment control comes back.

Four more of them say how far a number or an identity may be trusted. A `return`
stops at the first activation whose identity it carries; `JumpsLand` rests on
identities growing along the stack, and on no proc in a lambda having a home that is
younger than the lambda. The debugger compares depths; `StopsAreMeant` says that
within one fiber this amounts to comparing activations, because a frame of the last
resume can only be replaced at its depth after it is gone, also when other fibers
run in between. The pool compares indices into a table that grows while VMs are out;
`RunsWhatWasAsked` rests on indices never being used twice within a run and pools
never surviving it. The cache compares a stamp; `NoForeignBytecode` rests on a
replaced process stamping with `Unstamped`, which no reader's stamp equals, as it
does on Linux, or on there being none while the executable is replaced.

Some properties were checked by TLC while they were written, and are now stated
by theorems only: most type invariants, `ImplementsGvl` of queues and condition
variables, `FirstJoinWaits`, `OnlyHolderRunsRuby`.

Model-checked only: the liveness properties (`JoinReturns`, `CloseFreesAll`,
`StaleWaiterReturns`, `BuildsFinish`, `SessionEnds`), which are out of the proof
system's reach. Every other property of a passing run is stated by a theorem.

## Plan

Done: threads, queues, condition variables, fibers; unwinding; the cache; loading
and the pool; the debugger; the safety proofs of all of them. In this order from here:

1. Threads and fibers in `RubyUnwind`: a jump that reaches the end of a thread's or
   a fiber's body.
2. External enumerators over `Coroutines`: values come out once each and in order, a
   peeked value is the next one.
3. The advice counter over `Coroutines`, the ancestry cache, hash iteration levels.

## What is left out, and why

In `RubyFibers`: the interleaving of threads (in `RubyThreads`); what follows a Rust
panic; errors that have no exception object, for which `run_begin` makes one up;
the signals of break, next, return and throw, which are registers like the frames;
`alive?`, which only reads.

In `RubyUnwind`: redo, causes and backtraces; the forty builtins that take a break by
themselves, beyond the two kinds there are; jumps across fibers and threads; the
match data that a method call saves and restores. In `ScriptCache`: which files a
script requires is fixed; an I/O error while reading the shard counts as no shard,
and is not told apart from one. In `DebugSession`: what the queries answer. In
`RubyLoad`: how a name is resolved along the load path; libraries implemented in
Rust, which only report success; methods, whose identities are never used twice.

External enumerators: the fiber underneath is an ordinary one, and `RubyFibers` has
it; the value that `peek` parks and the one that `feed` leaves are two fields read and
written by straight-line code on either side of a resume. What could go wrong is a
body that rewinds and restarts its own enumerator while it is being advanced: the
parked value then goes to the new walk.

Around advice: `IN_ADVICE` is counted up and down around one call, on every path.
It is a thread-local that a switch of fibers does not swap, so a fiber that yields
inside a handler leaves the weaving off for the others; that is visible without a
model.

The heap, method dispatch and the built-in classes: sequential and data, compared
with MRI's output by the repository. `hash_iter_step` and the lock on a hash being
iterated count levels on each object. The lexer, the parser and the compiler are
pure; what the compiler emits for control flow is what `RubyUnwind` runs. The native
build and the FFI drive external tools.

Values, method bodies and the heap's content: the properties do not tell them
apart. Memory: Rust's own. `with_host` outside a GVL slice (tools and tests, one
thread). Poisoned mutexes: a Rust panic ends the program. `Thread#[]` storage and
`Thread.list`. `wait_until`'s bound of a million rounds. Timed waits do not exist in
the code.
