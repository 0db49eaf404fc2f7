------------------------------ MODULE RubyLoad ------------------------------
(***************************************************************************)
(* How rubylang finds the code it runs: require, load and autoload         *)
(* (do_require and b_getconst in src/builtins.rs), the merging of a        *)
(* program into the host (load_merged), the stack that says which file     *)
(* runs (FILE_DIR_STACK, FILE_PATH_STACK), and the pool of VMs that keep   *)
(* the chunk they ran last (run_chunk_pooled in src/host.rs).              *)
(*                                                                         *)
(* The host (features, templates, autoloads) is shared by the threads of a *)
(* run; the file stack and the pool belong to the OS thread, and are not   *)
(* swapped when one of its fibers takes over.  A context is the main       *)
(* program, the body of a thread, or a fiber.  Only a running Ruby body    *)
(* gives control away: do_require is one step up to the start of the       *)
(* file's body, and one from its end.                                      *)
(*                                                                         *)
(* A program is the number of its compilation; it has one block.  Methods  *)
(* are left out: they carry an id no other compilation gets, where a block *)
(* is an index into the host's templates.                                  *)
(***************************************************************************)
EXTENDS Naturals, Sequences

CONSTANTS
  Contexts,
  Main,          \* the context of the main program
  On,            \* On[c]: the OS thread c runs on
  Files,         \* the files on disk
  Libs,          \* the libraries bundled into the binary
  Script,        \* the file that a run starts with
  Invalid,       \* files that may fail to compile, until they are edited
  NoFile,
  NoId,          \* ChunkId::None
  PoolMax,       \* VM_POOL_MAX
  MaxPrograms,   \* bound: programs compiled
  MaxCalls,      \* bound: bodies started
  MaxDepth       \* bound: nested bodies of a context

ASSUME LoadAssumption ==
  /\ Main \in Contexts
  /\ Script \in Files
  /\ Invalid \subseteq Files
  /\ Files \cap Libs = {}
  /\ NoFile \notin Files \cup Libs
  /\ NoId \notin Nat
  /\ PoolMax \in Nat /\ MaxPrograms \in Nat /\ MaxCalls \in Nat /\ MaxDepth \in Nat

Threads == {On[c] : c \in Contexts}

Loadable == Files \cup Libs

VARIABLES
  features,   \* $LOADED_FEATURES, and the set of bundled libraries run
  autoloads,  \* constants with a pending autoload; named after their file
  consts,     \* constants that are defined
  procs,      \* RubyHost::procs, the block templates
  blocks,     \* the blocks written in the loaded programs: the program, and the
              \* index its chunks say
  files,      \* files[t]: FILE_DIR_STACK and FILE_PATH_STACK of thread t
  pool,       \* pool[t]: VM_POOL of thread t
  stack,      \* stack[c]: the bodies that context c is in
  chain,      \* chain[t]: the calls of resume that thread t is in: the context
              \* it began with, the fiber that one resumed, and so on; the last
              \* one runs, when t does
  running,    \* the thread that holds the GVL
  programs,   \* history: programs compiled so far
  calls,      \* history: bodies started so far
  started,    \* history: how often require started each file
  ended,      \* history: files a body of which came to its end, or raised
  answer,     \* history: what the last step found out about a file
  mixed,      \* history: threads that left a fiber in the middle of a body
  interrupted \* history: a context lost control in the middle of a file

host == <<features, autoloads, consts, procs, blocks>>
history == <<started, ended, answer, mixed, interrupted>>
vars == <<host, files, pool, stack, chain, running, programs, calls, history>>

-----------------------------------------------------------------------------
Last(s) == s[Len(s)]
Front(s) == SubSeq(s, 1, Len(s) - 1)

Active(t) == Last(chain[t])
me == Active(running)

CurrentFile == Last(files[running])

\* The body that runs now.
Busy == stack[me] # <<>>
Body == Last(stack[me])

Loading(c) == {stack[c][k].loads : k \in DOMAIN stack[c]} \ {NoFile}

NoAnswer == [file |-> NoFile, says |-> "nothing"]
Answer(f, says) == answer' = [file |-> f, says |-> says]

-----------------------------------------------------------------------------
(* run_chunk_pooled.                                                        *)

\* ChunkId::same: the top level of a file has no identity.
Same(id, other) == id # NoId /\ id = other

Holding(id) == {k \in DOMAIN pool[running] : Same(id, pool[running][k].id)}
Latest(S) == CHOOSE k \in S : \A j \in S : j <= k

\* What the VM that is taken, or made, will run: the chunk it holds if it is
\* filed under id, else the one fetched from the host.
ChunkFor(id, fetched) ==
  IF Holding(id) = {} THEN fetched ELSE pool[running][Latest(Holding(id))].code

\* rposition and swap_remove, or pop.
PoolWithout(id) ==
  LET p == pool[running] IN
  IF p = <<>> THEN p
  ELSE IF Holding(id) = {} THEN Front(p)
  ELSE Front([p EXCEPT ![Latest(Holding(id))] = Last(p)])

\* Mutant: the pool is not bounded.
PutBackAlways(vm) == Append(pool[running], vm)

PutBack(vm) ==
  IF Len(pool[running]) < PoolMax THEN Append(pool[running], vm) ELSE pool[running]

\* Context c enters a body: chunk `fetched` of the host, written in `file`;
\* `wanted` is the program it belongs to.
Enter(c, id, fetched, wanted, file, pushed, loads, require) ==
  /\ calls < MaxCalls /\ calls' = calls + 1
  /\ Len(stack[c]) < MaxDepth
  /\ stack' = [stack EXCEPT ![c] =
                 Append(@, [id |-> id, runs |-> ChunkFor(id, fetched),
                            wanted |-> wanted, file |-> file, pushed |-> pushed,
                            loads |-> loads, require |-> require])]
  /\ pool' = [pool EXCEPT ![running] = PoolWithout(id)]

-----------------------------------------------------------------------------
(* Loading a file.                                                          *)

\* load_merged: the program's block indices are moved above the templates
\* there are; everything it defines was written in the file that now runs.
Offset == Len(procs)

Merge(n, file) ==
  /\ procs' = Append(procs, [code |-> n, file |-> file])
  /\ blocks' = blocks \cup {[program |-> n, id |-> Offset + 1]}

Compiles == programs < MaxPrograms /\ programs' = programs + 1

\* do_require from the compiled source on.  A bundled library has no file of
\* its own: what it defines is filed under the file that requires it.
Run(f, require, features_) ==
  LET pushed == f \in Files
      file == IF pushed THEN f ELSE CurrentFile
  IN  /\ Compiles
      /\ Merge(programs', file)
      /\ features' = features_
      /\ files' = IF pushed THEN [files EXCEPT ![running] = Append(@, f)] ELSE files
      /\ Enter(me, NoId, programs', programs', file, pushed, f, require)
      /\ started' = IF require THEN [started EXCEPT ![f] = @ + 1] ELSE started
      /\ answer' = NoAnswer
      /\ UNCHANGED <<consts, chain, running, ended, mixed, interrupted>>

Quiet == UNCHANGED <<procs, blocks, files, pool, stack, chain, running,
                     calls, started, ended, mixed, interrupted>>

\* Mutant: the feature is recorded when the file has run.
RecordLater(f) == features

\* record_feature, mark_embedded_stdlib_loaded: before the body runs, so that a
\* circular require sees it.
Record(f) == features \cup {f}

\* require and require_relative of a file that was not loaded yet.
RequireNew(f) ==
  /\ f \notin features
  /\ Run(f, TRUE, Record(f))

\* ... of one that was: false.
RequireAgain(f, says) ==
  /\ f \in features
  /\ Answer(f, says)
  /\ UNCHANGED <<features, consts, programs>>
  /\ Quiet

\* Mutant: the feature is recorded before the file compiles.
RequireInvalidLate(f) ==
  /\ f \in Invalid \ features
  /\ features' = features \cup {f}
  /\ answer' = NoAnswer
  /\ UNCHANGED <<consts, programs>>
  /\ Quiet

\* ... of one that does not compile: SyntaxError.
RequireInvalid(f) ==
  /\ f \in Invalid \ features
  /\ answer' = NoAnswer
  /\ UNCHANGED <<features, consts, programs>>
  /\ Quiet

Require(f) ==
  /\ RequireNew(f) \/ RequireAgain(f, "loaded") \/ RequireInvalid(f)
  /\ UNCHANGED autoloads

\* load runs a file each time.
Load(f) ==
  /\ f \in Files
  /\ Run(f, FALSE, features)
  /\ UNCHANGED autoloads

\* autoload :Const, "file".
Autoload(f) ==
  /\ f \in Files \ autoloads
  /\ autoloads' = autoloads \cup {f}
  /\ answer' = NoAnswer
  /\ UNCHANGED <<features, consts, programs>>
  /\ Quiet

\* b_getconst of a constant that is not defined: take_autoload, then require.
\* Only once it is defined, or its file is loaded, does it answer.
ReadConst(f) ==
  /\ f \in autoloads \ consts
  /\ autoloads' = autoloads \ {f}
  /\ RequireNew(f) \/ RequireAgain(f, "missing") \/ RequireInvalid(f)

\* The body of a file defines its constant.
Define ==
  /\ Body.loads \notin consts \cup {NoFile}
  /\ consts' = consts \cup {Body.loads}
  /\ answer' = NoAnswer
  /\ UNCHANGED <<features, autoloads, programs>>
  /\ Quiet

-----------------------------------------------------------------------------
(* Calling a block, and the end of a body.                                  *)

\* enter_code_file: pushed only when another file runs.
Foreign(file) == files[running] = <<>> \/ CurrentFile # file

\* run_proc_chunk, in context c.
CallBlock(c, b) ==
  LET file == procs[b.id].file
      pushed == Foreign(file)
  IN  /\ files' = IF pushed THEN [files EXCEPT ![running] = Append(@, file)] ELSE files
      /\ Enter(c, b.id, procs[b.id].code, b.program, file, pushed, NoFile, FALSE)
      /\ answer' = NoAnswer
      /\ UNCHANGED <<host, programs, started, ended>>

Call(b) == CallBlock(me, b) /\ UNCHANGED <<chain, running, mixed, interrupted>>

\* Mutant: a body that raises skips the pop.
PopsUnlessRaised(raised) == Body.pushed /\ ~raised

\* leave_code_file, pop_file_dir: also when the body raised.
Pops(raised) == Body.pushed

\* The body ends or raises: its VM goes back to the pool, the file stack is
\* popped.  A caller may rescue the exception and go on, or end the same way.
End(raised) ==
  /\ stack' = [stack EXCEPT ![me] = Front(@)]
  /\ pool' = [pool EXCEPT ![running] = PutBack([id |-> Body.id, code |-> Body.runs])]
  /\ files' = IF Pops(raised) THEN [files EXCEPT ![running] = Front(@)] ELSE files
  /\ ended' = ended \cup ({Body.loads} \ {NoFile})
  /\ answer' = NoAnswer
  /\ UNCHANGED <<host, chain, running, programs, calls, started, mixed, interrupted>>

-----------------------------------------------------------------------------
(* Control moves between contexts.                                          *)

Interrupts == interrupted' = (interrupted \/ Loading(me) # {})

\* What runs was resumed by another context of the thread.
GivesBack == Len(chain[running]) > 1

\* A thread loses the GVL in a body, or at its own end.
Leaves == Busy \/ ~GivesBack

\* The GVL passes to another thread that is in the middle of a body ...
SwitchThread(t) ==
  /\ Leaves /\ t # running
  /\ chain[t] # <<>> /\ stack[Active(t)] # <<>>
  /\ running' = t
  /\ answer' = NoAnswer
  /\ Interrupts
  /\ UNCHANGED <<host, files, pool, stack, chain, programs, calls, started, ended,
                 mixed>>

\* ... or to a new one, which starts with a block and nothing of its own.
Fresh(t) == \A c \in Contexts : On[c] = t => stack[c] = <<>>

StartThread(c, b) ==
  LET t == On[c]
      file == procs[b.id].file
  IN  /\ Leaves /\ t # On[Main] /\ Fresh(t)
      /\ calls < MaxCalls /\ calls' = calls + 1
      /\ running' = t
      /\ chain' = [chain EXCEPT ![t] = <<c>>]
      /\ files' = [files EXCEPT ![t] = <<file>>]
      /\ pool' = [pool EXCEPT ![t] = <<>>]
      /\ stack' = [stack EXCEPT ![c] = <<[id |-> b.id, runs |-> procs[b.id].code,
                     wanted |-> b.program, file |-> file, pushed |-> TRUE,
                     loads |-> NoFile, require |-> FALSE]>>]
      /\ answer' = NoAnswer
      /\ mixed' = mixed \ {t}
      /\ Interrupts
      /\ UNCHANGED <<host, programs, started, ended>>

\* A fiber is resumed for the first time, and runs its block ...
StartFiber(c, b) ==
  /\ On[c] = running /\ c # me /\ stack[c] = <<>> /\ Busy
  /\ CallBlock(c, b)
  /\ chain' = [chain EXCEPT ![running] = Append(@, c)]
  /\ Interrupts
  /\ UNCHANGED <<running, mixed>>

\* Control moves to another context of the thread, whose bodies are left as
\* they are, and so is the file stack.
SwitchTo(chain_, mixed_) ==
  /\ chain' = [chain EXCEPT ![running] = chain_]
  /\ mixed' = mixed_
  /\ answer' = NoAnswer
  /\ Interrupts
  /\ UNCHANGED <<host, files, pool, stack, running, programs, calls, started, ended>>

Waiting == {chain[running][i] : i \in DOMAIN chain[running]}

\* ... one that had yielded is resumed again; it was in the middle of its bodies ...
Resume(c) ==
  /\ On[c] = running /\ c \notin Waiting /\ stack[c] # <<>> /\ Busy
  /\ SwitchTo(Append(chain[running], c), mixed \cup {running})

\* ... and gives control back to whoever resumed it, in the middle of its bodies
\* or at its end.
Yield == GivesBack /\ Busy /\ SwitchTo(Front(chain[running]), mixed \cup {running})
EndFiber == GivesBack /\ ~Busy /\ SwitchTo(Front(chain[running]), mixed)

-----------------------------------------------------------------------------
(* A run of the interpreter.                                                *)

\* Mutant: the pool survives the host its indices belong to.
PoolsKept == pool
PoolsReset == [t \in Threads |-> <<>>]

NoneStarted == [f \in Loadable |-> 0]
NoneRuns == [t \in Threads |-> IF t = On[Main] THEN <<Main>> ELSE <<>>]

\* reset_host, and eval_file up to the start of the script.
StartRun ==
  /\ running = On[Main] /\ me = Main /\ ~Busy
  /\ Compiles
  /\ calls < MaxCalls /\ calls' = calls + 1
  /\ features' = {} /\ autoloads' = {} /\ consts' = {}
  /\ procs' = <<[code |-> programs', file |-> Script]>>
  /\ blocks' = {[program |-> programs', id |-> 1]}
  /\ files' = [t \in Threads |-> IF t = On[Main] THEN <<Script>> ELSE <<>>]
  /\ pool' = PoolsReset
  /\ stack' = [c \in Contexts |->
                 IF c = Main
                 THEN <<[id |-> NoId, runs |-> programs', wanted |-> programs',
                         file |-> Script, pushed |-> FALSE, loads |-> NoFile,
                         require |-> FALSE]>>
                 ELSE <<>>]
  /\ chain' = NoneRuns
  /\ started' = NoneStarted
  /\ ended' = {}
  /\ answer' = NoAnswer
  /\ mixed' = {}
  /\ interrupted' = FALSE
  /\ UNCHANGED running

Init ==
  /\ features = {} /\ autoloads = {} /\ consts = {}
  /\ procs = <<>> /\ blocks = {}
  /\ files = [t \in Threads |-> <<>>]
  /\ pool = [t \in Threads |-> <<>>]
  /\ stack = [c \in Contexts |-> <<>>]
  /\ chain = NoneRuns
  /\ running = On[Main]
  /\ programs = 0 /\ calls = 0
  /\ started = NoneStarted /\ ended = {} /\ answer = NoAnswer
  /\ mixed = {} /\ interrupted = FALSE

RubyStep ==
  /\ Busy
  /\ \/ \E f \in Loadable : Require(f)
     \/ \E f \in Files : Load(f) \/ Autoload(f) \/ ReadConst(f)
     \/ Define
     \/ \E b \in blocks : Call(b)
     \/ \E raised \in BOOLEAN : End(raised)

Switch ==
  \/ \E t \in Threads : SwitchThread(t)
  \/ \E c \in Contexts, b \in blocks : StartThread(c, b) \/ StartFiber(c, b)
  \/ \E c \in Contexts : Resume(c)
  \/ Yield \/ EndFiber

Next == RubyStep \/ Switch \/ StartRun

Spec == Init /\ [][Next]_vars

-----------------------------------------------------------------------------
(* Properties.                                                              *)

Id == Nat \cup {NoId}
Activation == [id : Id, runs : Nat, wanted : Nat, file : Files, pushed : BOOLEAN,
               loads : Loadable \cup {NoFile}, require : BOOLEAN]
VM == [id : Id, code : Nat]

\* The tables hold what their types say, and no pool more VMs than VM_POOL_MAX.
TypeOK ==
  /\ features \subseteq Loadable /\ autoloads \subseteq Files /\ consts \subseteq Loadable
  /\ procs \in Seq([code : Nat, file : Files])
  /\ blocks \subseteq [program : Nat, id : Nat]
  /\ files \in [Threads -> Seq(Files)]
  /\ pool \in [Threads -> Seq(VM)]
  /\ \A t \in Threads : Len(pool[t]) <= PoolMax
  /\ stack \in [Contexts -> Seq(Activation)]
  /\ chain \in [Threads -> Seq(Contexts)]
  /\ running \in Threads
  /\ programs \in 0..MaxPrograms /\ calls \in 0..MaxCalls
  /\ started \in [Loadable -> Nat]
  /\ ended \subseteq Loadable
  /\ answer \in [file : Loadable \cup {NoFile}, says : {"nothing", "loaded", "missing"}]
  /\ mixed \subseteq Threads
  /\ interrupted \in BOOLEAN

\* Whatever runs, a required file, a block of an earlier one, or a block of the
\* program another run left behind in the pool, it is the code that was asked
\* for: run_chunk_pooled, reset_host, load_merged.
RunsItsCode ==
  \A c \in Contexts : \A k \in DOMAIN stack[c] : stack[c][k].runs = stack[c][k].wanted

\* A body runs in the file it was written in, however it was reached and however
\* the bodies it called came to their end; a thread in which no fiber was left in
\* the middle.
OwnFile ==
  \A t \in Threads \ mixed :
    chain[t] # <<>> /\ stack[Active(t)] # <<>> =>
      files[t] # <<>> /\ Last(files[t]) = Last(stack[Active(t)]).file

\* Require runs a file once, through circles, autoloads and other threads.
LoadsOnce == \A f \in Loadable : started[f] <= 1

\* Who is told that a file is loaded, or that its constant is missing although
\* the file is, finds that its body came to an end, or is in the middle of it
\* itself; unless somebody lost control in the middle of a file.
AnswersLoaded ==
  answer # NoAnswer /\ ~interrupted =>
    answer.file \in ended \cup Loading(me)
=============================================================================
