----------------------------- MODULE RubyUnwind -----------------------------
(***************************************************************************)
(* How rubylang leaves a method, a block or a begin early: exceptions,     *)
(* ensure, return, break, next, retry, throw and the end of the program.   *)
(*                                                                         *)
(* Every body (method, block, clause of a begin) is a chunk of its own,    *)
(* run by a Rust call that answers Ok or Err.  A jump is one register of   *)
(* the host, `signal`, and an exception another, `pending_exc`; after each *)
(* call the caller's chunk goes on, or ends because the call answered Err  *)
(* or left a signal.  Each construct has an epilogue that decides what of  *)
(* this it keeps (host.rs run_begin, run_method, call_proc_self_ctx,       *)
(* run_main, run_at_exit_handlers; builtins.rs finish_block_call, catch).  *)
(*                                                                         *)
(* The Ruby program is arbitrary: a running chunk takes any step its place *)
(* in the program text allows, MaxActs steps in all, nested MaxDepth deep. *)
(***************************************************************************)
EXTENDS Naturals, Sequences, FiniteSets

CONSTANTS
    Tags,       \* tags of catch and throw
    None,       \* no signal, exception, block, status
    Steps,      \* the kinds of step the program uses, of StepKinds
    MaxActs,    \* bound: steps the Ruby program takes
    MaxDepth    \* bound: nested activations

StepKinds == {"call", "proc", "iterate", "catch", "begin", "return", "break",
              "next", "retry", "raise", "bare", "exit", "at_exit"}

ASSUME StepsAssumption == Steps \subseteq StepKinds
ASSUME BoundsAssumption == MaxActs \in Nat /\ MaxDepth \in Nat \ {0}

VARIABLES
    stack,        \* the nested Rust calls, outermost first
    result,       \* Running, or what the innermost of them answers
    signal,       \* RubyHost::signal
    pending_exc,  \* RubyHost::pending_exc
    bang,         \* the global $!
    lexical,      \* LEXICAL_BREAK: the break is the keyword's, not yet judged
    kept,         \* a proc or lambda the program holds in a variable
    at_exit_procs,
    status,       \* the exit status a handler decided; at the end, the status
    next,         \* steps taken, and the identity of what the next one makes
    goal,         \* history: where in the stack the last jump is to land
    verdict,      \* history: the last exception that reached the top
    strayed       \* history: the differences from Ruby met so far

control == <<stack, result, signal, pending_exc, bang, lexical, status>>
vars == <<control, kept, at_exit_procs, next, goal, verdict, strayed>>

-----------------------------------------------------------------------------
(* Exceptions, results and jumps *)

Exception == [id : Nat, kind : {"error", "exit"}, made : {"raised", "inferred"}]
Raised(n, k) == [id |-> n, kind |-> k, made |-> "raised"]

\* An Err(message) that came without an exception object: run_begin makes one
\* whose class it guesses from the message.
Inferred(n) == [id |-> n, kind |-> "error", made |-> "inferred"]

\* A jump, and what it is told of where it is to end; a proc or lambda (see
\* Literal).
Signals == [kind : {"return"}, to : Nat \cup {None}]
           \cup [kind : {"break", "next", "retry"}, to : {None}]
           \cup [kind : {"throw"}, to : Tags]
Proc == [home : Nat, adopt : Nat, lambda : BOOLEAN, ret : Nat]

ASSUME NoneAssumption == None \notin Exception \cup Signals \cup Proc \cup Nat

Running == [k |-> "run"]
Ok == [k |-> "ok"]
Err(e) == [k |-> "err", exc |-> e]
IsErr(r) == r.k = "err"

Jump(kind, to) == [kind |-> kind, to |-> to]
IsJump(s, kinds) == s # None /\ s.kind \in kinds

-----------------------------------------------------------------------------
(* The stack *)

Top == stack[Len(stack)]
Below == SubSeq(stack, 1, Len(stack) - 1)
WithTop(f) == Append(Below, f)

IsChunk(f) == f.kind \in {"main", "method", "block", "begin"}
IsUnit(f) == f.kind \in {"main", "method", "block"}

Largest(S) == IF S = {} THEN 0 ELSE CHOOSE i \in S : \A j \in S : j <= i

\* The method, block or main program whose text the running chunk is part of;
\* above it are only the begins it is inside of.
UnitIndex == Largest({i \in DOMAIN stack : IsUnit(stack[i])})
Unit == stack[UnitIndex]
Enclosing(phases) ==
    {i \in UnitIndex + 1 .. Len(stack) : stack[i].phase \in phases}
LoopIndex == Largest({i \in UnitIndex + 1 .. Len(stack) : stack[i].loop})

Home(u) == IF u.kind = "block" THEN u.blk.home ELSE u.id
ReturnsFrom(u) ==
    IF u.kind = "block" /\ ~u.blk.lambda THEN u.blk.ret ELSE u.id

Activation(id) == Largest({i \in DOMAIN stack : IsUnit(stack[i]) /\ stack[i].id = id})
SiteIndex(id) == Largest({i \in DOMAIN stack :
                              stack[i].kind = "site" /\ stack[i].id = id})
CatchIndex(t) == Largest({i \in DOMAIN stack :
                              stack[i].kind = "catch" /\ stack[i].tag = t})

\* Membership in BLOCK_HOMES and in catch_tags: a call pushes and pops them
\* around its callee, on every path.
BlockHomeIsLive(id) == SiteIndex(id) # 0
CatchTagUnchecked(t) == TRUE
CatchTagActive(t) == CatchIndex(t) # 0

\* current_block: a block yields to the block of the method it was written in.
CurrentBlock ==
    LET m == Activation(Home(Unit)) IN
    IF m = 0 \/ stack[m].kind # "method" THEN None ELSE stack[m].blk

\* A block literal evaluated by the current step: `home` is the method a
\* return leaves, `adopt` the call site a break leaves, `ret` (history) the
\* method or lambda that Ruby returns from.
Literal(lambda) == [home |-> Home(Unit), adopt |-> next, lambda |-> lambda,
                    ret |-> ReturnsFrom(Unit)]

Method(b) == [kind |-> "method", id |-> next, blk |-> b]
Block(b) == [kind |-> "block", id |-> next, blk |-> b]
Site == [kind |-> "site", id |-> next]
Builtin(takes) == [kind |-> "builtin", takes |-> takes]
CatchCall(t) == [kind |-> "catch", tag |-> t]
Main == [kind |-> "main", id |-> 0]
Ending(out) == [kind |-> "ending", out |-> out]
BeginBlock(clauses, ensure, loop) ==
    [kind |-> "begin", phase |-> "body", clauses |-> clauses, ensure |-> ensure,
     loop |-> loop, saved |-> Ok, exc |-> None, prev |-> None]

Signal(sg) == signal' = sg /\ goal' = IF sg = None THEN 0 ELSE goal

\* A call answered r: its caller's chunk goes on unless r is an error (abort)
\* or a signal is pending (propagate).
Settled(r, sg, s) ==
    IF ~IsErr(r) /\ sg = None /\ IsChunk(s[Len(s)]) THEN Running ELSE r

Answer(r, sg) ==
    /\ stack' = Below
    /\ Signal(sg)
    /\ result' = Settled(r, sg, Below)

\* with_builtin_frame: an Err that reaches a call without an object is given
\* one there.
Framed(r, sg) == IF IsErr(r) /\ sg = None /\ pending_exc = None
                 THEN Inferred(r.exc.id) ELSE pending_exc

AnswerCall(r, sg) == Answer(r, sg) /\ pending_exc' = Framed(r, sg)

-----------------------------------------------------------------------------
(* Where the code and Ruby part ways: the step that meets a difference marks
   the promise that no longer holds.
     "signal"  an ensure clause that runs because of a jump does more than
               jump or end: its first call halts it, an exception it raises
               does not replace the jump; or a break or throw leaves an ensure
               clause that runs because of an exception, and the Err wins; or
               the list of a rescue clause is left by a jump
     "taken"   a call with a literal block, a builtin, a begin in a loop or a
               lambda keeps a break or return aimed further out, because no
               signal says where it is to land
     "object"  the exception object in pending_exc is lost or belongs to another
               exception: a bare error finds one there already; or inside an
               ensure clause that runs because of an exception, another one is
               rescued, or a jump drops it and leaves its object
     "clause"  a rescue *list that raises skips the ensure clause          *)

Stray(S) == strayed' = strayed \cup S
When(b, mark) == IF b THEN {mark} ELSE {}

\* The begins above position g whose ensure clause runs with an Err kept.
Superseded(g) == {i \in g + 1 .. Len(stack) :
                     /\ stack[i].kind = "begin"
                     /\ stack[i].phase = "ensure"
                     /\ IsErr(stack[i].saved)}

\* The innermost call is inside of such a clause.
InsideOne == \E i \in Superseded(0) : i < Len(stack)

\* A jump takes the place of r.
Drops(r) == When(IsErr(r) /\ InsideOne, "object")

-----------------------------------------------------------------------------
(* Steps of the running program *)

CanRun == stack # <<>> /\ result = Running /\ IsChunk(Top)
CanAct == CanRun /\ next <= MaxActs /\ next' = next + 1

\* The running chunk holds statements: the list of a rescue clause does not.
InBody == CanRun /\ ~(Top.kind = "begin" /\ Top.phase = "match")

Enter(frames) ==
    /\ CanAct
    /\ Len(stack) + Len(frames) <= MaxDepth
    /\ stack' = stack \o frames
    /\ Stray(When(signal # None, "signal"))
    /\ UNCHANGED <<result, signal, pending_exc, bang, lexical, kept,
                   at_exit_procs, status, goal, verdict>>

\* m, and m { ... }: only a literal block makes the call a target of break.
Call == Enter(<<Method(None)>>)
CallWithBlock == Enter(<<Site, Method(Literal(FALSE))>>)
YieldUnchecked == CanRun /\ Enter(<<Block(CurrentBlock)>>)
Yield == CanRun /\ CurrentBlock # None /\ Enter(<<Block(CurrentBlock)>>)
CallKept == kept # None /\ Enter(<<Builtin(FALSE), Block(kept)>>)

\* list.map { ... } and list.map(&blk).  `takes`: the builtin ends at a break
\* by itself (map, loop), or leaves it to the call site (find).
Iterate(takes) == Enter(<<Site, Builtin(takes), Block(Literal(FALSE))>>)
Forward(takes) ==
    CanRun /\ CurrentBlock # None /\ Enter(<<Builtin(takes), Block(CurrentBlock)>>)

Catch(t) == Enter(<<Site, CatchCall(t), Block(Literal(FALSE))>>)

Begin(clauses, ensure, loop) ==
    /\ InBody
    /\ Enter(<<BeginBlock(clauses, ensure, loop)>>)

\* A call that returns at once: with a signal pending the chunk ends here.
Returns ==
    /\ CanAct
    /\ result' = IF signal = None THEN Running ELSE Ok
    /\ Stray(When(signal # None, "signal"))
    /\ UNCHANGED <<stack, signal, pending_exc, bang, lexical, status, goal, verdict>>

Keep(lambda) ==
    Returns /\ kept' = Literal(lambda) /\ UNCHANGED at_exit_procs
AtExit ==
    /\ Returns
    /\ at_exit_procs' = Append(at_exit_procs, Literal(FALSE))
    /\ UNCHANGED kept

\* A jump sets the signal, over one already there, and halts the chunk.
Leap(sg, g, lost) ==
    /\ CanAct
    /\ signal' = sg
    /\ goal' = g
    /\ result' = Ok
    /\ Stray(When(lost /\ Superseded(g) # {}, "signal"))
    /\ UNCHANGED <<stack, pending_exc, bang, kept, at_exit_procs, status, verdict>>

\* A return aims at its lambda, else its method, else the whole program.
Return ==
    /\ InBody
    /\ LET lam == Activation(ReturnsFrom(Unit))
           met == Activation(Home(Unit))
           g == IF lam # 0 THEN lam ELSE IF met # 0 THEN met ELSE 1
       IN  Leap(Jump("return", None), g, FALSE)
    /\ UNCHANGED lexical

\* break and next belong to the loop around the begin they are in, else to
\* the block: break to the call the block was written on, next to the block.
Break ==
    /\ InBody
    /\ LoopIndex # 0 \/ Unit.kind = "block"
    /\ LET g == IF LoopIndex # 0 THEN LoopIndex
                ELSE IF Unit.blk.lambda THEN UnitIndex
                ELSE SiteIndex(Unit.blk.adopt)
       IN  Leap(Jump("break", None), g, LoopIndex = 0 /\ ~Unit.blk.lambda)
    /\ lexical' = TRUE
NextIteration ==
    /\ InBody
    /\ LoopIndex # 0 \/ Unit.kind = "block"
    /\ Leap(Jump("next", None), IF LoopIndex # 0 THEN LoopIndex ELSE UnitIndex, FALSE)
    /\ UNCHANGED lexical
Retry ==
    /\ InBody
    /\ Enclosing({"rescue"}) # {}
    /\ Leap(Jump("retry", None), Largest(Enclosing({"rescue"})), FALSE)
    /\ UNCHANGED lexical

Throw(t) ==
    /\ CatchTagActive(t)
    /\ Leap(Jump("throw", t), CatchIndex(t), TRUE)
    /\ UNCHANGED lexical

Fail(e, pe, marks) ==
    /\ CanAct
    /\ result' = Err(e)
    /\ pending_exc' = pe
    /\ Stray(When(signal # None, "signal") \cup marks)
    /\ UNCHANGED <<stack, signal, bang, lexical, kept, at_exit_procs, status,
                   goal, verdict>>

\* raise, a raise without arguments (of $!), a throw without its catch, exit:
\* the object goes to pending_exc.
Raise == Fail(Raised(next, "error"), Raised(next, "error"), {})
Reraise == bang # None /\ Fail(bang, bang, {})
ThrowUncaught(t) ==
    ~CatchTagActive(t) /\ Fail(Raised(next, "error"), Raised(next, "error"), {})
Exit == Fail(Raised(next, "exit"), Raised(next, "exit"), {})

\* A builtin that answers Err(message) without raise_exc.  If it was `called`
\* (and is no operator or keyword of the chunk), its call gives it an object.
RaiseBare(called) ==
    Fail(Inferred(next),
         IF called THEN Framed(Err(Inferred(next)), signal) ELSE pending_exc,
         When(pending_exc # None, "object"))

\* The chunk runs to its end.
End ==
    /\ CanRun
    /\ result' = Ok
    /\ UNCHANGED <<stack, signal, pending_exc, bang, lexical, kept,
                   at_exit_procs, status, next, goal, verdict, strayed>>

-----------------------------------------------------------------------------
(* Epilogues of methods, blocks and calls *)

Over(kind) == stack # <<>> /\ result # Running /\ Top.kind = kind

rest == <<kept, at_exit_procs, status, verdict>>

PassesButBreak == {"return", "throw"}
MethodPasses == {"return", "throw", "break"}

\* run_method: its own return ends here, also one from a block of its; a
\* throw, a break and the return of another method go on.
MethodEnds ==
    /\ Over("method")
    /\ LET own == IsJump(signal, {"return"}) /\ signal.to \in {None, Top.id}
           passes == ~own /\ IsJump(signal, MethodPasses)
       IN  /\ AnswerCall(IF own THEN Ok ELSE result, IF passes THEN signal ELSE None)
           /\ Stray(IF own THEN Drops(result) ELSE {})
    /\ UNCHANGED <<rest, bang, lexical, next>>

BlockTakes == \/ IsJump(signal, {"next"})
              \/ IsJump(signal, {"return", "break"}) /\ Top.blk.lambda
OrphanBreak == /\ IsJump(signal, {"break"}) /\ ~Top.blk.lambda
               /\ lexical /\ ~BlockHomeIsLive(Top.blk.adopt)

\* call_proc_self_ctx: next, and in a lambda return and break, end the block;
\* a return is told which method it leaves, the first block it passes.
BlockEnds ==
    /\ Over("block")
    /\ ~OrphanBreak
    /\ IF BlockTakes THEN Answer(Ok, None)
       ELSE IF IsJump(signal, {"return"}) /\ signal.to = None
       THEN Answer(result, Jump("return", Top.blk.home))
       ELSE Answer(result, signal)
    /\ lexical' = IF IsJump(signal, {"break"}) /\ ~Top.blk.lambda THEN FALSE ELSE lexical
    /\ Stray(When(IsJump(signal, {"return", "break"}) /\ Top.blk.lambda
                  /\ goal # Len(stack), "taken")
             \cup IF BlockTakes THEN Drops(result) ELSE {})
    /\ UNCHANGED <<rest, pending_exc, bang, next>>

\* A break whose call site has returned is a LocalJumpError at the call.
BlockEndsOrphan ==
    /\ Over("block")
    /\ OrphanBreak
    /\ LET e == Raised(next, "error") IN Answer(Err(e), None) /\ pending_exc' = e
    /\ next' = next + 1
    /\ lexical' = FALSE
    /\ UNCHANGED <<rest, bang, strayed>>

\* finish_block_call: a call with a literal block ends its break.
SiteEnds ==
    /\ Over("site")
    /\ LET takes == ~IsErr(result) /\ IsJump(signal, {"break"}) IN
       /\ IF takes THEN AnswerCall(Ok, None) ELSE AnswerCall(result, signal)
       /\ Stray(When(takes /\ goal # Len(stack), "taken"))
    /\ UNCHANGED <<rest, bang, lexical, next>>

BuiltinEnds ==
    /\ Over("builtin")
    /\ LET takes == Top.takes /\ ~IsErr(result) /\ IsJump(signal, {"break"}) IN
       /\ IF takes THEN AnswerCall(Ok, None) ELSE AnswerCall(result, signal)
       /\ Stray(When(takes /\ ~(goal = Len(stack) - 1 /\ stack[goal].kind = "site"),
                     "taken"))
    /\ UNCHANGED <<rest, bang, lexical, next>>

CatchEnds ==
    /\ Over("catch")
    /\ IF ~IsErr(result) /\ signal = Jump("throw", Top.tag)
       THEN AnswerCall(Ok, None)
       ELSE AnswerCall(result, signal)
    /\ UNCHANGED <<rest, bang, lexical, next, strayed>>

-----------------------------------------------------------------------------
(* run_begin *)

\* The begin is over; in a native loop a pending break or next is the loop's.
LoopKeeps == Top.loop /\ IsJump(signal, {"break", "next"})
LeaveBegin(r, marks) ==
    IF LoopKeeps
    THEN /\ stack' = Below /\ Signal(None) /\ result' = Running
         /\ Stray(marks \cup Drops(r) \cup When(goal # Len(stack), "taken"))
    ELSE Answer(r, signal) /\ Stray(marks)

\* Body and rescue clauses are done with r, pe the pending exception and b
\* the value of $!: the ensure clause runs, if there is one.
Conclude(r, pe, b, marks) ==
    LET flying == IF IsErr(r) /\ signal = None THEN pe ELSE None IN
    /\ pending_exc' = pe
    /\ IF Top.ensure
       THEN /\ stack' = WithTop([Top EXCEPT !.phase = "ensure", !.saved = r,
                                            !.exc = flying, !.prev = b])
            /\ bang' = IF flying = None THEN b ELSE flying
            /\ result' = Running
            /\ UNCHANGED <<signal, goal>>
            /\ Stray(marks)
       ELSE LeaveBegin(r, marks) /\ bang' = b
    /\ UNCHANGED <<rest, lexical, next>>

InPhase(p) == Over("begin") /\ Top.phase = p

BodyJumpsOut ==
    /\ InPhase("body")
    /\ ~IsErr(result) \/ signal # None
    /\ IF signal = None THEN Conclude(result, pending_exc, bang, {})
       ELSE LeaveBegin(result, {}) /\ UNCHANGED <<rest, pending_exc, bang, lexical, next>>

\* Nothing to rescue: the body ended, or a jump is on its way.
BodyEnds ==
    /\ InPhase("body")
    /\ ~IsErr(result) \/ signal # None
    /\ Conclude(result, pending_exc, bang, {})

\* The clause matches: $! is the exception while it runs.
Handle(r, exc, marks) ==
    /\ stack' = WithTop([Top EXCEPT !.phase = "rescue", !.saved = r,
                                    !.exc = exc, !.prev = bang])
    /\ bang' = exc
    /\ result' = Running
    /\ pending_exc' = None
    /\ Stray(marks \cup When(InsideOne, "object"))
    /\ UNCHANGED <<rest, signal, goal, lexical, next>>

\* The object of the exception raised; an Err that has none is given one.
Guessed == Inferred(result.exc.id)
Object == IF pending_exc = None THEN Guessed ELSE pending_exc

BodyRaised ==
    /\ InPhase("body")
    /\ IsErr(result) /\ signal = None
    /\ \/ Top.clauses # "list" /\ Conclude(result, Object, bang, {})
       \/ Top.clauses = "classes" /\ Handle(result, Object, {})
       \/ /\ Top.clauses = "list"
          /\ stack' = WithTop([Top EXCEPT !.phase = "match", !.saved = result,
                                          !.exc = Object])
          /\ result' = Running
          /\ pending_exc' = None
          /\ UNCHANGED <<rest, signal, goal, bang, lexical, next, strayed>>

\* rescue *list: the list is evaluated by a chunk of its own.
MatchEnds ==
    /\ InPhase("match")
    /\ ~IsErr(result)
    /\ LET marks == When(signal # None, "signal") IN
       \/ Conclude(Top.saved, Top.exc, bang, marks)
       \/ Handle(Top.saved, Top.exc, marks)
MatchRaised ==
    /\ InPhase("match")
    /\ IsErr(result)
    /\ LeaveBegin(result, When(Top.ensure, "clause"))
    /\ UNCHANGED <<rest, pending_exc, bang, lexical, next>>

RescueEndsEarly ==
    /\ InPhase("rescue")
    /\ ~IsJump(signal, {"retry"})
    /\ Conclude(result, pending_exc, IF IsErr(result) THEN bang ELSE Top.prev, {})
RescueEnds ==
    /\ InPhase("rescue")
    /\ ~IsJump(signal, {"retry"})
    /\ Conclude(result, pending_exc, Top.prev, {})
RescueRetries ==
    /\ InPhase("rescue")
    /\ IsJump(signal, {"retry"})
    /\ stack' = WithTop([Top EXCEPT !.phase = "body", !.saved = Ok,
                                    !.exc = None, !.prev = None])
    /\ bang' = Top.prev
    /\ Signal(None)
    /\ result' = Running
    /\ Stray(Drops(result))
    /\ UNCHANGED <<rest, pending_exc, lexical, next>>

\* What the ensure clause raises replaces the result; what it answers does not.
EnsureEnds ==
    /\ InPhase("ensure")
    /\ LeaveBegin(IF IsErr(result) THEN result ELSE Top.saved, {})
    /\ bang' = IF Top.exc = None THEN bang ELSE Top.prev
    /\ UNCHANGED <<rest, pending_exc, lexical, next>>

-----------------------------------------------------------------------------
(* The end of the program *)

ExitCode(exc) == IF exc # None /\ exc.kind = "exit" THEN 0 ELSE 1

\* run_main: no signal survives; an uncaught exception is reported (status 1),
\* a SystemExit is not (its own status, here 0).
MainEnds ==
    /\ Over("main")
    /\ LET uncaught == IsJump(signal, {"throw"}) IN
       /\ stack' = <<Ending(IF uncaught THEN 1
                            ELSE IF IsErr(result) THEN ExitCode(pending_exc) ELSE 0)>>
       /\ pending_exc' = IF IsErr(result) /\ ~uncaught THEN None ELSE pending_exc
       /\ verdict' = IF IsErr(result) THEN result.exc ELSE None
    /\ Signal(None)
    /\ result' = Running
    /\ UNCHANGED <<kept, at_exit_procs, status, bang, lexical, next, strayed>>

\* run_at_exit_handlers: last registered first.
HandlerRuns ==
    /\ stack # <<>> /\ Top.kind = "ending" /\ result = Running
    /\ at_exit_procs # <<>>
    /\ LET n == Len(at_exit_procs) IN
       /\ stack' = Append(stack, Block(at_exit_procs[n]))
       /\ at_exit_procs' = SubSeq(at_exit_procs, 1, n - 1)
    /\ next' = next + 1
    /\ UNCHANGED <<result, signal, pending_exc, bang, lexical, kept, status, goal,
                   verdict, strayed>>

HandlerEnds ==
    /\ Over("ending")
    /\ result' = Running
    /\ IF IsErr(result)
       THEN /\ Signal(None)
            /\ status' = ExitCode(pending_exc)
            /\ pending_exc' = None
            /\ verdict' = result.exc
       ELSE UNCHANGED <<signal, goal, status, pending_exc, verdict>>
    /\ UNCHANGED <<stack, bang, lexical, kept, at_exit_procs, next, strayed>>

ScriptStatus == Top.out
FinalStatus == IF status = None THEN Top.out ELSE status

Finish ==
    /\ stack # <<>> /\ Top.kind = "ending" /\ result = Running
    /\ at_exit_procs = <<>>
    /\ stack' = <<>>
    /\ status' = FinalStatus
    /\ UNCHANGED <<result, signal, pending_exc, bang, lexical, kept, at_exit_procs,
                   next, goal, verdict, strayed>>

Terminated == stack = <<>> /\ UNCHANGED vars

-----------------------------------------------------------------------------
Init ==
    /\ stack = <<Main>>
    /\ result = Running
    /\ signal = None
    /\ pending_exc = None
    /\ bang = None
    /\ lexical = FALSE
    /\ kept = None
    /\ at_exit_procs = <<>>
    /\ status = None
    /\ next = 1
    /\ goal = 0
    /\ verdict = None
    /\ strayed = {}

ProgramStep ==
    \/ "call" \in Steps /\ (Call \/ CallWithBlock \/ Yield)
    \/ "proc" \in Steps /\ (CallKept \/ \E b \in BOOLEAN : Keep(b))
    \/ "iterate" \in Steps /\ \E b \in BOOLEAN : Iterate(b) \/ Forward(b)
    \/ "catch" \in Steps /\ \E t \in Tags : Catch(t) \/ Throw(t) \/ ThrowUncaught(t)
    \/ "begin" \in Steps
       /\ \E c \in {"none", "classes", "list"}, e, l \in BOOLEAN :
             (c # "none" \/ e) /\ Begin(c, e, l)
    \/ "return" \in Steps /\ Return
    \/ "break" \in Steps /\ Break
    \/ "next" \in Steps /\ NextIteration
    \/ "retry" \in Steps /\ Retry
    \/ "raise" \in Steps /\ (Raise \/ Reraise)
    \/ "bare" \in Steps /\ \E b \in BOOLEAN : RaiseBare(b)
    \/ "exit" \in Steps /\ Exit
    \/ "at_exit" \in Steps /\ AtExit
    \/ End

Epilogue ==
    \/ MethodEnds \/ BlockEnds \/ BlockEndsOrphan
    \/ SiteEnds \/ BuiltinEnds \/ CatchEnds
    \/ BodyEnds \/ BodyRaised \/ MatchEnds \/ MatchRaised
    \/ RescueEnds \/ RescueRetries \/ EnsureEnds
    \/ MainEnds \/ HandlerRuns \/ HandlerEnds \/ Finish

Next == ProgramStep \/ Epilogue \/ Terminated

Spec == Init /\ [][Next]_vars

-----------------------------------------------------------------------------
(* Properties *)

MaybeProc == Proc \cup {None}
MaybeException == Exception \cup {None}
Result == {Running, Ok} \cup [k : {"err"}, exc : Exception]
Frame == {Main}
         \cup [kind : {"method"}, id : Nat, blk : MaybeProc]
         \cup [kind : {"block"}, id : Nat, blk : Proc]
         \cup [kind : {"site"}, id : Nat]
         \cup [kind : {"builtin"}, takes : BOOLEAN]
         \cup [kind : {"catch"}, tag : Tags]
         \cup [kind : {"begin"}, phase : {"body", "match", "rescue", "ensure"},
               clauses : {"none", "classes", "list"}, ensure : BOOLEAN,
               loop : BOOLEAN, saved : Result, exc : MaybeException,
               prev : MaybeException]
         \cup [kind : {"ending"}, out : {0, 1}]

\* Every register and every activation holds what its type says.
TypeOK ==
    /\ stack \in Seq(Frame)
    /\ result \in Result
    /\ signal \in Signals \cup {None}
    /\ pending_exc \in MaybeException
    /\ bang \in MaybeException
    /\ lexical \in BOOLEAN
    /\ kept \in MaybeProc
    /\ at_exit_procs \in Seq(Proc)
    /\ status \in {None, 0, 1}
    /\ next \in Nat
    /\ goal \in Nat
    /\ verdict \in MaybeException
    /\ strayed \subseteq {"signal", "taken", "object", "clause"}

\* A jump stops only where Ruby says it does: return at its method or lambda,
\* break at the call its block was written on (or in the builtin that call
\* runs) or at its loop, next at its block or loop, retry at its begin, throw
\* at its catch; a break whose call is over stops as a LocalJumpError.
AtGoal == \/ goal = Len(stack)
          \/ Top.kind = "builtin" /\ goal = Len(stack) - 1 /\ stack[goal].kind = "site"
          \/ goal = 0 /\ Top.kind = "block" /\ IsErr(result')
JumpLands ==
    [][signal # None /\ signal' = None /\ strayed' \cap {"signal", "taken"} = {}
       => AtGoal]_vars

\* A begin with an ensure clause is left only out of that clause, whatever the
\* body and the rescue clauses did; and the clause is begun once, and what it
\* found stays as it was till it is over.  host.rs 13763 promises it without a
\* condition ("`ensure` always runs").  Here it is not said of a program in
\* which the list of a rescue clause raised ("clause"), and not of one in which
\* an ensure clause was entered with a jump pending and did more than end or
\* jump ("signal"): its first call, or its first raise, cuts it short.
EnsureRuns ==
    [][\A i \in DOMAIN stack :
          /\ stack[i].kind = "begin" /\ stack[i].ensure
          /\ strayed' \cap {"clause", "signal"} = {}
          => IF i \in DOMAIN stack'
             THEN stack[i].phase = "ensure" => stack'[i] = stack[i]
             ELSE stack[i].phase = "ensure"]_vars

\* A rescue clause is given the exception that was raised, the object and not
\* a copy guessed from the message.
RescuesTheRaised ==
    \A i \in DOMAIN stack :
        stack[i].kind = "begin" /\ stack[i].phase = "rescue"
        => stack[i].exc = stack[i].saved.exc
RescuesTheRaisedBarring == "object" \in strayed \/ RescuesTheRaised

\* $! is the exception of the innermost rescue clause that runs, or of the
\* innermost ensure clause that runs because of one; outside of them it is nil.
Handling == {i \in DOMAIN stack :
                /\ stack[i].kind = "begin"
                /\ \/ stack[i].phase = "rescue"
                   \/ stack[i].phase = "ensure" /\ stack[i].exc # None}
BangIsHandled ==
    "object" \notin strayed
    => bang = IF Handling = {} THEN None ELSE stack[Largest(Handling)].saved.exc

\* A throw on its way always has a catch of its tag to reach: run_main's
\* "uncaught throw" is never needed.  Not said of a program that met the mark
\* "signal".
ThrowHasCatch ==
    "signal" \notin strayed /\ IsJump(signal, {"throw"}) => CatchIndex(signal.to) # 0

\* The exit status is 1 if the last exception to reach the top, from the
\* program or from an at_exit handler, was an error, and that of the SystemExit
\* (here 0), or 0, if it was not; in programs that met neither the mark
\* "object" nor "signal".
ExitStatusIsLast ==
    stack = <<>> /\ strayed \cap {"object", "signal"} = {}
    => status = IF verdict # None /\ verdict.kind = "error" THEN 1 ELSE 0
=============================================================================
