---------------------------- MODULE DebugSession ----------------------------
(***************************************************************************)
(* The debug adapter (dap.rs): one thread that serves the client's         *)
(* requests, runs the program, and at each statement's line marker decides *)
(* whether to stop.  While the program runs nobody reads the requests, and *)
(* nobody reads the pipe its standard output goes to.                      *)
(*                                                                         *)
(* The program calls, returns (or unwinds), switches fibers, writes and    *)
(* runs markers as it likes.  The adapter sees it by its frames only, and  *)
(* a switch replaces them all: each fiber has its own.                     *)
(* Requests that change nothing (threads, stackTrace, pause...) are one.   *)
(***************************************************************************)
EXTENDS Naturals, Sequences, Functions

CONSTANTS
    Names,         \* the program's methods
    Lines,         \* source lines
    Marked,        \* the lines that carry a marker
    None,
    PipeCap,       \* what the pipe holds
    MaxFibers,     \* bound: fibers the program makes
    MaxDepth,      \* bound: frames of a fiber
    MaxSteps,      \* bound: calls, resumes, writes and markers of the program
    MaxRequests    \* bound: requests of the client

ASSUME LinesAssumption == Marked \subseteq Lines
ASSUME NoneAssumption == None \notin Lines \cup Names
ASSUME BoundsAssumption ==
    {PipeCap, MaxFibers, MaxDepth, MaxSteps, MaxRequests} \subseteq Nat

VARIABLES
    phase,         \* "idle", "running", "stopped", "over", "hung" or "gone"
    stacks,        \* the frames of each fiber, outermost first; none if it
                   \* is not made yet, or has ended
    current,       \* the fiber whose frames the host has
    callers,       \* the fibers that wait in a resume, outermost first
    fibers,        \* how many the program has made
    breakpoints, function_breakpoints, last_depth, mode,
    inbox,         \* requests the client wrote and the adapter has not read
    closed,        \* the client has closed its end
    buffered,      \* output still in the process's own buffer
    pipe,          \* output in the pipe
    forwarded,     \* output sent as events
    steps, requests,
    written,       \* history: output the program produced
    marked_last,   \* history: the fiber of the last marker and which of its
                   \* frames that was, 0 once that one has returned
    origin         \* history: the fiber in which the program was last resumed,
                   \* its depth, and how many of its frames are still there

session == <<breakpoints, function_breakpoints, mode, inbox, closed, requests>>
output == <<buffered, pipe, forwarded, written>>
switches == <<current, callers, fibers>>
program == <<stacks, switches>>
history == <<marked_last, origin>>
vars == <<phase, program, last_depth, session, output, steps, history>>

Main == 0          \* what is no fiber
Fibers == Main .. MaxFibers
Frame(n) == [name |-> n, line |-> None]
Nobody == [in |-> Main, at |-> 0]

frames == stacks[current]
Top == frames[Len(frames)]
Depth == Len(frames)
Mode(kind, d) == [kind |-> kind, depth |-> d]
Resumes == {"continue", "next", "stepIn", "stepOut"}

-----------------------------------------------------------------------------
(* The client: it resumes a stopped program once, and launches once. *)

Write(r) ==
    /\ ~closed /\ phase \notin {"hung", "gone"} /\ requests < MaxRequests
    /\ inbox' = Append(inbox, r)
    /\ requests' = requests + 1
    /\ UNCHANGED <<phase, program, breakpoints, function_breakpoints, last_depth, mode,
                   closed, output, steps, history>>

Asked(cmds) == \E i \in DOMAIN inbox : inbox[i].cmd \in cmds

SetBreakpoints == \E L \in SUBSET Lines : Write([cmd |-> "setBreakpoints", of |-> L])
SetFunctionBreakpoints ==
    \E N \in SUBSET Names : Write([cmd |-> "setFunctionBreakpoints", of |-> N])
Launch == phase \in {"idle", "over"} /\ ~Asked({"launch"}) /\ Write([cmd |-> "launch", of |-> {}])
Resume == /\ phase = "stopped" /\ ~Asked(Resumes)
          /\ \E c \in Resumes : Write([cmd |-> c, of |-> {}])
Query == Write([cmd |-> "pause", of |-> {}])
Disconnect == Write([cmd |-> "disconnect", of |-> {}])
Close == /\ ~closed /\ closed' = TRUE
         /\ UNCHANGED <<phase, program, breakpoints, function_breakpoints, last_depth, mode,
                        inbox, requests, output, steps, history>>

-----------------------------------------------------------------------------
(* Serving requests *)

Take(cmd) == /\ inbox # <<>> /\ Head(inbox).cmd = cmd
             /\ inbox' = Tail(inbox)
             /\ UNCHANGED <<closed, requests>>
Reading == phase \in {"idle", "stopped", "over"}

ServeBreakpoints ==
    /\ Reading /\ Take("setBreakpoints")
    /\ breakpoints' = Head(inbox).of
    /\ UNCHANGED <<phase, program, function_breakpoints, last_depth, mode, output,
                   steps, history>>
ServeFunctionBreakpoints ==
    /\ Reading /\ Take("setFunctionBreakpoints")
    /\ function_breakpoints' = Head(inbox).of
    /\ UNCHANGED <<phase, program, breakpoints, last_depth, mode, output,
                   steps, history>>

\* A request that is only answered; a resume makes no sense to a program that
\* is not stopped, nor a launch to one that is.
ServeOther ==
    /\ Reading
    /\ \/ Take("pause")
       \/ phase = "stopped" /\ Take("launch")
       \/ phase # "stopped" /\ \E c \in Resumes : Take(c)
    /\ UNCHANGED <<phase, program, breakpoints, function_breakpoints, last_depth, mode,
                   output, steps, history>>

ServeLaunch ==
    /\ phase \in {"idle", "over"} /\ Take("launch")
    /\ phase' = "running"
    /\ stacks' = [f \in Fibers |-> IF f = Main THEN <<Frame(None)>> ELSE <<>>]
    /\ current' = Main /\ callers' = <<>> /\ fibers' = 0
    /\ mode' = Mode("continue", 0)
    /\ marked_last' = Nobody
    /\ UNCHANGED <<breakpoints, function_breakpoints, last_depth, output, steps, origin>>

\* handle_stopped: the step is counted from the depth of the stop.
RunOn(m) ==
    /\ phase' = "running"
    /\ mode' = m
    /\ origin' = [in |-> current, depth |-> Depth, live |-> Depth]
    /\ UNCHANGED <<program, breakpoints, function_breakpoints, last_depth, output,
                   steps, marked_last>>
ServeResume ==
    /\ phase = "stopped"
    /\ \/ Take("continue") /\ RunOn(Mode("continue", 0))
       \/ Take("stepIn") /\ RunOn(Mode("in", 0))
       \/ Take("next") /\ RunOn(Mode("over", Depth))
       \/ Take("stepOut") /\ RunOn(Mode("out", Depth))
       \/ Take("disconnect") /\ RunOn(Mode("continue", 0))

\* The client is gone: a stopped program runs on, the adapter's loop ends.
EndOfInput == inbox = <<>> /\ closed
StayStopped == phase = "stopped" /\ EndOfInput /\ UNCHANGED vars
RunAlone ==
    /\ phase = "stopped" /\ EndOfInput
    /\ RunOn(Mode("continue", 0))
    /\ UNCHANGED <<inbox, closed, requests>>
Leave ==
    /\ phase \in {"idle", "over"}
    /\ \/ Take("disconnect")
       \/ EndOfInput /\ UNCHANGED <<inbox, closed, requests>>
    /\ phase' = "gone"
    /\ UNCHANGED <<program, breakpoints, function_breakpoints, last_depth, mode, output,
                   steps, history>>

-----------------------------------------------------------------------------
(* The program *)

Step == /\ phase = "running" /\ steps < MaxSteps
        /\ steps' = steps + 1
        /\ UNCHANGED session

\* A method is called, or a string or a file evaluated, which has no name.
Call == \E n \in Names \cup {None} :
    /\ Step
    /\ Depth < MaxDepth
    /\ stacks' = [stacks EXCEPT ![current] = Append(@, Frame(n))]
    /\ UNCHANGED <<phase, switches, last_depth, output, history>>

\* The top frame goes, for the history.
TopGoes ==
    /\ marked_last' = IF marked_last = [in |-> current, at |-> Depth]
                      THEN [marked_last EXCEPT !.at = 0] ELSE marked_last
    /\ origin' = IF origin.in = current /\ origin.live = Depth
                 THEN [origin EXCEPT !.live = Depth - 1] ELSE origin

\* A method returns, or an exception leaves it.
Return ==
    /\ phase = "running" /\ Depth > 1
    /\ stacks' = [stacks EXCEPT ![current] = SubSeq(@, 1, Depth - 1)]
    /\ TopGoes
    /\ UNCHANGED <<phase, switches, last_depth, session, output, steps>>

\* new_fiber: nothing runs yet.
NewFiber ==
    /\ phase = "running" /\ fibers < MaxFibers
    /\ fibers' = fibers + 1
    /\ stacks' = [stacks EXCEPT ![fibers + 1] = <<Frame(None)>>]
    /\ UNCHANGED <<phase, current, callers, last_depth, session, output, steps, history>>

\* fiber_resume puts the fiber's frames in the place of the caller's ...
ResumeFiber == \E f \in 1 .. fibers :
    /\ Step
    /\ stacks[f] # <<>> /\ f \notin {current} \cup Range(callers)
    /\ current' = f /\ callers' = Append(callers, current)
    /\ UNCHANGED <<phase, stacks, fibers, last_depth, output, history>>

\* ... and the caller's back when the fiber yields ...
BackToCaller ==
    /\ phase = "running" /\ callers # <<>>
    /\ current' = callers[Len(callers)]
    /\ callers' = SubSeq(callers, 1, Len(callers) - 1)
    /\ UNCHANGED <<phase, fibers, last_depth, session, output, steps>>
YieldFiber == BackToCaller /\ UNCHANGED <<stacks, history>>

\* ... or its block is over.
FiberEnds ==
    /\ Depth = 1 /\ BackToCaller
    /\ stacks' = [stacks EXCEPT ![current] = <<>>]
    /\ TopGoes

\* Output goes to the buffer, and at a newline to the pipe; if it does not fit
\* the write waits for a reader, who is the very thread that waits.
Echo ==
    /\ Step
    /\ buffered' = buffered + 1
    /\ written' = written + 1
    /\ UNCHANGED <<phase, program, last_depth, pipe, forwarded, history>>
Fits(n) == pipe + n <= PipeCap
Puts ==
    /\ Step
    /\ written' = written + 1
    /\ IF Fits(buffered + 1)
       THEN /\ pipe' = pipe + buffered + 1
            /\ buffered' = 0
            /\ UNCHANGED phase
       ELSE phase' = "hung" /\ UNCHANGED <<pipe, buffered>>
    /\ UNCHANGED <<program, last_depth, forwarded, history>>

\* on_debug_line.
AtBreakpoint(l) == l \in breakpoints \cap Marked
AtEntry == Depth > last_depth /\ Top.name \in function_breakpoints
StepOutEarly == \/ mode.kind = "in"
                \/ mode.kind \in {"over", "out"} /\ Depth <= mode.depth
StepDone == \/ mode.kind = "in"
            \/ mode.kind = "over" /\ Depth <= mode.depth
            \/ mode.kind = "out" /\ Depth < mode.depth

Marker == \E l \in Marked :
    /\ Step
    /\ last_depth' = Depth
    /\ stacks' = [stacks EXCEPT ![current][Depth].line = l]
    /\ marked_last' = [in |-> current, at |-> Depth]
    /\ IF AtBreakpoint(l) \/ AtEntry \/ StepDone
       THEN phase' = "stopped" /\ forwarded' = forwarded + pipe /\ pipe' = 0
       ELSE UNCHANGED <<phase, forwarded, pipe>>
    /\ UNCHANGED <<switches, buffered, written, origin>>

NoProgram ==
    /\ stacks' = [f \in Fibers |-> <<>>]
    /\ current' = Main /\ callers' = <<>> /\ fibers' = 0

\* launch, once the program has ended: flush, forward what is left, and send
\* `terminated`.
Finished(sent) ==
    /\ phase = "running" /\ current = Main /\ Depth = 1
    /\ IF Fits(buffered)
       THEN /\ phase' = "over"
            /\ forwarded' = forwarded + sent
            /\ buffered' = 0 /\ pipe' = 0
            /\ UNCHANGED written
       ELSE phase' = "hung" /\ UNCHANGED output
    /\ NoProgram
    /\ UNCHANGED <<last_depth, session, steps, history>>
FinishUnflushed == Finished(pipe)
Finish == Finished(pipe + buffered)

\* exit in the program: run_main ends the process there and then.
Exit ==
    /\ phase = "running"
    /\ phase' = "gone"
    /\ NoProgram
    /\ UNCHANGED <<last_depth, session, output, steps, history>>

-----------------------------------------------------------------------------
Init ==
    /\ phase = "idle"
    /\ stacks = [f \in Fibers |-> <<>>]
    /\ current = Main /\ callers = <<>> /\ fibers = 0
    /\ breakpoints = {} /\ function_breakpoints = {}
    /\ last_depth = 0
    /\ mode = Mode("continue", 0)
    /\ inbox = <<>> /\ closed = FALSE
    /\ buffered = 0 /\ pipe = 0 /\ forwarded = 0 /\ written = 0
    /\ steps = 0 /\ requests = 0
    /\ marked_last = Nobody
    /\ origin = [in |-> Main, depth |-> 0, live |-> 0]

Client == SetBreakpoints \/ SetFunctionBreakpoints \/ Launch \/ Resume \/ Query
          \/ Disconnect \/ Close
Adapter == ServeBreakpoints \/ ServeFunctionBreakpoints \/ ServeOther \/ ServeLaunch
           \/ ServeResume \/ RunAlone \/ Leave
Debuggee == Call \/ Return \/ NewFiber \/ ResumeFiber \/ YieldFiber \/ FiberEnds
            \/ Echo \/ Puts \/ Marker \/ Finish \/ Exit

Next == Client \/ Adapter \/ Debuggee

\* The adapter's thread serves and runs whenever it can; the client does what
\* it likes.
Fairness == WF_vars(Adapter) /\ WF_vars(Debuggee)
Spec == Init /\ [][Next]_vars /\ Fairness

-----------------------------------------------------------------------------
(* Properties *)

Request == [cmd : Resumes \cup {"launch", "pause", "disconnect"}, of : {{}}]
           \cup [cmd : {"setBreakpoints"}, of : SUBSET Lines]
           \cup [cmd : {"setFunctionBreakpoints"}, of : SUBSET Names]

\* Every field of the session holds what its type says, the pipe no more than
\* it can.
TypeOK ==
    /\ phase \in {"idle", "running", "stopped", "over", "hung", "gone"}
    /\ stacks \in [Fibers -> Seq([name : Names \cup {None},
                                 line : Lines \cup {None}])]
    /\ current \in Fibers /\ callers \in Seq(Fibers) /\ fibers \in Fibers
    /\ breakpoints \subseteq Lines /\ function_breakpoints \subseteq Names
    /\ last_depth \in Nat
    /\ mode \in [kind : {"continue", "in", "over", "out"}, depth : Nat]
    /\ inbox \in Seq(Request) /\ closed \in BOOLEAN
    /\ buffered \in Nat /\ pipe \in 0 .. PipeCap /\ forwarded \in Nat

\* What the user of a step means, by activations and not by depth: over stops
\* unless inside a call the stopped frame made, out unless inside that frame or
\* another call of its caller.
Live(i) == i \in 1 .. origin.live
StepMeant ==
    LET d == origin.depth IN
    CASE mode.kind = "continue" -> FALSE
      [] mode.kind = "in" -> TRUE
      [] mode.kind = "over" -> ~(Live(d) /\ Depth > d)
      [] mode.kind = "out" -> ~Live(d) /\ (d = 1 \/ ~Live(d - 1) \/ Depth = d - 1)

\* The first marker of a frame whose name has a breakpoint.
First == Top.line = None /\ Top.name \in function_breakpoints

\* The frame that ran the last marker is still there.
LastIsBelow == marked_last.in = current /\ marked_last.at > 0

\* Every frame below the top has run a marker.
NoneUnmarked == \A i \in DOMAIN frames : i < Depth => frames[i].line # None

\* Depths are compared within one fiber: the one the step started in, and for a
\* function breakpoint the one of the last marker.
SameFiber == /\ mode.kind \in {"over", "out"} => origin.in = current
             /\ Top.name \in function_breakpoints => marked_last.in = current

\* A marker that is in the fiber of the step stops the program only if its line
\* has a breakpoint, the step asked for is done, or it is the first in a method
\* with a function breakpoint.  And it does stop it at a breakpoint; at the end
\* of the step, unless a frame below has run no marker; and in a method with a
\* function breakpoint, if the frame that ran the last marker has not returned
\* ("stops on the first marker executed inside a frame whose name matches",
\* dap.rs 186).
StopsAreRight ==
    [][Marker /\ SameFiber =>
         LET stops == phase' = "stopped"
             breaks == AtBreakpoint(frames'[Depth].line)
         IN  /\ stops => breaks \/ StepMeant \/ First
             /\ breaks => stops
             /\ StepMeant /\ NoneUnmarked => stops
             /\ First /\ LastIsBelow => stops]_vars

\* When the client is told that the program has ended, it has been sent all
\* the program wrote.
OutputWhole == phase = "over" => forwarded = written

\* Once the client has closed its end the adapter ends too, unless the program
\* sits in a write to the full pipe.
SessionEnds == closed ~> phase \in {"gone", "hung"}
=============================================================================
