------------------------ MODULE DebugSessionProofs ------------------------
(***************************************************************************)
(* Theorems about DebugSession, for any program, any pipe and any client.  *)
(***************************************************************************)
EXTENDS DebugSession, TLAPS, SequenceTheorems

Phases == {"idle", "running", "stopped", "over", "hung", "gone"}
Modes == [kind : {"continue", "in", "over", "out"}, depth : Nat]
FrameOf == [name : Names \cup {None}, line : Lines \cup {None}]

-----------------------------------------------------------------------------
(* Types.  While there is a program, the fiber that runs and those that     *)
(* wait have frames and are different ones, and those not made have none.   *)

Chained ==
  /\ stacks[current] # <<>>
  /\ \A i \in 1..Len(callers) : stacks[callers[i]] # <<>> /\ callers[i] # current
  /\ \A i, j \in 1..Len(callers) : i # j => callers[i] # callers[j]
  /\ current \in 0..fibers
  /\ \A f \in Fibers : f > fibers => stacks[f] = <<>>

Typed ==
  /\ TypeOK
  /\ phase \in {"running", "stopped"} => Chained
  /\ steps \in Nat

LEMMA FibersAre ==
  /\ Main \in Fibers /\ MaxFibers \in Nat
  /\ \A f \in Fibers : f \in Nat
BY BoundsAssumption DEF Main, Fibers

LEMMA NoStacks ==
  ASSUME NEW ss, ss = [f \in Fibers |-> <<>>]
  PROVE  ss \in [Fibers -> Seq(FrameOf)]
OBVIOUS

LEMMA TypedInit == Init => Typed
<1> SUFFICES ASSUME Init PROVE Typed
  OBVIOUS
<1>1. mode \in Modes
  BY DEF Init, Mode, Modes
<1>2. stacks \in [Fibers -> Seq(FrameOf)] /\ inbox \in Seq(Request)
  BY NoStacks DEF Init
<1>7. current \in Fibers /\ callers \in Seq(Fibers) /\ fibers \in Fibers
  BY FibersAre DEF Init, Main
<1>6. closed \in BOOLEAN
  BY DEF Init
<1>3. pipe \in 0..PipeCap
  BY BoundsAssumption DEF Init
<1>4. phase = "idle" /\ breakpoints = {} /\ function_breakpoints = {}
  BY DEF Init
<1>5. {last_depth, buffered, forwarded, steps} \subseteq Nat
  BY DEF Init
<1> QED
  BY <1>1, <1>2, <1>3, <1>4, <1>5, <1>6, <1>7 DEF Typed, TypeOK, Modes, FrameOf

\* What a marker, a call and a return do to the frames.
LEMMA FramesMarked ==
  ASSUME NEW s \in Seq(FrameOf), s # <<>>, NEW l \in Lines
  PROVE  /\ [s EXCEPT ![Len(s)].line = l] \in Seq(FrameOf)
         /\ Len([s EXCEPT ![Len(s)].line = l]) = Len(s)
         /\ \A i \in 1..Len(s) : [s EXCEPT ![Len(s)].line = l][i].line
                                   = IF i = Len(s) THEN l ELSE s[i].line
<1>1. Len(s) \in 1..Len(s) /\ s[Len(s)] \in FrameOf
  BY EmptySeq, ElementOfSeq
<1> DEFINE e == [s[Len(s)] EXCEPT !.line = l]
<1>2. e \in FrameOf /\ e.line = l
  BY <1>1 DEF FrameOf
<1>3. [s EXCEPT ![Len(s)].line = l] = [s EXCEPT ![Len(s)] = e]
  OBVIOUS
<1> HIDE DEF e
<1> QED
  BY <1>1, <1>2, <1>3, ExceptSeq

LEMMA FramesPushed ==
  ASSUME NEW s \in Seq(FrameOf), NEW x \in FrameOf
  PROVE  /\ Append(s, x) \in Seq(FrameOf) /\ Len(Append(s, x)) = Len(s) + 1
         /\ Append(s, x) # <<>>
         /\ Append(s, x)[Len(s) + 1] = x
         /\ \A i \in 1..Len(s) : Append(s, x)[i] = s[i]
OBVIOUS

LEMMA LastGone ==
  ASSUME NEW S, NEW s \in Seq(S), Len(s) >= 1
  PROVE  /\ SubSeq(s, 1, Len(s) - 1) \in Seq(S)
         /\ Len(SubSeq(s, 1, Len(s) - 1)) = Len(s) - 1
         /\ \A i \in 1..Len(s) - 1 : SubSeq(s, 1, Len(s) - 1)[i] = s[i]
<1> DEFINE n == Len(s) - 1
<1>1. Len(s) \in Nat /\ n \in Nat /\ 1..n \subseteq 1..Len(s)
  OBVIOUS
<1>2. \A i \in 1..n : s[i] \in S
  BY <1>1, ElementOfSeq
<1>3. SubSeq(s, 1, n) = [i \in 1..n |-> s[i]]
  BY <1>1
<1>4. [i \in 1..n |-> s[i]] \in Seq(S) /\ Len([i \in 1..n |-> s[i]]) = n
  BY <1>1, <1>2
<1> QED
  BY <1>1, <1>3, <1>4

LEMMA FramesPopped ==
  ASSUME NEW s \in Seq(FrameOf), Len(s) > 1
  PROVE  /\ SubSeq(s, 1, Len(s) - 1) \in Seq(FrameOf)
         /\ Len(SubSeq(s, 1, Len(s) - 1)) = Len(s) - 1
         /\ SubSeq(s, 1, Len(s) - 1) # <<>>
         /\ \A i \in 1..Len(s) - 1 : SubSeq(s, 1, Len(s) - 1)[i] = s[i]
<1>1. Len(s) \in Nat /\ Len(s) >= 1
  OBVIOUS
<1>2. /\ SubSeq(s, 1, Len(s) - 1) \in Seq(FrameOf)
      /\ Len(SubSeq(s, 1, Len(s) - 1)) = Len(s) - 1
      /\ \A i \in 1..Len(s) - 1 : SubSeq(s, 1, Len(s) - 1)[i] = s[i]
  BY <1>1, LastGone
<1> DEFINE p == SubSeq(s, 1, Len(s) - 1)
<1>3. p \in Seq(FrameOf) /\ Len(p) # 0
  BY <1>1, <1>2
<1> HIDE DEF p
<1>4. p # <<>>
  BY <1>3
<1> QED
  BY <1>2, <1>4 DEF p

\* The frames of one fiber change.
LEMMA StackChanged ==
  ASSUME Typed, phase \in {"running", "stopped"}, NEW s \in Seq(FrameOf),
         stacks' = [stacks EXCEPT ![current] = s]
  PROVE  /\ stacks' \in [Fibers -> Seq(FrameOf)]
         /\ stacks'[current] = s
         /\ \A f \in Fibers : f # current => stacks'[f] = stacks[f]
BY DEF Typed, TypeOK, FrameOf

LEMMA TakeTyped ==
  ASSUME inbox \in Seq(Request), inbox # <<>>, inbox' = Tail(inbox)
  PROVE  inbox' \in Seq(Request) /\ Head(inbox) \in Request
BY HeadTailProperties

LEMMA TakenSet ==
  ASSUME inbox \in Seq(Request), Take("setBreakpoints")
  PROVE  Head(inbox).of \subseteq Lines
BY TakeTyped DEF Take, Request, Resumes

LEMMA TakenNames ==
  ASSUME inbox \in Seq(Request), Take("setFunctionBreakpoints")
  PROVE  Head(inbox).of \subseteq Names
BY TakeTyped DEF Take, Request, Resumes

LEMMA ClientTyped ==
  ASSUME Typed, Client
  PROVE  Typed'
<1> USE DEF Typed, TypeOK, Chained, program, switches
<1>1. ASSUME NEW r \in Request, Write(r) PROVE Typed'
  <2>1. inbox' \in Seq(Request)
    BY <1>1 DEF Write
  <2> QED
    BY <1>1, <2>1 DEF Write, output
<1>2. CASE Close
  BY <1>2 DEF Close, output
<1>3. CASE SetBreakpoints
  BY <1>1, <1>3 DEF SetBreakpoints, Request
<1>4. CASE SetFunctionBreakpoints
  BY <1>1, <1>4 DEF SetFunctionBreakpoints, Request
<1>5. CASE Launch
  BY <1>1, <1>5 DEF Launch, Request
<1>6. CASE Resume
  BY <1>1, <1>6 DEF Resume, Request
<1>7. CASE Query
  BY <1>1, <1>7 DEF Query, Request
<1>8. CASE Disconnect
  BY <1>1, <1>8 DEF Disconnect, Request
<1> QED
  BY <1>2, <1>3, <1>4, <1>5, <1>6, <1>7, <1>8 DEF Client

LEMMA RunOnTyped ==
  ASSUME Typed, phase = "stopped", NEW m \in Modes, RunOn(m),
         inbox' \in Seq(Request), UNCHANGED closed
  PROVE  Typed'
BY DEF Typed, TypeOK, Chained, RunOn, Modes, program, switches, output

LEMMA AdapterTyped ==
  ASSUME Typed, Adapter
  PROVE  Typed'
<1>t. inbox \in Seq(Request)
  BY DEF Typed, TypeOK
<1>d. phase = "stopped" => Depth \in Nat
  BY DEF Typed, TypeOK, Depth, Fibers
<1> USE DEF program, switches
<1>1. CASE ServeBreakpoints
  <2>1. breakpoints' \subseteq Lines
    BY <1>t, <1>1, TakenSet DEF ServeBreakpoints
  <2>2. inbox' \in Seq(Request) /\ UNCHANGED closed
    BY <1>t, <1>1, TakeTyped DEF ServeBreakpoints, Take
  <2> QED
    BY <1>1, <2>1, <2>2 DEF ServeBreakpoints, Typed, TypeOK, Chained, output
<1>2. CASE ServeFunctionBreakpoints
  <2>1. function_breakpoints' \subseteq Names
    BY <1>t, <1>2, TakenNames DEF ServeFunctionBreakpoints
  <2>2. inbox' \in Seq(Request) /\ UNCHANGED closed
    BY <1>t, <1>2, TakeTyped DEF ServeFunctionBreakpoints, Take
  <2> QED
    BY <1>2, <2>1, <2>2 DEF ServeFunctionBreakpoints, Typed, TypeOK, Chained, output
<1>3. CASE ServeOther
  <2>1. inbox' \in Seq(Request) /\ UNCHANGED closed
    BY <1>t, <1>3, TakeTyped DEF ServeOther, Take
  <2> QED
    BY <1>3, <2>1 DEF ServeOther, Typed, TypeOK, Chained, output
<1>4. CASE ServeLaunch
  <2>1. inbox' \in Seq(Request) /\ UNCHANGED closed
    BY <1>t, <1>4, TakeTyped DEF ServeLaunch, Take
  <2>2. Frame(None) \in FrameOf
    BY DEF Frame, FrameOf
  <2>3. stacks' = [f \in Fibers |-> IF f = Main THEN <<Frame(None)>> ELSE <<>>]
    BY <1>4 DEF ServeLaunch
  <2>4. /\ stacks' \in [Fibers -> Seq(FrameOf)]
        /\ stacks'[Main] # <<>>
        /\ \A f \in Fibers : f > 0 => stacks'[f] = <<>>
    BY <2>2, <2>3, FibersAre DEF Main
  <2>5. mode' \in Modes
    BY <1>4 DEF ServeLaunch, Mode, Modes
  <2>6. current' = Main /\ callers' = <<>> /\ fibers' = 0 /\ phase' = "running"
    BY <1>4 DEF ServeLaunch
  <2>7. current' \in Fibers /\ callers' \in Seq(Fibers) /\ fibers' \in Fibers
    BY <2>6, FibersAre DEF Main
  <2>8. Chained'
    BY <2>4, <2>6 DEF Chained, Main
  <2> QED
    BY <1>4, <2>1, <2>4, <2>5, <2>7, <2>8
    DEF ServeLaunch, Typed, TypeOK, FrameOf, Modes, output
<1>5. CASE ServeResume
  <2>1. inbox' \in Seq(Request) /\ UNCHANGED closed
    BY <1>t, <1>5, TakeTyped DEF ServeResume, Take
  <2>2. \E m \in Modes : RunOn(m)
    BY <1>d, <1>5 DEF ServeResume, Mode, Modes
  <2> QED
    BY <1>5, <2>1, <2>2, RunOnTyped DEF ServeResume
<1>6. CASE RunAlone
  <2>1. Mode("continue", 0) \in Modes
    BY DEF Mode, Modes
  <2> QED
    BY <1>t, <1>6, <2>1, RunOnTyped DEF RunAlone
<1>7. CASE Leave
  <2>1. inbox' \in Seq(Request) /\ UNCHANGED closed
    BY <1>t, <1>7, TakeTyped DEF Leave, Take
  <2> QED
    BY <1>7, <2>1 DEF Leave, Typed, TypeOK, Chained, output
<1> QED
  BY <1>1, <1>2, <1>3, <1>4, <1>5, <1>6, <1>7 DEF Adapter

\* The fiber that runs keeps having frames.
LEMMA ProgramTyped ==
  ASSUME Typed, phase = "running", NEW s \in Seq(FrameOf), s # <<>>,
         stacks' = [stacks EXCEPT ![current] = s], UNCHANGED switches
  PROVE  /\ stacks' \in [Fibers -> Seq(FrameOf)]
         /\ Chained'
<1>1. /\ stacks' \in [Fibers -> Seq(FrameOf)]
      /\ stacks'[current] = s
      /\ \A f \in Fibers : f # current => stacks'[f] = stacks[f]
  BY StackChanged
<1>2. Chained /\ callers \in Seq(Fibers) /\ current \in Fibers /\ fibers \in Fibers
  BY DEF Typed, TypeOK
<1>3. \A i \in 1..Len(callers) : callers[i] \in Fibers
  BY <1>2
<1>4. \A f \in Fibers : f > fibers => f # current
  BY <1>2, FibersAre DEF Chained
<1> QED
  BY <1>1, <1>2, <1>3, <1>4 DEF Chained, switches

\* Control goes back to the last caller.
LEMMA BackTyped ==
  ASSUME Typed, BackToCaller,
         \/ UNCHANGED stacks
         \/ stacks' = [stacks EXCEPT ![current] = <<>>]
  PROVE  /\ stacks' \in [Fibers -> Seq(FrameOf)]
         /\ current' \in Fibers /\ callers' \in Seq(Fibers)
         /\ Chained'
<1>1. /\ phase = "running" /\ callers # <<>>
      /\ current' = callers[Len(callers)]
      /\ callers' = SubSeq(callers, 1, Len(callers) - 1)
      /\ fibers' = fibers
  BY DEF BackToCaller
<1>2. /\ Chained /\ callers \in Seq(Fibers) /\ current \in Fibers /\ fibers \in Fibers
      /\ stacks \in [Fibers -> Seq(FrameOf)]
  BY <1>1 DEF Typed, TypeOK, FrameOf
<1>3. /\ Len(callers) \in Nat /\ Len(callers) >= 1
      /\ \A i \in 1..Len(callers) : callers[i] \in Fibers
  BY <1>1, <1>2
<1>4. /\ callers' \in Seq(Fibers) /\ Len(callers') = Len(callers) - 1
      /\ \A i \in 1..Len(callers) - 1 : callers'[i] = callers[i]
  BY <1>1, <1>2, <1>3, LastGone
<1>5. current' \in Fibers /\ current' # current
  BY <1>1, <1>2, <1>3 DEF Chained
<1>6. /\ stacks' \in [Fibers -> Seq(FrameOf)]
      /\ \A f \in Fibers : f # current => stacks'[f] = stacks[f]
      /\ \A f \in Fibers : stacks[f] = <<>> => stacks'[f] = <<>>
  <2>1. CASE UNCHANGED stacks
    BY <1>2, <2>1
  <2>2. CASE stacks' = [stacks EXCEPT ![current] = <<>>]
    <3>1. <<>> \in Seq(FrameOf)
      OBVIOUS
    <3> QED
      BY <1>2, <2>2, <3>1
  <2> QED
    BY <2>1, <2>2
<1>7. current' \in 0..fibers
  <2>1. stacks[current'] # <<>>
    BY <1>1, <1>2, <1>3 DEF Chained
  <2> QED
    BY <1>2, <1>5, <2>1, FibersAre DEF Chained
<1>8. stacks'[current'] # <<>>
  <2>1. stacks[current'] # <<>>
    BY <1>1, <1>2, <1>3 DEF Chained
  <2> QED
    BY <1>5, <1>6, <2>1
<1>9. \A i \in 1..Len(callers') : stacks'[callers'[i]] # <<>> /\ callers'[i] # current'
  <2> SUFFICES ASSUME NEW i \in 1..Len(callers')
               PROVE  stacks'[callers'[i]] # <<>> /\ callers'[i] # current'
    OBVIOUS
  <2>1. /\ i \in 1..Len(callers) /\ i # Len(callers) /\ callers'[i] = callers[i]
        /\ callers[i] \in Fibers
    BY <1>3, <1>4
  <2>2. /\ callers[i] # callers[Len(callers)]
        /\ stacks[callers[i]] # <<>> /\ callers[i] # current
    BY <1>2, <1>3, <2>1 DEF Chained
  <2> QED
    BY <1>1, <1>6, <2>1, <2>2
<1>10. \A i, j \in 1..Len(callers') : i # j => callers'[i] # callers'[j]
  BY <1>2, <1>3, <1>4 DEF Chained
<1>11. \A f \in Fibers : f > fibers' => stacks'[f] = <<>>
  BY <1>1, <1>2, <1>6 DEF Chained
<1> QED
  BY <1>4, <1>5, <1>6, <1>7, <1>8, <1>9, <1>10, <1>11, <1>1 DEF Chained

\* A fiber that is suspended takes the place of the one that runs.
LEMMA ResumeTyped ==
  ASSUME Typed, ResumeFiber
  PROVE  /\ current' \in Fibers /\ callers' \in Seq(Fibers)
         /\ Chained'
<1>1. PICK f \in 1..fibers :
        /\ stacks[f] # <<>> /\ f \notin {current} \cup Range(callers)
        /\ current' = f /\ callers' = Append(callers, current)
        /\ UNCHANGED <<phase, stacks, fibers>>
  BY DEF ResumeFiber
<1>2. phase = "running"
  BY DEF ResumeFiber, Step
<1>3. Chained /\ callers \in Seq(Fibers) /\ current \in Fibers /\ fibers \in Fibers
  BY <1>2 DEF Typed, TypeOK
<1>4. f \in Fibers
  BY <1>3, FibersAre DEF Fibers, Main
<1>5. \A i \in 1..Len(callers) : callers[i] # f
  BY <1>1, <1>3 DEF Range
<1>6. /\ callers' \in Seq(Fibers) /\ Len(callers') = Len(callers) + 1
      /\ callers'[Len(callers) + 1] = current
      /\ \A i \in 1..Len(callers) : callers'[i] = callers[i]
  BY <1>1, <1>3
<1>n. Len(callers) \in Nat
  BY <1>3
<1>7. \A i \in 1..Len(callers') : stacks'[callers'[i]] # <<>> /\ callers'[i] # current'
  <2> SUFFICES ASSUME NEW i \in 1..Len(callers')
               PROVE  stacks'[callers'[i]] # <<>> /\ callers'[i] # current'
    OBVIOUS
  <2>1. CASE i = Len(callers) + 1
    BY <1>1, <1>3, <1>6, <2>1 DEF Chained
  <2>2. CASE i \in 1..Len(callers)
    BY <1>1, <1>3, <1>5, <1>6, <2>2 DEF Chained
  <2> QED
    BY <1>n, <1>6, <2>1, <2>2
<1>8. \A i, j \in 1..Len(callers') : i # j => callers'[i] # callers'[j]
  <2> SUFFICES ASSUME NEW i \in 1..Len(callers'), NEW j \in 1..Len(callers'), i < j
               PROVE  callers'[i] # callers'[j]
    BY <1>n, <1>6
  <2>1. i \in 1..Len(callers) /\ callers'[i] = callers[i]
    BY <1>n, <1>6
  <2>2. CASE j = Len(callers) + 1
    BY <1>3, <1>6, <2>1, <2>2 DEF Chained
  <2>3. CASE j \in 1..Len(callers)
    BY <1>n, <1>3, <1>6, <2>1, <2>3 DEF Chained
  <2> QED
    BY <1>n, <1>6, <2>2, <2>3
<1>9. stacks'[current'] # <<>> /\ current' \in 0..fibers'
  BY <1>1
<1>10. \A g \in Fibers : g > fibers' => stacks'[g] = <<>>
  BY <1>1, <1>3 DEF Chained
<1> QED
  BY <1>1, <1>4, <1>6, <1>7, <1>8, <1>9, <1>10 DEF Chained

\* A fiber that is made gets the next number.
LEMMA NewFiberTyped ==
  ASSUME Typed, NewFiber
  PROVE  /\ fibers + 1 \in Fibers /\ stacks[fibers + 1] = <<>>
         /\ stacks' \in [Fibers -> Seq(FrameOf)]
         /\ stacks'[fibers + 1] = <<Frame(None)>>
         /\ \A f \in Fibers : f # fibers + 1 => stacks'[f] = stacks[f]
         /\ Chained'
<1>1. /\ phase = "running" /\ fibers < MaxFibers /\ fibers' = fibers + 1
      /\ stacks' = [stacks EXCEPT ![fibers + 1] = <<Frame(None)>>]
      /\ UNCHANGED <<current, callers>>
  BY DEF NewFiber
<1>2. /\ Chained /\ callers \in Seq(Fibers) /\ current \in Fibers /\ fibers \in Fibers
      /\ stacks \in [Fibers -> Seq(FrameOf)]
  BY <1>1 DEF Typed, TypeOK, FrameOf
<1>3. fibers + 1 \in Fibers /\ fibers \in Nat
  BY <1>1, <1>2, FibersAre DEF Fibers, Main
<1>4. stacks[fibers + 1] = <<>>
  BY <1>2, <1>3 DEF Chained
<1>5. <<Frame(None)>> \in Seq(FrameOf) /\ <<Frame(None)>> # <<>>
  BY DEF Frame, FrameOf
<1>6. /\ stacks' \in [Fibers -> Seq(FrameOf)]
      /\ stacks'[fibers + 1] = <<Frame(None)>>
      /\ \A f \in Fibers : f # fibers + 1 => stacks'[f] = stacks[f]
  BY <1>1, <1>2, <1>3, <1>5
<1>7. \A i \in 1..Len(callers) : callers[i] \in Fibers
  BY <1>2
<1>8. \A f \in Fibers : f > fibers + 1 => f > fibers /\ f # fibers + 1
  BY <1>3, FibersAre
<1>9. current \in 0..fibers + 1
  BY <1>2, <1>3 DEF Chained
<1>10. stacks'[current] # <<>> /\ current # fibers + 1
  BY <1>2, <1>4, <1>6 DEF Chained
<1>11. \A i \in 1..Len(callers) : stacks'[callers[i]] # <<>>
  BY <1>2, <1>4, <1>6, <1>7 DEF Chained
<1>12. Chained'
  BY <1>1, <1>2, <1>6, <1>8, <1>9, <1>10, <1>11 DEF Chained
<1> QED
  BY <1>3, <1>4, <1>6, <1>12

LEMMA Framed ==
  ASSUME Typed, phase \in {"running", "stopped"}
  PROVE  /\ frames \in Seq(FrameOf) /\ Depth \in Nat /\ Depth >= 1
         /\ Depth = Len(frames) /\ DOMAIN frames = 1..Depth
         /\ Top = frames[Depth] /\ frames # <<>>
         /\ \A i \in 1..Depth : frames[i] \in FrameOf
         /\ current \in Fibers /\ frames = stacks[current]
         /\ stacks \in [Fibers -> Seq(FrameOf)]
         /\ steps \in Nat /\ last_depth \in Nat
         /\ mode \in Modes
<1>1. /\ stacks \in [Fibers -> Seq(FrameOf)] /\ current \in Fibers
      /\ stacks[current] # <<>>
  BY DEF Typed, TypeOK, FrameOf, Chained
<1>2. frames = stacks[current] /\ frames \in Seq(FrameOf) /\ frames # <<>>
  BY <1>1 DEF frames
<1> HIDE DEF frames
<1>3. Depth = Len(frames) /\ Top = frames[Depth]
  BY DEF Depth, Top, frames
<1>4. Depth \in Nat /\ Depth >= 1 /\ DOMAIN frames = 1..Depth
  BY <1>2, <1>3, EmptySeq
<1> QED
  BY <1>1, <1>2, <1>3, <1>4 DEF Typed, TypeOK, Modes

\* The program leaves the session alone: what is left to show for a step.
LEMMA TypedKept ==
  ASSUME Typed, UNCHANGED session, phase' \in Phases,
         stacks' \in [Fibers -> Seq(FrameOf)], current' \in Fibers,
         callers' \in Seq(Fibers), fibers' \in Fibers, last_depth' \in Nat,
         buffered' \in Nat, pipe' \in 0..PipeCap, forwarded' \in Nat, steps' \in Nat,
         phase' \in {"running", "stopped"} => Chained'
  PROVE  Typed'
<1> QED
  BY DEF Typed, TypeOK, Phases, FrameOf, session

LEMMA DebuggeeTyped ==
  ASSUME Typed, Debuggee
  PROVE  Typed'
<1>p. phase = "running"
  BY DEF Debuggee, Call, Return, NewFiber, ResumeFiber, YieldFiber, FiberEnds,
         BackToCaller, Echo, Puts, Marker, Finish, Finished, Exit, Step
<1>t. /\ frames \in Seq(FrameOf) /\ Depth \in Nat /\ steps \in Nat /\ frames # <<>>
      /\ Depth = Len(frames) /\ frames = stacks[current]
      /\ stacks \in [Fibers -> Seq(FrameOf)]
      /\ Chained
  BY <1>p, Framed DEF Typed
<1>u. /\ buffered \in Nat /\ pipe \in 0..PipeCap /\ forwarded \in Nat
      /\ PipeCap \in Nat
      /\ current \in Fibers /\ callers \in Seq(Fibers) /\ fibers \in Fibers
      /\ last_depth \in Nat
  BY BoundsAssumption DEF Typed, TypeOK
<1>v. UNCHANGED program => Chained'
  BY <1>t DEF program, switches, Chained
<1>1. ASSUME NEW n \in Names \cup {None}, Step,
             stacks' = [stacks EXCEPT ![current] = Append(@, Frame(n))],
             UNCHANGED <<phase, switches, last_depth, output>>
      PROVE  Typed'
  <2>1. Frame(n) \in FrameOf
    BY DEF Frame, FrameOf
  <2>2. Append(frames, Frame(n)) \in Seq(FrameOf) /\ Append(frames, Frame(n)) # <<>>
    BY <1>t, <2>1, FramesPushed
  <2>3. stacks' = [stacks EXCEPT ![current] = Append(frames, Frame(n))]
    BY <1>1, <1>t
  <2>4. stacks' \in [Fibers -> Seq(FrameOf)] /\ Chained'
    BY <1>1, <1>p, <2>2, <2>3, ProgramTyped
  <2>5. steps' \in Nat /\ UNCHANGED session /\ phase' \in Phases
    BY <1>1, <1>t, <1>p DEF Step, Phases
  <2>6. UNCHANGED <<current, callers, fibers, last_depth, buffered, pipe, forwarded>>
    BY <1>1 DEF switches, output
  <2> QED
    BY <1>u, <2>4, <2>5, <2>6, TypedKept
<1>2. CASE Return
  <2> DEFINE s == SubSeq(frames, 1, Depth - 1)
  <2>1. s \in Seq(FrameOf) /\ s # <<>>
    BY <1>t, <1>2, FramesPopped DEF Return
  <2>2. stacks' = [stacks EXCEPT ![current] = s] /\ UNCHANGED <<phase, switches>>
    BY <1>2, <1>t DEF Return
  <2> HIDE DEF s
  <2>3. stacks' \in [Fibers -> Seq(FrameOf)] /\ Chained'
    BY <1>p, <2>1, <2>2, ProgramTyped
  <2>4. /\ UNCHANGED <<current, callers, fibers, last_depth, buffered, pipe, forwarded,
                         steps, session>>
        /\ phase' \in Phases
    BY <1>2, <1>p DEF Return, switches, output, Phases
  <2> QED
    BY <1>t, <1>u, <2>3, <2>4, TypedKept
<1>3. CASE Echo
  <2>1. /\ buffered' \in Nat /\ steps' \in Nat /\ phase' \in Phases
        /\ UNCHANGED <<program, last_depth, pipe, forwarded, session>>
    BY <1>p, <1>t, <1>u, <1>3 DEF Echo, Step, Phases
  <2>2. UNCHANGED <<stacks, current, callers, fibers>>
    BY <2>1 DEF program, switches
  <2> QED
    BY <1>t, <1>u, <1>v, <2>1, <2>2, TypedKept
<1>4. CASE Puts
  <2>1. /\ buffered' \in Nat /\ pipe' \in 0..PipeCap
        /\ steps' \in Nat /\ phase' \in Phases
        /\ UNCHANGED <<program, last_depth, forwarded, session>>
    BY <1>p, <1>t, <1>u, <1>4 DEF Puts, Fits, Step, Phases
  <2>2. UNCHANGED <<stacks, current, callers, fibers>>
    BY <2>1 DEF program, switches
  <2> QED
    BY <1>t, <1>u, <1>v, <2>1, <2>2, TypedKept
<1>5. ASSUME NEW l \in Marked, Step, stacks' = [stacks EXCEPT ![current][Depth].line = l],
             last_depth' = Depth, UNCHANGED <<buffered, switches>>,
             \/ phase' = "stopped" /\ forwarded' = forwarded + pipe /\ pipe' = 0
             \/ UNCHANGED <<phase, forwarded, pipe>>
      PROVE  Typed'
  <2> DEFINE s == [frames EXCEPT ![Depth].line = l]
  <2>1. l \in Lines
    BY LinesAssumption
  <2>2. s \in Seq(FrameOf) /\ Len(s) = Len(frames)
    BY <1>t, <2>1, FramesMarked
  <2>3. s # <<>>
    BY <1>t, <2>2
  <2>4. stacks' = [stacks EXCEPT ![current] = s]
    BY <1>5, <1>t
  <2> HIDE DEF s
  <2>5. stacks' \in [Fibers -> Seq(FrameOf)] /\ Chained'
    BY <1>p, <1>5, <2>2, <2>3, <2>4, ProgramTyped
  <2>6. /\ steps' \in Nat /\ UNCHANGED session /\ phase' \in Phases
        /\ pipe' \in 0..PipeCap /\ forwarded' \in Nat
    BY <1>5, <1>p, <1>t, <1>u DEF Step, Phases
  <2>7. UNCHANGED <<current, callers, fibers, buffered>>
    BY <1>5 DEF switches
  <2> QED
    BY <1>t, <1>u, <1>5, <2>5, <2>6, <2>7, TypedKept
<1>6. ASSUME NoProgram
      PROVE  /\ stacks' \in [Fibers -> Seq(FrameOf)] /\ current' \in Fibers
             /\ callers' \in Seq(Fibers) /\ fibers' \in Fibers
  BY <1>6, NoStacks, FibersAre DEF NoProgram, Main
<1>7. CASE Finish
  <2>1. /\ NoProgram /\ phase' \in Phases \ {"running", "stopped"}
        /\ UNCHANGED <<last_depth, session, steps>>
        /\ buffered' \in Nat /\ pipe' \in 0..PipeCap /\ forwarded' \in Nat
    BY <1>u, <1>7 DEF Finish, Finished, Phases, output
  <2> QED
    BY <1>t, <1>u, <1>6, <2>1, TypedKept
<1>8. CASE Exit
  <2>1. /\ NoProgram /\ phase' \in Phases \ {"running", "stopped"}
        /\ UNCHANGED <<last_depth, session, steps, buffered, pipe, forwarded>>
    BY <1>8 DEF Exit, Phases, output
  <2> QED
    BY <1>t, <1>u, <1>6, <2>1, TypedKept
<1>9. CASE Call
  BY <1>1, <1>9 DEF Call
<1>10. CASE Marker
  BY <1>5, <1>10 DEF Marker
<1>11. CASE NewFiber
  <2>1. /\ fibers' \in Fibers /\ phase' \in Phases
        /\ UNCHANGED <<current, callers, last_depth, session, buffered, pipe, forwarded,
                       steps>>
    BY <1>p, <1>11, NewFiberTyped DEF NewFiber, output, Phases
  <2>2. stacks' \in [Fibers -> Seq(FrameOf)] /\ Chained'
    BY <1>11, NewFiberTyped
  <2> QED
    BY <1>t, <1>u, <2>1, <2>2, TypedKept
<1>12. CASE ResumeFiber
  <2>1. /\ steps' \in Nat /\ phase' \in Phases
        /\ UNCHANGED <<stacks, fibers, last_depth, session, buffered, pipe, forwarded>>
    BY <1>p, <1>t, <1>12 DEF ResumeFiber, Step, output, Phases
  <2>2. current' \in Fibers /\ callers' \in Seq(Fibers) /\ Chained'
    BY <1>12, ResumeTyped
  <2> QED
    BY <1>t, <1>u, <2>1, <2>2, TypedKept
<1>13. CASE YieldFiber \/ FiberEnds
  <2>1. /\ BackToCaller
        /\ UNCHANGED stacks \/ stacks' = [stacks EXCEPT ![current] = <<>>]
    BY <1>13 DEF YieldFiber, FiberEnds
  <2>2. /\ phase' \in Phases
        /\ UNCHANGED <<fibers, last_depth, session, buffered, pipe, forwarded, steps>>
    BY <1>p, <2>1 DEF BackToCaller, output, Phases
  <2>3. /\ stacks' \in [Fibers -> Seq(FrameOf)]
        /\ current' \in Fibers /\ callers' \in Seq(Fibers) /\ Chained'
    BY <2>1, BackTyped
  <2> QED
    BY <1>t, <1>u, <2>2, <2>3, TypedKept
<1> QED
  BY <1>2, <1>3, <1>4, <1>7, <1>8, <1>9, <1>10, <1>11, <1>12, <1>13 DEF Debuggee

LEMMA TypedStep ==
  ASSUME Typed, [Next]_vars
  PROVE  Typed'
<1>1. CASE UNCHANGED vars
  BY <1>1 DEF vars, session, output, program, switches, Typed, TypeOK, Chained
<1> QED
  BY <1>1, ClientTyped, AdapterTyped, DebuggeeTyped DEF Next

\* Every state of every behaviour is of the declared type.
THEOREM TypeCorrect == Spec => []TypeOK
<1>1. Typed => TypeOK
  BY DEF Typed
<1> QED
  BY <1>1, TypedInit, TypedStep, PTL DEF Spec

-----------------------------------------------------------------------------
(* Output.  What is neither forwarded nor in the pipe is in the buffer, as *)
(* long as no write hangs; the end of the program empties both.            *)

OutputInv ==
  /\ written \in Nat
  /\ phase # "hung" => written = forwarded + pipe + buffered
  /\ phase = "over" => pipe = 0 /\ buffered = 0

LEMMA OutputInit == Init => OutputInv
BY DEF Init, OutputInv

LEMMA OutputStep ==
  ASSUME Typed, OutputInv, [Next]_vars
  PROVE  OutputInv'
<1>t. buffered \in Nat /\ pipe \in Nat /\ forwarded \in Nat /\ PipeCap \in Nat
  BY BoundsAssumption DEF Typed, TypeOK
<1>1. CASE UNCHANGED vars
  BY <1>1 DEF vars, output, OutputInv
<1>2. CASE Client
  BY <1>2 DEF Client, SetBreakpoints, SetFunctionBreakpoints, Launch, Resume,
              Query, Disconnect, Close, Write, output, OutputInv
<1>3. CASE Adapter
  <2>1. /\ UNCHANGED output
        /\ phase # "hung" /\ phase' # "hung"
        /\ phase' = "over" => phase = "over"
    BY <1>3 DEF Adapter, ServeBreakpoints, ServeFunctionBreakpoints, ServeOther,
                ServeLaunch, ServeResume, RunAlone, RunOn, Leave, Reading
  <2> QED
    BY <2>1 DEF output, OutputInv
<1>4. CASE Call \/ Return \/ Exit
  BY <1>4 DEF Call, Return, Exit, Step, output, OutputInv
<1>9. CASE NewFiber \/ ResumeFiber \/ YieldFiber \/ FiberEnds
  BY <1>9 DEF NewFiber, ResumeFiber, YieldFiber, FiberEnds, BackToCaller, Step, output,
              OutputInv
<1>5. CASE Echo
  BY <1>t, <1>5 DEF Echo, Step, OutputInv
<1>6. CASE Puts
  BY <1>t, <1>6 DEF Puts, Step, OutputInv
<1>7. CASE Marker
  BY <1>t, <1>7 DEF Marker, Step, OutputInv
<1>8. CASE Finish
  BY <1>t, <1>8 DEF Finish, Finished, output, OutputInv
<1> QED
  BY <1>1, <1>2, <1>3, <1>4, <1>5, <1>6, <1>7, <1>8, <1>9 DEF Next, Debuggee

\* When `terminated` is sent, the client has been sent all output.
THEOREM NothingUnsent == Spec => []OutputWhole
<1>1. Typed /\ OutputInv => OutputWhole
  BY DEF Typed, TypeOK, OutputInv, OutputWhole
<1> QED
  BY <1>1, TypedInit, TypedStep, OutputInit, OutputStep, PTL DEF Spec

-----------------------------------------------------------------------------
(* Stops.  In the fiber of the last marker no frame above the depth of that  *)
(* marker has run one; and the frame that ran it, while it has not returned, *)
(* is at that depth.                                                         *)

Histories ==
  /\ marked_last \in [in : Fibers, at : Nat]
  /\ origin \in [in : Fibers, depth : Nat, live : Nat]

LastStack == stacks[marked_last.in]
Standing ==
  phase \in {"running", "stopped"} =>
    /\ \A i \in 1..Len(LastStack) : LastStack[i].line # None => i <= last_depth
    /\ marked_last.at # 0 => /\ marked_last.at = last_depth
                             /\ last_depth <= Len(LastStack)
                             /\ LastStack[last_depth].line # None

(* A step over waits above the frame it started in, which it knows by its    *)
(* depth only: once that frame is gone, another frame at that depth has run  *)
(* no marker.  A step out waits above the caller.                            *)

OriginStack == stacks[origin.in]
Aimed(d) == d <= origin.live
            \/ (d <= Len(OriginStack) => OriginStack[d].line = None)
Aim ==
  phase = "running" /\ mode.kind \in {"over", "out"} =>
    /\ origin.in <= fibers
    /\ origin.depth = mode.depth /\ mode.depth >= 1
    /\ origin.live <= mode.depth /\ origin.live <= Len(OriginStack)
    /\ OriginStack # <<>> => origin.live >= 1
    /\ mode.kind = "over" => Aimed(mode.depth)
    /\ mode.kind = "out" /\ mode.depth > 1 => Aimed(mode.depth - 1)

StopInv == Histories /\ Standing /\ Aim

LEMMA StopInit == Init => StopInv
BY FibersAre DEF Init, StopInv, Histories, Standing, Aim, Nobody, Main

\* Neither knows which fiber runs, nor who waits.
LEMMA StopKept ==
  ASSUME StopInv, UNCHANGED <<stacks, last_depth, mode, marked_last, origin, fibers>>,
         phase' \in {"running", "stopped"} => phase' = phase
  PROVE  StopInv'
BY DEF StopInv, Histories, Standing, Aim, Aimed, LastStack, OriginStack

\* A resume is counted from where the program stands.
LEMMA RunOnStops ==
  ASSUME Typed, StopInv, phase = "stopped", RunOn(mode'), mode'.kind \in {"over", "out"}
                                                         => mode' = Mode(mode'.kind, Depth)
  PROVE  StopInv'
<1>1. /\ origin' = [in |-> current, depth |-> Depth, live |-> Depth]
      /\ UNCHANGED <<stacks, current, fibers, last_depth, marked_last>>
  BY DEF RunOn, program, switches
<1>2. /\ Depth \in Nat /\ Depth >= 1 /\ Depth = Len(stacks[current])
      /\ current \in Fibers
  BY Framed
<1>3. current <= fibers
  BY <1>2, FibersAre DEF Typed, TypeOK, Chained, Fibers, Main
<1>4. Histories'
  BY <1>1, <1>2 DEF StopInv, Histories
<1>5. Standing'
  BY <1>1 DEF StopInv, Standing, LastStack
<1>6. /\ origin'.in = current /\ origin'.depth = Depth /\ origin'.live = Depth
      /\ OriginStack' = stacks[current]
  BY <1>1 DEF OriginStack
<1>7. mode'.kind \in {"over", "out"} => mode'.depth = Depth
  BY DEF Mode
<1>8. Aim'
  BY <1>1, <1>2, <1>3, <1>6, <1>7 DEF Aim, Aimed
<1> QED
  BY <1>4, <1>5, <1>8 DEF StopInv

LEMMA AdapterStops ==
  ASSUME Typed, StopInv, Adapter
  PROVE  StopInv'
<1>1. CASE ServeBreakpoints \/ ServeFunctionBreakpoints \/ ServeOther
  BY <1>1, StopKept DEF ServeBreakpoints, ServeFunctionBreakpoints, ServeOther,
                        program, switches, history
<1>2. CASE ServeLaunch
  <2>1. /\ stacks' = [f \in Fibers |-> IF f = Main THEN <<Frame(None)>> ELSE <<>>]
        /\ marked_last' = Nobody /\ origin' = origin /\ mode' = Mode("continue", 0)
    BY <1>2 DEF ServeLaunch
  <2>2. mode'.kind = "continue" /\ marked_last'.in = Main /\ marked_last'.at = 0
    BY <2>1 DEF Mode, Nobody
  <2>3. Histories'
    BY <2>1, FibersAre DEF StopInv, Histories, Nobody
  <2>4. LastStack' = <<Frame(None)>>
    BY <2>1, <2>2, FibersAre DEF LastStack
  <2>5. Len(LastStack') = 1 /\ LastStack'[1].line = None
    BY <2>4 DEF Frame
  <2>6. Standing'
    BY <2>2, <2>5 DEF Standing
  <2> QED
    BY <2>2, <2>3, <2>6 DEF StopInv, Aim
<1>3. CASE ServeResume
  <2>1. phase = "stopped" /\ RunOn(mode')
    BY <1>3 DEF ServeResume, RunOn
  <2>2. mode'.kind \in {"over", "out"} => mode' = Mode(mode'.kind, Depth)
    BY <1>3 DEF ServeResume, RunOn, Mode
  <2> QED
    BY <2>1, <2>2, RunOnStops
<1>4. CASE RunAlone
  <2>1. phase = "stopped" /\ RunOn(mode') /\ mode'.kind = "continue"
    BY <1>4 DEF RunAlone, RunOn, Mode
  <2> QED
    BY <2>1, RunOnStops
<1>5. CASE Leave
  BY <1>5, StopKept DEF Leave, program, switches, history
<1> QED
  BY <1>1, <1>2, <1>3, <1>4, <1>5 DEF Adapter

\* A frame that is put on has run no marker.
LEMMA PushStops ==
  ASSUME Typed, StopInv, phase = "running", NEW f \in Fibers, NEW n \in Names \cup {None},
         stacks' = [stacks EXCEPT ![f] = Append(@, Frame(n))],
         fibers' \in Nat, fibers' >= fibers, origin.in <= fibers => origin.in # f \/ stacks[f] # <<>>,
         UNCHANGED <<phase, last_depth, mode, marked_last, origin>>
  PROVE  StopInv'
<1> DEFINE s == Append(stacks[f], Frame(n))
<1>t. /\ stacks \in [Fibers -> Seq(FrameOf)] /\ last_depth \in Nat /\ mode \in Modes
      /\ fibers \in Nat
  BY FibersAre DEF Typed, TypeOK, FrameOf, Modes
<1>1. Frame(n) \in FrameOf /\ Frame(n).line = None
  BY DEF Frame, FrameOf
<1>2. stacks[f] \in Seq(FrameOf) /\ Len(stacks[f]) \in Nat
  BY <1>t
<1>3. /\ s \in Seq(FrameOf) /\ Len(s) = Len(stacks[f]) + 1
      /\ s # <<>> /\ s[Len(stacks[f]) + 1].line = None
      /\ \A i \in 1..Len(stacks[f]) : s[i] = stacks[f][i]
  BY <1>1, <1>2, FramesPushed
<1>4. stacks' = [stacks EXCEPT ![f] = s]
  BY <1>t
<1> HIDE DEF s
<1>5. stacks'[f] = s /\ \A g \in Fibers : g # f => stacks'[g] = stacks[g]
  BY <1>t, <1>4
<1>h. /\ marked_last.in \in Fibers /\ marked_last.at \in Nat
      /\ origin.in \in Fibers /\ origin.in \in Nat /\ origin.live \in Nat /\ origin.depth \in Nat
  BY FibersAre DEF StopInv, Histories
<1>l. \A g \in Fibers : stacks[g] \in Seq(FrameOf) /\ Len(stacks[g]) \in Nat
  BY <1>t
<1>6. Histories'
  BY DEF StopInv, Histories
<1>7. Standing'
  <2>1. /\ \A i \in 1..Len(LastStack) : LastStack[i].line # None => i <= last_depth
        /\ marked_last.at # 0 => /\ marked_last.at = last_depth
                                 /\ last_depth <= Len(LastStack)
                                 /\ LastStack[last_depth].line # None
    BY DEF StopInv, Standing
  <2>2. CASE marked_last.in # f
    BY <1>5, <1>h, <2>1, <2>2 DEF Standing, LastStack
  <2>3. CASE marked_last.in = f
    <3>1. LastStack = stacks[f] /\ LastStack' = s
      BY <1>5, <2>3 DEF LastStack
    <3>2. \A i \in 1..Len(s) : s[i].line # None => i <= last_depth
      BY <1>2, <1>3, <2>1, <3>1
    <3>3. marked_last.at # 0 => last_depth \in 1..Len(stacks[f])
      BY <1>2, <1>t, <1>h, <2>1, <3>1
    <3>4. marked_last.at # 0 => /\ last_depth <= Len(s)
                                /\ s[last_depth].line # None
      BY <1>2, <1>3, <1>t, <2>1, <3>1, <3>3
    <3> QED
      BY <2>1, <3>1, <3>2, <3>4 DEF Standing
  <2> QED
    BY <2>2, <2>3
<1>8. ASSUME NEW d \in Nat, d >= 1, Aimed(d), mode.kind \in {"over", "out"}
      PROVE  Aimed(d)'
  <2>1. CASE origin.in # f
    BY <1>5, <1>8, <1>h, <2>1 DEF Aimed, OriginStack
  <2>2. CASE origin.in = f
    <3>1. OriginStack = stacks[f] /\ OriginStack' = s
      BY <1>5, <2>2 DEF OriginStack
    <3>2. CASE d <= origin.live
      BY <3>2 DEF Aimed
    <3>3. CASE d <= Len(stacks[f]) => stacks[f][d].line = None
      <4>1. d <= Len(s) => s[d].line = None
        BY <1>2, <1>3, <1>8, <3>3
      <4> QED
        BY <3>1, <4>1 DEF Aimed
    <3> QED
      BY <1>8, <3>1, <3>2, <3>3 DEF Aimed
  <2> QED
    BY <2>1, <2>2
<1>9. Aim'
  <2> SUFFICES ASSUME mode.kind \in {"over", "out"}
               PROVE  Aim'
    BY DEF Aim
  <2>1. /\ origin.in <= fibers
        /\ origin.depth = mode.depth /\ mode.depth >= 1
        /\ origin.live <= mode.depth /\ origin.live <= Len(OriginStack)
        /\ OriginStack # <<>> => origin.live >= 1
        /\ mode.kind = "over" => Aimed(mode.depth)
        /\ mode.kind = "out" /\ mode.depth > 1 => Aimed(mode.depth - 1)
    BY DEF StopInv, Aim
  <2>2. origin.live <= Len(OriginStack')
    BY <1>2, <1>3, <1>5, <1>h, <1>l, <2>1 DEF OriginStack
  <2>3. OriginStack' # <<>> => origin.live >= 1
    BY <1>5, <1>h, <2>1 DEF OriginStack
  <2>4. mode.depth \in Nat
    BY <1>t DEF Modes
  <2>5. mode.kind = "over" => Aimed(mode.depth)'
    BY <1>8, <2>1, <2>4
  <2>6. mode.kind = "out" /\ mode.depth > 1 => Aimed(mode.depth - 1)'
    <3> SUFFICES ASSUME mode.kind = "out", mode.depth > 1
                 PROVE  Aimed(mode.depth - 1)'
      OBVIOUS
    <3>1. mode.depth - 1 \in Nat /\ mode.depth - 1 >= 1
      BY <2>4
    <3> QED
      BY <1>8, <2>1, <3>1
  <2>7. origin.in <= fibers'
    BY <1>t, <1>h, <2>1
  <2> QED
    BY <2>1, <2>2, <2>3, <2>5, <2>6, <2>7 DEF Aim
<1> QED
  BY <1>6, <1>7, <1>9 DEF StopInv

\* The top frame goes.
LEMMA PopStops ==
  ASSUME Typed, StopInv, phase = "running", TopGoes, NEW s \in Seq(FrameOf),
         Len(s) = Depth - 1, \A i \in 1..Len(s) : s[i] = frames[i],
         stacks' = [stacks EXCEPT ![current] = s],
         UNCHANGED <<phase, last_depth, mode, fibers>>
  PROVE  StopInv'
<1>f. /\ frames = stacks[current] /\ current \in Fibers
      /\ Depth = Len(frames) /\ Depth \in Nat /\ Depth >= 1
      /\ last_depth \in Nat /\ mode \in Modes
      /\ stacks \in [Fibers -> Seq(FrameOf)]
  BY Framed
<1>1. stacks'[current] = s /\ \A g \in Fibers : g # current => stacks'[g] = stacks[g]
  BY StackChanged
<1>l. \A g \in Fibers : stacks[g] \in Seq(FrameOf) /\ Len(stacks[g]) \in Nat
  BY <1>f
<1>h. /\ marked_last \in [in : Fibers, at : Nat]
      /\ origin \in [in : Fibers, depth : Nat, live : Nat]
  BY DEF StopInv, Histories
<1>2. /\ marked_last' \in [in : Fibers, at : Nat] /\ marked_last'.in = marked_last.in
      /\ marked_last'.at # 0 =>
           /\ marked_last'.at = marked_last.at
           /\ marked_last.in = current => marked_last.at # Depth
  BY <1>f, <1>h DEF TopGoes
<1>3. /\ origin' \in [in : Fibers, depth : Nat, live : Nat]
      /\ origin'.in = origin.in /\ origin'.depth = origin.depth
      /\ origin'.live = IF origin.in = current /\ origin.live = Depth
                        THEN Depth - 1 ELSE origin.live
  <2>1. CASE origin.in = current /\ origin.live = Depth
    <3>1. origin' = [origin EXCEPT !.live = Depth - 1] /\ Depth - 1 \in Nat
      BY <1>f, <2>1 DEF TopGoes
    <3> QED
      BY <1>h, <2>1, <3>1
  <2>2. CASE ~(origin.in = current /\ origin.live = Depth)
    BY <1>h, <2>2 DEF TopGoes
  <2> QED
    BY <2>1, <2>2
<1>4. Histories'
  BY <1>2, <1>3 DEF Histories
<1>5. Standing'
  <2>1. /\ \A i \in 1..Len(LastStack) : LastStack[i].line # None => i <= last_depth
        /\ marked_last.at # 0 => /\ marked_last.at = last_depth
                                 /\ last_depth <= Len(LastStack)
                                 /\ LastStack[last_depth].line # None
    BY DEF StopInv, Standing
  <2>2. CASE marked_last.in # current
    <3>1. LastStack' = LastStack
      BY <1>1, <1>2, <1>h, <2>2 DEF LastStack
    <3> QED
      BY <1>2, <2>1, <3>1 DEF Standing
  <2>3. CASE marked_last.in = current
    <3>1. LastStack = frames /\ LastStack' = s
      BY <1>1, <1>2, <1>f, <2>3 DEF LastStack
    <3>2. \A i \in 1..Len(s) : s[i].line # None => i <= last_depth
      BY <1>f, <2>1, <3>1
    <3>3. marked_last'.at # 0 =>
            last_depth \in 1..Len(s) /\ marked_last'.at = last_depth
      BY <1>2, <1>f, <1>h, <2>1, <2>3, <3>1
    <3>4. marked_last'.at # 0 => s[last_depth].line # None
      BY <1>2, <2>1, <3>1, <3>3
    <3> QED
      BY <1>f, <3>1, <3>2, <3>3, <3>4 DEF Standing
  <2> QED
    BY <2>2, <2>3
<1>6. Aim'
  <2> SUFFICES ASSUME mode.kind \in {"over", "out"}
               PROVE  Aim'
    BY DEF Aim
  <2>1. /\ origin.in <= fibers
        /\ origin.depth = mode.depth /\ mode.depth >= 1
        /\ origin.live <= mode.depth /\ origin.live <= Len(OriginStack)
        /\ OriginStack # <<>> => origin.live >= 1
        /\ mode.kind = "over" => Aimed(mode.depth)
        /\ mode.kind = "out" /\ mode.depth > 1 => Aimed(mode.depth - 1)
    BY DEF StopInv, Aim
  <2>m. mode.depth \in Nat
    BY <1>f DEF Modes
  <2>2. CASE origin.in # current
    <3>1. OriginStack' = OriginStack /\ origin'.live = origin.live
      BY <1>1, <1>3, <1>h, <2>2 DEF OriginStack
    <3>2. \A d : Aimed(d)' <=> Aimed(d)
      BY <3>1 DEF Aimed
    <3> QED
      BY <1>3, <2>1, <3>1, <3>2 DEF Aim
  <2>3. CASE origin.in = current
    <3>1. OriginStack = frames /\ OriginStack' = s
      BY <1>1, <1>3, <1>f, <2>3 DEF OriginStack
    <3>2. frames # <<>>
      BY <1>f
    <3>3. /\ origin'.live \in Nat /\ origin'.live <= Depth - 1
          /\ origin'.live <= origin.live
          /\ origin'.live >= 1 \/ Depth = 1
      BY <1>3, <1>f, <1>h, <2>1, <2>3, <3>1, <3>2
    <3>4. s # <<>> => origin'.live >= 1
      BY <1>f, <3>3
    <3>5. ASSUME NEW d \in Nat, d >= 1, Aimed(d)
          PROVE  Aimed(d)'
      <4>1. CASE d <= Len(s) /\ ~(d <= origin.live)
        BY <1>f, <3>1, <3>5, <4>1 DEF Aimed
      <4>2. CASE d <= origin.live /\ d <= Len(s)
        BY <1>3, <1>f, <1>h, <2>3, <4>2 DEF Aimed
      <4>3. CASE ~(d <= Len(s))
        BY <3>1, <4>3 DEF Aimed
      <4> QED
        BY <4>1, <4>2, <4>3
    <3>6. mode.kind = "over" => Aimed(mode.depth)'
      BY <2>1, <2>m, <3>5
    <3>7. mode.kind = "out" /\ mode.depth > 1 => Aimed(mode.depth - 1)'
      <4> SUFFICES ASSUME mode.kind = "out", mode.depth > 1
                   PROVE  Aimed(mode.depth - 1)'
        OBVIOUS
      <4>1. mode.depth - 1 \in Nat /\ mode.depth - 1 >= 1
        BY <2>m
      <4> QED
        BY <2>1, <3>5, <4>1
    <3>8. origin'.live <= mode.depth /\ origin'.live <= Len(s)
      BY <1>f, <1>h, <2>1, <2>m, <3>3
    <3> QED
      BY <1>3, <2>1, <3>1, <3>4, <3>6, <3>7, <3>8 DEF Aim
  <2> QED
    BY <2>2, <2>3
<1> QED
  BY <1>4, <1>5, <1>6 DEF StopInv

\* The decision at a marker, against what the user meant.
LEMMA MarkerIsRight ==
  ASSUME Typed, StopInv, phase = "running", SameFiber
  PROVE  /\ StepDone => StepMeant
         /\ AtEntry => First
         /\ StepMeant /\ NoneUnmarked => StepDone
         /\ First /\ LastIsBelow => AtEntry
<1>f. /\ frames = stacks[current] /\ current \in Fibers /\ frames # <<>>
      /\ Depth = Len(frames) /\ Depth \in Nat /\ Depth >= 1
      /\ DOMAIN frames = 1..Depth /\ Top = frames[Depth]
      /\ last_depth \in Nat /\ mode \in Modes
  BY Framed
<1>h. /\ marked_last.in \in Fibers /\ marked_last.at \in Nat
      /\ origin.in \in Fibers /\ origin.live \in Nat /\ origin.depth \in Nat
  BY DEF StopInv, Histories
<1>s. marked_last.in = current =>
        /\ \A i \in 1..Depth : frames[i].line # None => i <= last_depth
        /\ marked_last.at # 0 => /\ last_depth <= Depth
                                 /\ frames[last_depth].line # None
  BY <1>f DEF StopInv, Standing, LastStack
<1>m. /\ mode.kind \in {"continue", "in", "over", "out"}
      /\ mode.depth \in Nat
  BY <1>f DEF Modes
<1>1. AtEntry => First
  BY <1>f, <1>s DEF AtEntry, First, SameFiber
<1>2. First /\ LastIsBelow => AtEntry
  BY <1>f, <1>h, <1>s DEF AtEntry, First, LastIsBelow
<1>3. CASE mode.kind \in {"continue", "in"}
  <2>1. (StepDone => StepMeant) /\ (StepMeant => StepDone)
    BY <1>3 DEF StepDone, StepMeant
  <2> QED
    BY <1>1, <1>2, <2>1
<1>4. ASSUME mode.kind \in {"over", "out"}
      PROVE  /\ origin.depth = mode.depth /\ mode.depth >= 1
             /\ origin.live <= mode.depth /\ 1 <= origin.live /\ origin.live <= Depth
             /\ \A d \in Nat : Aimed(d) => d <= origin.live
                                           \/ (d <= Depth => frames[d].line = None)
             /\ mode.kind = "over" => Aimed(mode.depth)
             /\ mode.kind = "out" /\ mode.depth > 1 => Aimed(mode.depth - 1)
  <2>1. OriginStack = frames
    BY <1>4, <1>f DEF SameFiber, OriginStack
  <2> QED
    BY <1>4, <1>f, <2>1 DEF StopInv, Aim, Aimed
<1>n. \A d \in Nat : d >= 1 => (Live(d) <=> d <= origin.live)
  BY <1>h DEF Live
<1>5. CASE mode.kind = "over"
  <2>1. StepDone <=> Depth <= mode.depth
    BY <1>5 DEF StepDone
  <2>2. StepMeant <=> ~(mode.depth <= origin.live /\ Depth > mode.depth)
    BY <1>4, <1>5, <1>m, <1>n DEF StepMeant
  <2>3. NoneUnmarked /\ mode.depth < Depth => mode.depth <= origin.live
    BY <1>4, <1>5, <1>f, <1>m DEF NoneUnmarked
  <2>4. StepDone => StepMeant
    BY <1>f, <1>m, <2>1, <2>2
  <2>5. StepMeant /\ NoneUnmarked => StepDone
    BY <1>f, <1>m, <2>1, <2>2, <2>3
  <2> QED
    BY <1>1, <1>2, <2>4, <2>5
<1>6. CASE mode.kind = "out"
  <2> DEFINE d == mode.depth
  <2>d. d \in Nat /\ d >= 1 /\ origin.depth = d
    BY <1>4, <1>6, <1>m
  <2>1. StepDone <=> Depth < d
    BY <1>6 DEF StepDone
  <2>2. StepMeant <=> ~Live(d) /\ (d = 1 \/ ~Live(d - 1) \/ Depth = d - 1)
    BY <1>6, <2>d DEF StepMeant
  <2>3. NoneUnmarked /\ d > 1 /\ d <= Depth => d - 1 <= origin.live
    <3> SUFFICES ASSUME NoneUnmarked, d > 1, d <= Depth
                 PROVE  d - 1 <= origin.live
      OBVIOUS
    <3>1. d - 1 \in Nat /\ d - 1 \in 1..Depth /\ d - 1 < Depth
      BY <1>f, <2>d
    <3>2. frames[d - 1].line # None
      BY <1>f, <3>1 DEF NoneUnmarked
    <3> QED
      BY <1>4, <1>6, <3>1, <3>2
  <2>l. Live(d) <=> d <= origin.live
    BY <1>n, <2>d
  <2>k. d > 1 => (Live(d - 1) <=> d - 1 <= origin.live)
    <3>1. d > 1 => d - 1 \in Nat /\ d - 1 >= 1
      BY <2>d
    <3> QED
      BY <1>n, <3>1
  <2>o. 1 <= origin.live /\ origin.live <= Depth /\ origin.live <= d
    BY <1>4, <1>6
  <2> HIDE DEF d
  <2>4. StepDone => StepMeant
    <3> SUFFICES ASSUME Depth < d PROVE StepMeant
      BY <2>1
    <3>1. ~Live(d)
      BY <1>f, <1>h, <2>d, <2>l, <2>o
    <3>2. d > 1 /\ Live(d - 1) => Depth = d - 1
      BY <1>f, <1>h, <2>d, <2>k, <2>o
    <3> QED
      BY <2>2, <2>d, <3>1, <3>2
  <2>5. StepMeant /\ NoneUnmarked => StepDone
    <3> SUFFICES ASSUME StepMeant, NoneUnmarked, ~(Depth < d) PROVE FALSE
      BY <2>1
    <3>1. d # 1
      BY <1>h, <2>2, <2>d, <2>l, <2>o
    <3>2. Live(d - 1) /\ Depth # d - 1
      BY <1>f, <2>3, <2>d, <2>k, <3>1
    <3> QED
      BY <2>2, <3>1, <3>2
  <2> QED
    BY <1>1, <1>2, <2>4, <2>5
<1> QED
  BY <1>m, <1>3, <1>5, <1>6

LEMMA MarkerStops ==
  ASSUME Typed, StopInv, Marker
  PROVE  /\ StopInv'
         /\ SameFiber =>
              LET stops == phase' = "stopped"
                  breaks == AtBreakpoint(frames'[Depth].line)
              IN  /\ stops => breaks \/ StepMeant \/ First
                  /\ breaks => stops
                  /\ StepMeant /\ NoneUnmarked => stops
                  /\ First /\ LastIsBelow => stops
<1>1. PICK l \in Marked :
        /\ stacks' = [stacks EXCEPT ![current][Depth].line = l]
        /\ last_depth' = Depth /\ marked_last' = [in |-> current, at |-> Depth]
        /\ IF AtBreakpoint(l) \/ AtEntry \/ StepDone
           THEN phase' = "stopped"
           ELSE UNCHANGED phase
  BY DEF Marker
<1>2. /\ phase = "running"
      /\ UNCHANGED <<mode, origin, current, fibers>>
  BY DEF Marker, Step, session, switches
<1>f. /\ frames = stacks[current] /\ current \in Fibers /\ frames # <<>>
      /\ frames \in Seq(FrameOf)
      /\ Depth = Len(frames) /\ Depth \in Nat /\ Depth >= 1
      /\ mode \in Modes
      /\ stacks \in [Fibers -> Seq(FrameOf)]
  BY <1>2, Framed
<1>h. /\ origin \in [in : Fibers, depth : Nat, live : Nat]
  BY DEF StopInv, Histories
<1> DEFINE s == [frames EXCEPT ![Depth].line = l]
<1>3. l \in Lines /\ l # None
  BY LinesAssumption, NoneAssumption
<1>4. /\ s \in Seq(FrameOf) /\ Len(s) = Depth
      /\ \A i \in 1..Depth : s[i].line = IF i = Depth THEN l ELSE frames[i].line
  BY <1>3, <1>f, FramesMarked
<1>5. stacks' = [stacks EXCEPT ![current] = s]
  BY <1>1, <1>f
<1> HIDE DEF s
<1>6. stacks'[current] = s /\ \A g \in Fibers : g # current => stacks'[g] = stacks[g]
  BY <1>2, <1>4, <1>5, StackChanged
<1>7. Histories'
  BY <1>1, <1>2, <1>f, <1>h DEF Histories
<1>8. Standing'
  <2>1. LastStack' = s /\ marked_last'.at = Depth
    BY <1>1, <1>6 DEF LastStack
  <2> QED
    BY <1>1, <1>3, <1>4, <1>f, <2>1 DEF Standing
<1>9. Aim'
  <2> SUFFICES ASSUME phase' = "running", mode.kind \in {"over", "out"}
               PROVE  Aim'
    BY <1>2 DEF Aim
  <2>1. ~StepDone
    BY <1>1
  <2>2. /\ origin.in <= fibers
        /\ origin.depth = mode.depth /\ mode.depth >= 1
        /\ origin.live <= mode.depth /\ origin.live <= Len(OriginStack)
        /\ OriginStack # <<>> => origin.live >= 1
        /\ mode.kind = "over" => Aimed(mode.depth)
        /\ mode.kind = "out" /\ mode.depth > 1 => Aimed(mode.depth - 1)
    BY <1>2 DEF StopInv, Aim
  <2>m. mode.depth \in Nat
    BY <1>f DEF Modes
  <2>3. CASE origin.in # current
    <3>1. OriginStack' = OriginStack
      BY <1>2, <1>6, <1>h, <2>3 DEF OriginStack
    <3> QED
      BY <1>2, <2>2, <3>1 DEF Aim, Aimed
  <2>4. CASE origin.in = current
    <3>1. OriginStack = frames /\ OriginStack' = s
      BY <1>2, <1>6, <1>f, <2>4 DEF OriginStack
    <3>2. ASSUME NEW d \in Nat, d >= 1, d < Depth, Aimed(d)
          PROVE  Aimed(d)'
      <4>1. s[d].line = frames[d].line
        BY <1>4, <1>f, <3>2
      <4> QED
        BY <1>2, <1>4, <1>f, <3>1, <3>2, <4>1 DEF Aimed
    <3>3. mode.kind = "over" => Aimed(mode.depth)'
      <4>1. mode.kind = "over" => mode.depth < Depth
        BY <1>f, <2>1, <2>m DEF StepDone
      <4> QED
        BY <1>2, <2>2, <2>m, <3>2, <4>1
    <3>4. mode.kind = "out" /\ mode.depth > 1 => Aimed(mode.depth - 1)'
      <4> SUFFICES ASSUME mode.kind = "out", mode.depth > 1
                   PROVE  Aimed(mode.depth - 1)'
        OBVIOUS
      <4>1. /\ mode.depth - 1 \in Nat /\ mode.depth - 1 >= 1
            /\ mode.depth - 1 < Depth
        BY <1>f, <2>1, <2>m DEF StepDone
      <4> QED
        BY <1>2, <2>2, <3>2, <4>1
    <3>5. s # <<>> => origin.live >= 1
      BY <1>f, <2>2, <3>1
    <3> QED
      BY <1>2, <1>4, <1>f, <2>2, <3>1, <3>3, <3>4, <3>5 DEF Aim
  <2> QED
    BY <2>3, <2>4
<1>10. frames'[Depth].line = l
  BY <1>2, <1>4, <1>6, <1>f DEF frames
<1>11. phase' = "stopped" <=> AtBreakpoint(l) \/ AtEntry \/ StepDone
  BY <1>1, <1>2
<1>12. AtBreakpoint(frames'[Depth].line) <=> AtBreakpoint(l)
  BY <1>10
<1> QED
  BY <1>2, <1>7, <1>8, <1>9, <1>11, <1>12, MarkerIsRight DEF StopInv

LEMMA DebuggeeStops ==
  ASSUME Typed, StopInv, Debuggee
  PROVE  StopInv'
<1>1. CASE Call
  <2>1. PICK n \in Names \cup {None} :
          stacks' = [stacks EXCEPT ![current] = Append(@, Frame(n))]
    BY <1>1 DEF Call
  <2>2. /\ phase = "running"
        /\ UNCHANGED <<phase, last_depth, mode, marked_last, origin, fibers>>
    BY <1>1 DEF Call, Step, session, history, switches
  <2>3. /\ current \in Fibers /\ stacks[current] # <<>>
        /\ fibers' \in Nat /\ fibers' >= fibers
    BY <2>2, FibersAre DEF Typed, TypeOK, Chained
  <2>4. origin.in <= fibers => origin.in # current \/ stacks[current] # <<>>
    BY <2>3
  <2>5. UNCHANGED <<phase, last_depth, mode, marked_last, origin>>
    BY <2>2
  <2> QED
    BY <2>1, <2>2, <2>3, <2>4, <2>5, PushStops
<1>2. CASE Return
  <2>1. /\ phase = "running" /\ Depth > 1 /\ TopGoes
        /\ stacks' = [stacks EXCEPT ![current] = SubSeq(frames, 1, Depth - 1)]
        /\ UNCHANGED <<phase, last_depth, mode, fibers>>
    BY <1>2 DEF Return, session, switches, frames
  <2>2. frames \in Seq(FrameOf) /\ Depth = Len(frames) /\ Len(frames) > 1
    BY <2>1, Framed
  <2>3. /\ SubSeq(frames, 1, Depth - 1) \in Seq(FrameOf)
        /\ Len(SubSeq(frames, 1, Depth - 1)) = Depth - 1
        /\ \A i \in 1..Depth - 1 : SubSeq(frames, 1, Depth - 1)[i] = frames[i]
    BY <2>2, FramesPopped
  <2> QED
    BY <2>1, <2>3, PopStops
<1>3. CASE FiberEnds
  <2>1. /\ phase = "running" /\ Depth = 1 /\ TopGoes
        /\ stacks' = [stacks EXCEPT ![current] = <<>>]
        /\ UNCHANGED <<phase, last_depth, mode, fibers>>
    BY <1>3 DEF FiberEnds, BackToCaller, session
  <2>2. <<>> \in Seq(FrameOf) /\ Len(<<>>) = Depth - 1
        /\ \A i \in 1..0 : <<>>[i] = frames[i]
    BY <2>1
  <2> QED
    BY <2>1, <2>2, PopStops
<1>4. CASE NewFiber
  <2>1. /\ fibers + 1 \in Fibers /\ stacks[fibers + 1] = <<>>
        /\ stacks' = [stacks EXCEPT ![fibers + 1] = <<Frame(None)>>]
        /\ phase = "running" /\ fibers' = fibers + 1
        /\ UNCHANGED <<phase, last_depth, mode, marked_last, origin>>
    BY <1>4, NewFiberTyped DEF NewFiber, session, history
  <2>2. stacks' = [stacks EXCEPT ![fibers + 1] = Append(@, Frame(None))]
    BY <2>1
  <2>3. fibers \in Nat /\ origin.in \in Nat
    BY FibersAre DEF Typed, TypeOK, StopInv, Histories
  <2>4. /\ fibers' \in Nat /\ fibers' >= fibers
        /\ origin.in <= fibers => origin.in # fibers + 1 \/ stacks[fibers + 1] # <<>>
        /\ None \in Names \cup {None}
    BY <2>1, <2>3
  <2> QED
    BY <2>1, <2>2, <2>4, PushStops
<1>5. CASE ResumeFiber
  BY <1>5, StopKept DEF ResumeFiber, Step, session, history
<1>6. CASE YieldFiber
  BY <1>6, StopKept DEF YieldFiber, BackToCaller, session, history
<1>7. CASE Echo
  BY <1>7, StopKept DEF Echo, Step, session, history, program, switches
<1>8. CASE Puts
  <2>1. phase' \in {phase, "hung"}
        /\ UNCHANGED <<stacks, last_depth, mode, marked_last, origin, fibers>>
    BY <1>8 DEF Puts, Step, session, history, program, switches
  <2> QED
    BY <2>1, StopKept
<1>9. CASE Finish \/ Exit
  <2>1. /\ phase' \notin {"running", "stopped"}
        /\ UNCHANGED <<marked_last, origin>>
    BY <1>9 DEF Finish, Finished, Exit, history
  <2> QED
    BY <2>1 DEF StopInv, Histories, Standing, Aim
<1>10. CASE Marker
  BY <1>10, MarkerStops
<1> QED
  BY <1>1, <1>2, <1>3, <1>4, <1>5, <1>6, <1>7, <1>8, <1>9, <1>10 DEF Debuggee

LEMMA StopStep ==
  ASSUME Typed, StopInv, [Next]_vars
  PROVE  StopInv'
<1>1. CASE UNCHANGED vars
  BY <1>1, StopKept DEF vars, session, program, switches, history
<1>2. CASE Client
  <2>1. UNCHANGED <<phase, program, last_depth, mode, history>>
    BY <1>2 DEF Client, SetBreakpoints, SetFunctionBreakpoints, Launch, Resume,
                Query, Disconnect, Close, Write
  <2> QED
    BY <2>1, StopKept DEF program, switches, history
<1> QED
  BY <1>1, <1>2, AdapterStops, DebuggeeStops DEF Next

\* A marker in the fiber of the step stops the program when it should, for any
\* program, as far as frames that have run a marker can tell.
THEOREM StopsAreMeant == Spec => StopsAreRight
<1>1. Typed /\ StopInv /\ [Next]_vars
      => [Marker /\ SameFiber =>
            LET stops == phase' = "stopped"
                breaks == AtBreakpoint(frames'[Depth].line)
            IN  /\ stops => breaks \/ StepMeant \/ First
                /\ breaks => stops
                /\ StepMeant /\ NoneUnmarked => stops
                /\ First /\ LastIsBelow => stops]_vars
  BY MarkerStops
<1> QED
  BY <1>1, TypedInit, TypedStep, StopInit, StopStep, PTL DEF Spec, StopsAreRight
=============================================================================
