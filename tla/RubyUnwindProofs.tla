-------------------------- MODULE RubyUnwindProofs --------------------------
(***************************************************************************)
(* What holds of RubyUnwind for programs of any length and nesting: the    *)
(* registers keep their types, an ensure clause runs on every way out, a   *)
(* throw on its way has a catch, rescue clauses and $! have the exception  *)
(* that was raised, the exit status is that of the last thing that went    *)
(* wrong, and a jump stops where it is aimed.                              *)
(***************************************************************************)
EXTENDS RubyUnwind, WellFoundedInduction, TLAPS

-----------------------------------------------------------------------------
(* Positions and stacks                                                     *)

LEMMA LargestIsIn ==
  ASSUME NEW n \in Nat, NEW S, S \subseteq 1..n, S # {}
  PROVE  Largest(S) \in S /\ \A j \in S : j <= Largest(S)
<1> DEFINE T == {i \in Nat : n - i \in S}
<1> DEFINE R == {ss \in Nat \X Nat : ss[1] < ss[2]}
<1>1. T # {}
  <2> PICK s \in S : TRUE
    OBVIOUS
  <2>1. n - s \in Nat /\ n - (n - s) = s
    OBVIOUS
  <2> QED
    BY <2>1
<1>2. \E x \in T : \A y \in T : ~(<<y, x>> \in R)
  <2>1. IsWellFoundedOn(R, Nat)
    BY NatLessThanWellFounded DEF OpToRel
  <2>2. T \subseteq Nat
    OBVIOUS
  <2> HIDE DEF T, R
  <2> QED
    BY <2>1, <2>2, <1>1, WFMin
<1>3. PICK x \in T : \A y \in T : ~(y < x)
  BY <1>2
<1>4. n - x \in S /\ \A j \in S : j <= n - x
  <2> SUFFICES ASSUME NEW j \in S PROVE j <= n - x
    OBVIOUS
  <2>1. n - j \in Nat /\ n - (n - j) = j
    OBVIOUS
  <2>2. n - j \in T
    BY <2>1
  <2>3. ~(n - j < x)
    BY <2>2, <1>3
  <2> QED
    BY <2>1, <2>3
<1> DEFINE P(i) == i \in S /\ \A j \in S : j <= i
<1>5. P(CHOOSE i : P(i))
  BY <1>4
<1>6. Largest(S) = CHOOSE i \in S : \A j \in S : j <= i
  BY DEF Largest
<1> QED
  BY <1>4, <1>6

LEMMA LargestBound ==
  ASSUME NEW n \in Nat, NEW S, S \subseteq 1..n
  PROVE  Largest(S) \in 0..n /\ (Largest(S) # 0 => Largest(S) \in S)
<1>1. CASE S = {}
  BY <1>1 DEF Largest
<1>2. CASE S # {}
  <2>1. Largest(S) \in S
    BY <1>2, LargestIsIn
  <2>2. Largest(S) \in 1..n
    BY <2>1
  <2> QED
    BY <2>1, <2>2
<1> QED
  BY <1>1, <1>2

\* The frames of a stack, below its top and with another top.
LEMMA BelowIs ==
  ASSUME stack \in Seq(Frame), stack # <<>>
  PROVE  /\ Len(stack) \in Nat \ {0} /\ DOMAIN stack = 1..Len(stack)
         /\ Top \in Frame
         /\ Below \in Seq(Frame) /\ Len(Below) = Len(stack) - 1
         /\ DOMAIN Below = 1..(Len(stack) - 1)
         /\ \A i \in 1..(Len(stack) - 1) : Below[i] = stack[i]
<1>1. Len(stack) \in Nat \ {0} /\ DOMAIN stack = 1..Len(stack)
  OBVIOUS
<1>2. Top \in Frame
  BY <1>1 DEF Top
<1>3. Below = [i \in 1..(Len(stack) - 1) |-> stack[i]]
  BY <1>1 DEF Below
<1>4. \A i \in 1..(Len(stack) - 1) : stack[i] \in Frame
  BY <1>1
<1> QED
  BY <1>1, <1>2, <1>3, <1>4

LEMMA AppendIs ==
  ASSUME NEW T, NEW s \in Seq(T), NEW e \in T
  PROVE  /\ Append(s, e) \in Seq(T) /\ Len(Append(s, e)) = Len(s) + 1
         /\ DOMAIN Append(s, e) = 1..(Len(s) + 1)
         /\ \A i \in 1..Len(s) : Append(s, e)[i] = s[i]
         /\ Append(s, e)[Len(s) + 1] = e
OBVIOUS

LEMMA WithTopIs ==
  ASSUME stack \in Seq(Frame), stack # <<>>, NEW f \in Frame
  PROVE  /\ WithTop(f) \in Seq(Frame) /\ Len(WithTop(f)) = Len(stack)
         /\ DOMAIN WithTop(f) = 1..Len(stack)
         /\ \A i \in 1..(Len(stack) - 1) : WithTop(f)[i] = stack[i]
         /\ WithTop(f)[Len(stack)] = f
<1>1. /\ Len(stack) \in Nat \ {0} /\ Below \in Seq(Frame)
      /\ Len(Below) = Len(stack) - 1
      /\ \A i \in 1..(Len(stack) - 1) : Below[i] = stack[i]
  BY BelowIs
<1>2. Len(Below) + 1 = Len(stack)
  BY <1>1
<1> HIDE DEF Below
<1>3. /\ WithTop(f) \in Seq(Frame) /\ Len(WithTop(f)) = Len(Below) + 1
      /\ DOMAIN WithTop(f) = 1..(Len(Below) + 1)
      /\ \A i \in 1..Len(Below) : WithTop(f)[i] = Below[i]
      /\ WithTop(f)[Len(Below) + 1] = f
  BY <1>1, AppendIs DEF WithTop
<1> QED
  BY <1>1, <1>2, <1>3

LEMMA OnTopIs ==
  ASSUME stack \in Seq(Frame), NEW fs \in Seq(Frame)
  PROVE  /\ stack \o fs \in Seq(Frame)
         /\ Len(stack \o fs) = Len(stack) + Len(fs)
         /\ DOMAIN (stack \o fs) = 1..(Len(stack) + Len(fs))
         /\ \A i \in 1..Len(stack) : (stack \o fs)[i] = stack[i]
         /\ \A i \in 1..Len(fs) : (stack \o fs)[Len(stack) + i] = fs[i]
OBVIOUS

-----------------------------------------------------------------------------
(* Frames                                                                   *)

BeginFrame ==
  [kind : {"begin"}, phase : {"body", "match", "rescue", "ensure"},
   clauses : {"none", "classes", "list"}, ensure : BOOLEAN, loop : BOOLEAN,
   saved : Result, exc : MaybeException, prev : MaybeException]

LEMMA FrameFields ==
  ASSUME NEW f \in Frame
  PROVE  /\ f.kind \in {"main", "method", "block", "site", "builtin", "catch",
                        "begin", "ending"}
         /\ f.kind = "main" => f = Main
         /\ f.kind = "method" => f.id \in Nat /\ f.blk \in MaybeProc
         /\ f.kind = "block" => f.id \in Nat /\ f.blk \in Proc
         /\ f.kind = "site" => f.id \in Nat
         /\ f.kind = "builtin" => f.takes \in BOOLEAN
         /\ f.kind = "catch" => f.tag \in Tags
         /\ f.kind = "begin" => f \in BeginFrame
         /\ f.kind = "ending" => f.out \in {0, 1}
BY DEF Frame, Main, BeginFrame

LEMMA BeginIsFrame ==
  ASSUME NEW f \in BeginFrame
  PROVE  f \in Frame /\ f.kind = "begin"
BY DEF BeginFrame, Frame

LEMMA BeginFields ==
  ASSUME NEW f \in BeginFrame, NEW p \in {"body", "match", "rescue", "ensure"},
         NEW r \in Result, NEW x \in MaybeException, NEW b \in MaybeException
  PROVE  LET g == [f EXCEPT !.phase = p, !.saved = r, !.exc = x, !.prev = b] IN
         /\ g \in BeginFrame /\ g \in Frame
         /\ g.kind = "begin" /\ g.phase = p /\ g.saved = r /\ g.exc = x /\ g.prev = b
         /\ g.ensure = f.ensure /\ g.loop = f.loop /\ g.clauses = f.clauses
BY DEF BeginFrame, Frame

LEMMA MatchFields ==
  ASSUME NEW f \in BeginFrame, NEW r \in Result, NEW x \in MaybeException
  PROVE  LET g == [f EXCEPT !.phase = "match", !.saved = r, !.exc = x] IN
         /\ g \in BeginFrame /\ g \in Frame
         /\ g.kind = "begin" /\ g.phase = "match" /\ g.saved = r /\ g.exc = x
         /\ g.prev = f.prev
         /\ g.ensure = f.ensure /\ g.loop = f.loop /\ g.clauses = f.clauses
BY DEF BeginFrame, Frame

-----------------------------------------------------------------------------
(* The stack: the main program, or its end, is at the bottom and nowhere    *)
(* else; a begin belongs to a method, a block or the main program.          *)

Grounded(s) ==
  /\ s \in Seq(Frame)
  /\ s # <<>> => s[1].kind \in {"main", "ending"}
  /\ \A i \in DOMAIN s : i # 1 => s[i].kind \notin {"main", "ending"}
  /\ \A i \in DOMAIN s : s[i].kind = "begin" => \E j \in 1..(i - 1) : IsUnit(s[j])

LEMMA PopKeeps ==
  ASSUME Grounded(stack), stack # <<>>
  PROVE  Grounded(Below)
<1>1. /\ Len(stack) \in Nat \ {0} /\ DOMAIN stack = 1..Len(stack)
      /\ Below \in Seq(Frame) /\ Len(Below) = Len(stack) - 1
      /\ DOMAIN Below = 1..(Len(stack) - 1)
      /\ \A i \in 1..(Len(stack) - 1) : Below[i] = stack[i]
  BY BelowIs DEF Grounded
<1> HIDE DEF Below
<1>2. Below # <<>> => 1 \in 1..(Len(stack) - 1)
  BY <1>1
<1>3. ASSUME NEW i \in DOMAIN Below, Below[i].kind = "begin"
      PROVE  \E j \in 1..(i - 1) : IsUnit(Below[j])
  <2>1. i \in DOMAIN stack /\ stack[i].kind = "begin"
    BY <1>1, <1>3
  <2>2. PICK j \in 1..(i - 1) : IsUnit(stack[j])
    BY <2>1 DEF Grounded
  <2>3. j \in 1..(Len(stack) - 1)
    BY <1>1
  <2> QED
    BY <2>2, <2>3, <1>1
<1> QED
  BY <1>1, <1>2, <1>3 DEF Grounded

LEMMA ReplaceKeeps ==
  ASSUME Grounded(stack), stack # <<>>, Top.kind = "begin",
         NEW f \in Frame, f.kind = "begin"
  PROVE  Grounded(WithTop(f))
<1>1. /\ Len(stack) \in Nat \ {0} /\ DOMAIN stack = 1..Len(stack)
      /\ WithTop(f) \in Seq(Frame) /\ DOMAIN WithTop(f) = 1..Len(stack)
      /\ \A i \in 1..(Len(stack) - 1) : WithTop(f)[i] = stack[i]
      /\ WithTop(f)[Len(stack)] = f
  BY BelowIs, WithTopIs DEF Grounded
<1>2. Len(stack) # 1
  BY <1>1 DEF Grounded, Top
<1>3. ASSUME NEW i \in 1..Len(stack)
      PROVE  i \in 1..(Len(stack) - 1) \/ i = Len(stack)
  <2>1. Len(stack) \in Nat
    BY <1>1
  <2> QED
    BY <2>1
<1>4. ASSUME NEW i \in 1..Len(stack), WithTop(f)[i].kind = "begin"
      PROVE  \E j \in 1..(i - 1) : IsUnit(WithTop(f)[j])
  <2>1. stack[i].kind = "begin"
    BY <1>1, <1>3, <1>4 DEF Top
  <2>2. PICK j \in 1..(i - 1) : IsUnit(stack[j])
    BY <1>1, <2>1 DEF Grounded
  <2>3. j \in 1..(Len(stack) - 1)
    BY <1>1
  <2> QED
    BY <2>2, <2>3, <1>1
<1>5. 1 \in 1..(Len(stack) - 1)
  BY <1>1, <1>2
<1>6. \A i \in 1..Len(stack) : i # 1 => WithTop(f)[i].kind \notin {"main", "ending"}
  BY <1>1, <1>3 DEF Grounded
<1> QED
  BY <1>1, <1>4, <1>5, <1>6 DEF Grounded

\* Calls put methods, blocks, call sites and builtins on the stack.
LEMMA PushKeeps ==
  ASSUME Grounded(stack), stack # <<>>, NEW fs \in Seq(Frame),
         \A i \in 1..Len(fs) : fs[i].kind \notin {"main", "ending"},
         \A i \in 1..Len(fs) : fs[i].kind = "begin" =>
                \E j \in 1..Len(stack) : IsUnit(stack[j])
  PROVE  Grounded(stack \o fs)
<1> DEFINE s == stack \o fs
<1>1. /\ Len(stack) \in Nat \ {0} /\ DOMAIN stack = 1..Len(stack) /\ Len(fs) \in Nat
      /\ s \in Seq(Frame) /\ DOMAIN s = 1..(Len(stack) + Len(fs))
      /\ \A i \in 1..Len(stack) : s[i] = stack[i]
      /\ \A i \in 1..Len(fs) : s[Len(stack) + i] = fs[i]
  BY BelowIs, OnTopIs DEF Grounded
<1> HIDE DEF s
<1>2. ASSUME NEW i \in DOMAIN s, ~(i \in 1..Len(stack))
      PROVE  i - Len(stack) \in 1..Len(fs) /\ s[i] = fs[i - Len(stack)]
  <2>1. i - Len(stack) \in 1..Len(fs) /\ Len(stack) + (i - Len(stack)) = i
    BY <1>1, <1>2
  <2> QED
    BY <2>1, <1>1
<1>3. ASSUME NEW i \in DOMAIN s, i # 1
      PROVE  s[i].kind \notin {"main", "ending"}
  <2>1. CASE i \in 1..Len(stack)
    BY <2>1, <1>1, <1>3 DEF Grounded
  <2>2. CASE ~(i \in 1..Len(stack))
    BY <2>2, <1>2
  <2> QED
    BY <2>1, <2>2
<1>4. ASSUME NEW i \in DOMAIN s, s[i].kind = "begin"
      PROVE  \E j \in 1..(i - 1) : IsUnit(s[j])
  <2>1. CASE i \in 1..Len(stack)
    <3>1. PICK j \in 1..(i - 1) : IsUnit(stack[j])
      BY <2>1, <1>1, <1>4 DEF Grounded
    <3>2. j \in 1..Len(stack)
      BY <2>1, <1>1
    <3> QED
      BY <3>1, <3>2, <1>1
  <2>2. CASE ~(i \in 1..Len(stack))
    <3>1. PICK j \in 1..Len(stack) : IsUnit(stack[j])
      BY <2>2, <1>2, <1>4
    <3>2. j \in 1..(i - 1) /\ s[j] = stack[j]
      BY <2>2, <1>1
    <3> QED
      BY <3>1, <3>2
  <2> QED
    BY <2>1, <2>2
<1>5. s # <<>> /\ s[1].kind \in {"main", "ending"}
  <2>1. 1 \in 1..Len(stack) /\ 1 \in DOMAIN s
    BY <1>1
  <2>2. s[1].kind \in {"main", "ending"}
    BY <2>1, <1>1 DEF Grounded
  <2> QED
    BY <2>1, <2>2
<1>6. Grounded(s)
  BY <1>1, <1>3, <1>4, <1>5 DEF Grounded
<1> QED
  BY <1>6 DEF s

-----------------------------------------------------------------------------
(* The steps, by what they do to the registers                              *)

TypeInv == TypeOK /\ Grounded(stack)

MaybeSignal == Signals \cup {None}
Marks == {"signal", "taken", "object", "clause"}

LEMMA IndicesAreNat ==
  ASSUME TypeInv, CanRun
  PROVE  /\ UnitIndex \in DOMAIN stack /\ IsUnit(Unit) /\ Unit \in Frame
         /\ \A i \in DOMAIN stack : i > UnitIndex => ~IsUnit(stack[i])
         /\ LoopIndex \in 0..Len(stack)
         /\ \A n : Activation(n) \in 0..Len(stack)
         /\ \A n : SiteIndex(n) \in 0..Len(stack)
         /\ \A t : CatchIndex(t) \in 0..Len(stack)
         /\ \A p : Largest(Enclosing(p)) \in 0..Len(stack)
<1> DEFINE n == Len(stack)
<1>1. n \in Nat \ {0} /\ DOMAIN stack = 1..n /\ Top \in Frame /\ stack \in Seq(Frame)
  BY BelowIs DEF TypeInv, Grounded, CanRun
<1> DEFINE S == {i \in DOMAIN stack : IsUnit(stack[i])}
<1>2. S \subseteq 1..n /\ S # {}
  <2>1. CASE IsUnit(Top)
    BY <2>1, <1>1 DEF Top
  <2>2. CASE Top.kind = "begin"
    <3>1. PICK j \in 1..(n - 1) : IsUnit(stack[j])
      BY <2>2, <1>1 DEF TypeInv, Grounded, Top
    <3> QED
      BY <3>1, <1>1
  <2> QED
    BY <2>1, <2>2, <1>1 DEF CanRun, IsChunk, IsUnit
<1>3. UnitIndex \in S /\ \A j \in S : j <= UnitIndex
  <2> HIDE DEF S
  <2>1. Largest(S) \in S /\ \A j \in S : j <= Largest(S)
    BY <1>1, <1>2, LargestIsIn
  <2> QED
    BY <2>1 DEF UnitIndex, S
<1>4. UnitIndex \in 1..n /\ IsUnit(stack[UnitIndex])
  BY <1>3, <1>1
<1>5. \A i \in DOMAIN stack : i > UnitIndex => ~IsUnit(stack[i])
  <2> SUFFICES ASSUME NEW i \in DOMAIN stack, i > UnitIndex, IsUnit(stack[i])
               PROVE  FALSE
    OBVIOUS
  <2>1. i \in S
    OBVIOUS
  <2>2. i <= UnitIndex /\ i \in Nat
    BY <2>1, <1>1, <1>3
  <2> QED
    BY <2>2, <1>1, <1>4
<1> HIDE DEF S
<1>6. \A T : T \subseteq 1..n => Largest(T) \in 0..n
  BY <1>1, LargestBound
<1>7. LoopIndex \in 0..n
  <2>1. {i \in UnitIndex + 1 .. n : stack[i].loop} \subseteq 1..n
    BY <1>1, <1>4
  <2> QED
    BY <2>1, <1>6 DEF LoopIndex
<1>8. ASSUME NEW m PROVE Activation(m) \in 0..n
  <2>1. {i \in DOMAIN stack : IsUnit(stack[i]) /\ stack[i].id = m} \subseteq 1..n
    BY <1>1
  <2> QED
    BY <2>1, <1>6 DEF Activation
<1>9. ASSUME NEW m PROVE SiteIndex(m) \in 0..n
  <2>1. {i \in DOMAIN stack : stack[i].kind = "site" /\ stack[i].id = m} \subseteq 1..n
    BY <1>1
  <2> QED
    BY <2>1, <1>6 DEF SiteIndex
<1>10. ASSUME NEW t PROVE CatchIndex(t) \in 0..n
  <2>1. {i \in DOMAIN stack : stack[i].kind = "catch" /\ stack[i].tag = t} \subseteq 1..n
    BY <1>1
  <2> QED
    BY <2>1, <1>6 DEF CatchIndex
<1>11. ASSUME NEW q PROVE Largest(Enclosing(q)) \in 0..n
  <2>1. Enclosing(q) \subseteq 1..n
    BY <1>1, <1>4 DEF Enclosing
  <2> QED
    BY <2>1, <1>6
<1> QED
  BY <1>1, <1>4, <1>5, <1>7, <1>8, <1>9, <1>10, <1>11 DEF Unit

LEMMA ProcsAreTyped ==
  ASSUME TypeInv, CanRun
  PROVE  /\ Home(Unit) \in Nat /\ ReturnsFrom(Unit) \in Nat
         /\ \A b \in BOOLEAN : Literal(b) \in Proc
         /\ CurrentBlock \in MaybeProc
<1>1. Unit \in Frame /\ IsUnit(Unit) /\ next \in Nat /\ stack \in Seq(Frame)
  BY IndicesAreNat DEF TypeInv, TypeOK
<1>2. /\ Unit.id \in Nat
      /\ Unit.kind = "block" => Unit.blk \in Proc
  BY <1>1, FrameFields DEF IsUnit, Main
<1>3. Home(Unit) \in Nat /\ ReturnsFrom(Unit) \in Nat
  BY <1>2 DEF Home, ReturnsFrom, Proc
<1>4. ASSUME NEW b \in BOOLEAN PROVE Literal(b) \in Proc
  BY <1>1, <1>3 DEF Literal, Proc
<1>5. CurrentBlock \in MaybeProc
  <2> DEFINE m == Activation(Home(Unit))
  <2>1. m \in 0..Len(stack)
    BY IndicesAreNat
  <2> HIDE DEF m
  <2>2. CASE m = 0 \/ stack[m].kind # "method"
    BY <2>2 DEF CurrentBlock, m, MaybeProc
  <2>3. CASE ~(m = 0 \/ stack[m].kind # "method")
    <3>1. stack[m] \in Frame
      BY <2>1, <2>3, <1>1
    <3>2. stack[m].blk \in MaybeProc
      BY <3>1, <2>3, FrameFields
    <3> QED
      BY <3>2, <2>3 DEF CurrentBlock, m
  <2> QED
    BY <2>2, <2>3
<1> QED
  BY <1>3, <1>4, <1>5

\* The frames a call puts on the stack.
Callee(fs) ==
  /\ fs \in Seq(Frame) /\ fs # <<>>
  /\ \A i \in 1..Len(fs) : fs[i].kind \notin {"main", "ending", "begin"}
BeginFrames ==
  {<<BeginBlock(c, e, l)>> : c \in {"none", "classes", "list"}, e, l \in BOOLEAN}

RaisedInTime(e, pe, marks) ==
  \/ pe = e
  \/ pe = None /\ e = Inferred(e.id)
  \/ "object" \in marks

Leaps ==
  \E sg \in Signals, g \in 0..Len(stack), lost \in BOOLEAN :
     /\ Leap(sg, g, lost) /\ lexical' \in BOOLEAN
     /\ sg.kind = "throw" => lost /\ g = CatchIndex(sg.to) /\ g # 0

Fails ==
  \E e \in Exception, pe \in MaybeException, marks \in SUBSET {"object"} :
     Fail(e, pe, marks) /\ RaisedInTime(e, pe, marks)

\* What a step of the program amounts to.
ProgramMove ==
  \/ \E fs : Callee(fs) /\ Enter(fs)
  \/ \E fs \in BeginFrames : Enter(fs)
  \/ Returns /\ kept' \in MaybeProc /\ at_exit_procs' \in Seq(Proc)
  \/ Leaps
  \/ Fails
  \/ End

LEMMA CalleeIs ==
  ASSUME NEW a \in Frame, NEW b \in Frame, NEW c \in Frame,
         {a.kind, b.kind, c.kind} \cap {"main", "ending", "begin"} = {}
  PROVE  Callee(<<a>>) /\ Callee(<<a, b>>) /\ Callee(<<a, b, c>>)
<1> DEFINE Good(f) == f.kind \notin {"main", "ending", "begin"}
<1>1. Good(a) /\ Good(b) /\ Good(c)
  OBVIOUS
<1> HIDE DEF Good
<1>2. <<a>> \in Seq(Frame) /\ <<a>> # <<>> /\ \A i \in 1..Len(<<a>>) : Good(<<a>>[i])
  BY <1>1
<1>3. <<a, b>> \in Seq(Frame) /\ <<a, b>> # <<>> /\ \A i \in 1..Len(<<a, b>>) : Good(<<a, b>>[i])
  <2>1. \A i \in 1..2 : i = 1 \/ i = 2
    OBVIOUS
  <2> QED
    BY <1>1, <2>1
<1>4. /\ <<a, b, c>> \in Seq(Frame) /\ <<a, b, c>> # <<>>
      /\ \A i \in 1..Len(<<a, b, c>>) : Good(<<a, b, c>>[i])
  <2>1. \A i \in 1..3 : i = 1 \/ i = 2 \/ i = 3
    OBVIOUS
  <2> QED
    BY <1>1, <2>1
<1> QED
  BY <1>2, <1>3, <1>4 DEF Callee, Good

LEMMA CallsAreMoves ==
  ASSUME TypeInv,
         \/ Call \/ CallWithBlock \/ Yield \/ CallKept
         \/ \E b \in BOOLEAN : Iterate(b) \/ Forward(b)
         \/ \E t \in Tags : Catch(t)
  PROVE  \E fs : Callee(fs) /\ Enter(fs)
<1>1. next \in Nat /\ kept \in MaybeProc
  BY DEF TypeInv, TypeOK
<1>2. CanRun
  BY DEF Call, CallWithBlock, Yield, CallKept, Iterate, Forward, Catch, Enter, CanAct
<1>3. Literal(FALSE) \in Proc /\ Literal(FALSE) \in MaybeProc /\ CurrentBlock \in MaybeProc
  BY <1>2, ProcsAreTyped DEF MaybeProc
<1>4. None \in MaybeProc
  BY DEF MaybeProc
<1>5. CASE Call
  <2>1. Method(None) \in Frame /\ Method(None).kind = "method"
    BY <1>1, <1>4 DEF Method, Frame
  <2>2. Callee(<<Method(None)>>)
    BY <2>1, CalleeIs
  <2> QED
    BY <2>2, <1>5 DEF Call
<1>6. CASE CallWithBlock
  <2> DEFINE l == Literal(FALSE)
  <2>1. l \in MaybeProc
    BY <1>3
  <2> HIDE DEF l
  <2>2. Site \in Frame /\ Method(l) \in Frame /\ Site.kind = "site" /\ Method(l).kind = "method"
    BY <1>1, <2>1 DEF Site, Method, Frame
  <2>3. Callee(<<Site, Method(l)>>)
    BY <2>2, CalleeIs
  <2> QED
    BY <2>3, <1>6 DEF CallWithBlock, l
<1>7. CASE Yield
  <2> DEFINE l == CurrentBlock
  <2>1. l \in Proc
    BY <1>3, <1>7 DEF Yield, MaybeProc
  <2> HIDE DEF l
  <2>2. Block(l) \in Frame /\ Block(l).kind = "block"
    BY <1>1, <2>1 DEF Block, Frame
  <2>3. Callee(<<Block(l)>>)
    BY <2>2, CalleeIs
  <2> QED
    BY <2>3, <1>7 DEF Yield, l
<1>8. CASE CallKept
  <2>1. kept \in Proc
    BY <1>1, <1>8 DEF CallKept, MaybeProc
  <2>2. /\ Builtin(FALSE) \in Frame /\ Builtin(FALSE).kind = "builtin"
        /\ Block(kept) \in Frame /\ Block(kept).kind = "block"
    BY <1>1, <2>1 DEF Builtin, Block, Frame
  <2>3. Callee(<<Builtin(FALSE), Block(kept)>>)
    BY <2>2, CalleeIs
  <2> QED
    BY <2>3, <1>8 DEF CallKept
<1>9. ASSUME NEW b \in BOOLEAN, Iterate(b)
      PROVE  \E fs : Callee(fs) /\ Enter(fs)
  <2> DEFINE l == Literal(FALSE)
  <2>1. l \in Proc
    BY <1>3
  <2> HIDE DEF l
  <2>2. /\ Site \in Frame /\ Site.kind = "site"
        /\ Builtin(b) \in Frame /\ Builtin(b).kind = "builtin"
        /\ Block(l) \in Frame /\ Block(l).kind = "block"
    BY <1>1, <2>1 DEF Site, Builtin, Block, Frame
  <2>3. Callee(<<Site, Builtin(b), Block(l)>>)
    BY <2>2, CalleeIs
  <2> QED
    BY <2>3, <1>9 DEF Iterate, l
<1>10. ASSUME NEW b \in BOOLEAN, Forward(b)
       PROVE  \E fs : Callee(fs) /\ Enter(fs)
  <2> DEFINE l == CurrentBlock
  <2>1. l \in Proc
    BY <1>3, <1>10 DEF Forward, MaybeProc
  <2> HIDE DEF l
  <2>2. /\ Builtin(b) \in Frame /\ Builtin(b).kind = "builtin"
        /\ Block(l) \in Frame /\ Block(l).kind = "block"
    BY <1>1, <2>1 DEF Builtin, Block, Frame
  <2>3. Callee(<<Builtin(b), Block(l)>>)
    BY <2>2, CalleeIs
  <2> QED
    BY <2>3, <1>10 DEF Forward, l
<1>11. ASSUME NEW t \in Tags, Catch(t)
       PROVE  \E fs : Callee(fs) /\ Enter(fs)
  <2> DEFINE l == Literal(FALSE)
  <2>1. l \in Proc
    BY <1>3
  <2> HIDE DEF l
  <2>2. /\ Site \in Frame /\ Site.kind = "site"
        /\ CatchCall(t) \in Frame /\ CatchCall(t).kind = "catch"
        /\ Block(l) \in Frame /\ Block(l).kind = "block"
    BY <1>1, <2>1 DEF Site, CatchCall, Block, Frame
  <2>3. Callee(<<Site, CatchCall(t), Block(l)>>)
    BY <2>2, CalleeIs
  <2> QED
    BY <2>3, <1>11 DEF Catch, l
<1> QED
  BY <1>5, <1>6, <1>7, <1>8, <1>9, <1>10, <1>11

LEMMA JumpsAreMoves ==
  ASSUME TypeInv,
         \/ Return \/ Break \/ NextIteration \/ Retry
         \/ \E t \in Tags : Throw(t)
  PROVE  Leaps
<1> DEFINE n == Len(stack)
<1>1. lexical \in BOOLEAN
  BY DEF TypeInv, TypeOK
<1>2. CanRun
  BY DEF Return, Break, NextIteration, Retry, Throw, Leap, CanAct
<1>3. /\ LoopIndex \in 0..n /\ UnitIndex \in 0..n
      /\ \A m : Activation(m) \in 0..n /\ SiteIndex(m) \in 0..n
      /\ \A t : CatchIndex(t) \in 0..n
      /\ Largest(Enclosing({"rescue"})) \in 0..n
      /\ n \in Nat \ {0}
  <2>1. stack \in Seq(Frame) /\ stack # <<>>
    BY <1>2 DEF TypeInv, Grounded, CanRun
  <2>2. n \in Nat \ {0} /\ DOMAIN stack = 1..n
    BY <2>1, BelowIs
  <2> QED
    BY <1>2, <2>2, IndicesAreNat
<1>4. /\ \A k \in {"break", "next", "retry"} :
             Jump(k, None) \in Signals /\ Jump(k, None).kind # "throw"
      /\ Jump("return", None) \in Signals /\ Jump("return", None).kind # "throw"
      /\ \A t \in Tags : Jump("throw", t) \in Signals /\ Jump("throw", t).to = t
  BY DEF Jump, Signals
<1>5. ASSUME NEW sg \in Signals, sg.kind # "throw", NEW g \in 0..n, NEW lost \in BOOLEAN,
             Leap(sg, g, lost), lexical' \in BOOLEAN
      PROVE  Leaps
  BY <1>5 DEF Leaps
<1> HIDE DEF n
<1>6. CASE Return
  <2> DEFINE lam == Activation(ReturnsFrom(Unit))
             met == Activation(Home(Unit))
             g == IF lam # 0 THEN lam ELSE IF met # 0 THEN met ELSE 1
  <2>1. g \in 0..n
    BY <1>3
  <2>2. Leap(Jump("return", None), g, FALSE) /\ lexical' \in BOOLEAN
    BY <1>1, <1>6 DEF Return
  <2> HIDE DEF g
  <2> QED
    BY <2>1, <2>2, <1>4, <1>5
<1>7. CASE Break
  <2> DEFINE g == IF LoopIndex # 0 THEN LoopIndex
                  ELSE IF Unit.blk.lambda THEN UnitIndex
                  ELSE SiteIndex(Unit.blk.adopt)
             lost == LoopIndex = 0 /\ ~Unit.blk.lambda
  <2>1. g \in 0..n /\ lost \in BOOLEAN
    BY <1>3
  <2>2. Leap(Jump("break", None), g, lost) /\ lexical' \in BOOLEAN
    BY <1>7 DEF Break
  <2> HIDE DEF g, lost
  <2> QED
    BY <2>1, <2>2, <1>4, <1>5
<1>8. CASE NextIteration
  <2> DEFINE g == IF LoopIndex # 0 THEN LoopIndex ELSE UnitIndex
  <2>1. g \in 0..n
    BY <1>3
  <2>2. Leap(Jump("next", None), g, FALSE) /\ lexical' \in BOOLEAN
    BY <1>1, <1>8 DEF NextIteration
  <2> HIDE DEF g
  <2> QED
    BY <2>1, <2>2, <1>4, <1>5
<1>9. CASE Retry
  <2> DEFINE g == Largest(Enclosing({"rescue"}))
  <2>1. g \in 0..n
    BY <1>3
  <2>2. Leap(Jump("retry", None), g, FALSE) /\ lexical' \in BOOLEAN
    BY <1>1, <1>9 DEF Retry
  <2> HIDE DEF g
  <2> QED
    BY <2>1, <2>2, <1>4, <1>5
<1>10. ASSUME NEW t \in Tags, Throw(t)
       PROVE  Leaps
  <2>1. Leap(Jump("throw", t), CatchIndex(t), TRUE) /\ lexical' \in BOOLEAN
    BY <1>1, <1>10 DEF Throw
  <2>2. CatchIndex(t) \in 0..n /\ CatchIndex(t) # 0
    BY <1>3, <1>10 DEF Throw, CatchTagActive
  <2>3. Jump("throw", t) \in Signals /\ CatchIndex(Jump("throw", t).to) = CatchIndex(t)
    BY <1>4
  <2> QED
    BY <2>1, <2>2, <2>3 DEF Leaps, n
<1> QED
  BY <1>6, <1>7, <1>8, <1>9, <1>10

LEMMA ErrorsAreMoves ==
  ASSUME TypeInv,
         \/ Raise \/ Reraise \/ Exit
         \/ \E t \in Tags : ThrowUncaught(t)
         \/ \E b \in BOOLEAN : RaiseBare(b)
  PROVE  Fails
<1>1. /\ next \in Nat /\ bang \in MaybeException /\ pending_exc \in MaybeException
  BY DEF TypeInv, TypeOK
<1>2. /\ Raised(next, "error") \in Exception /\ Raised(next, "exit") \in Exception
      /\ Inferred(next) \in Exception
  BY <1>1 DEF Raised, Inferred, Exception
<1>3. ASSUME NEW e \in Exception, Fail(e, e, {})
      PROVE  Fails
  BY <1>3 DEF Fails, RaisedInTime, MaybeException
<1>4. CASE Raise
  BY <1>4, <1>2, <1>3 DEF Raise
<1>5. CASE Exit
  BY <1>5, <1>2, <1>3 DEF Exit
<1>6. CASE Reraise
  BY <1>6, <1>1, <1>3 DEF Reraise, MaybeException
<1>7. ASSUME NEW t \in Tags, ThrowUncaught(t)
      PROVE  Fails
  BY <1>7, <1>2, <1>3 DEF ThrowUncaught
<1>8. ASSUME NEW b \in BOOLEAN, RaiseBare(b)
      PROVE  Fails
  <2> DEFINE e == Inferred(next)
             pe == IF b THEN Framed(Err(e), signal) ELSE pending_exc
             marks == When(pending_exc # None, "object")
  <2>1. e \in Exception /\ e = Inferred(e.id)
    BY <1>2 DEF Inferred
  <2>2. marks \in SUBSET {"object"}
    BY DEF When
  <2>3. Framed(Err(e), signal) \in {e, pending_exc}
    BY DEF Framed, Err, IsErr, Inferred
  <2>4. pe \in MaybeException
    BY <2>1, <2>3, <1>1 DEF MaybeException
  <2>5. pending_exc # None => "object" \in marks
    BY DEF When
  <2>6. Fail(e, pe, marks)
    BY <1>8 DEF RaiseBare
  <2>7. pe = e \/ pe = pending_exc
    BY <2>3
  <2> HIDE DEF e, pe, marks
  <2>8. RaisedInTime(e, pe, marks)
    BY <2>1, <2>5, <2>7 DEF RaisedInTime
  <2> QED
    BY <2>1, <2>2, <2>4, <2>6, <2>8 DEF Fails
<1> QED
  BY <1>4, <1>5, <1>6, <1>7, <1>8

LEMMA ProgramStepIsMove ==
  ASSUME TypeInv, ProgramStep
  PROVE  ProgramMove
<1>1. /\ kept \in MaybeProc /\ at_exit_procs \in Seq(Proc)
  BY DEF TypeInv, TypeOK
<1>2. CASE \/ Call \/ CallWithBlock \/ Yield \/ CallKept
           \/ \E b \in BOOLEAN : Iterate(b) \/ Forward(b)
           \/ \E t \in Tags : Catch(t)
  BY <1>2, CallsAreMoves DEF ProgramMove
<1>3. CASE \/ Return \/ Break \/ NextIteration \/ Retry
           \/ \E t \in Tags : Throw(t)
  BY <1>3, JumpsAreMoves DEF ProgramMove
<1>4. CASE \/ Raise \/ Reraise \/ Exit
           \/ \E t \in Tags : ThrowUncaught(t)
           \/ \E b \in BOOLEAN : RaiseBare(b)
  BY <1>4, ErrorsAreMoves DEF ProgramMove
<1>5. CASE \E c \in {"none", "classes", "list"}, e, l \in BOOLEAN : Begin(c, e, l)
  <2> PICK c \in {"none", "classes", "list"}, e \in BOOLEAN, l \in BOOLEAN : Begin(c, e, l)
    BY <1>5
  <2>1. Enter(<<BeginBlock(c, e, l)>>)
    BY DEF Begin
  <2>2. <<BeginBlock(c, e, l)>> \in BeginFrames
    BY DEF BeginFrames
  <2> QED
    BY <2>1, <2>2 DEF ProgramMove
<1>6. ASSUME NEW b \in BOOLEAN, Keep(b)
      PROVE  ProgramMove
  <2>1. Returns /\ kept' = Literal(b) /\ at_exit_procs' = at_exit_procs
    BY <1>6 DEF Keep
  <2>2. CanRun
    BY <2>1 DEF Returns, CanAct
  <2>3. kept' \in MaybeProc
    BY <2>1, <2>2, ProcsAreTyped DEF MaybeProc
  <2> QED
    BY <2>1, <2>3, <1>1 DEF ProgramMove
<1>7. CASE AtExit
  <2>1. Returns /\ kept' = kept /\ at_exit_procs' = Append(at_exit_procs, Literal(FALSE))
    BY <1>7 DEF AtExit
  <2>2. CanRun
    BY <2>1 DEF Returns, CanAct
  <2>3. Literal(FALSE) \in Proc
    BY <2>2, ProcsAreTyped
  <2>4. at_exit_procs' \in Seq(Proc)
    BY <2>1, <2>3, <1>1, AppendIs
  <2> QED
    BY <2>1, <2>4, <1>1 DEF ProgramMove
<1>8. CASE End
  BY <1>8 DEF ProgramMove
<1> QED
  BY <1>2, <1>3, <1>4, <1>5, <1>6, <1>7, <1>8 DEF ProgramStep

-----------------------------------------------------------------------------
(* Type correctness                                                         *)

LEMMA ResultsAreTyped ==
  /\ Running \in Result /\ Ok \in Result /\ ~IsErr(Running) /\ ~IsErr(Ok)
  /\ \A e \in Exception : Err(e) \in Result /\ IsErr(Err(e)) /\ Err(e).exc = e
  /\ \A r \in Result : IsErr(r) => r.exc \in Exception /\ r # Running /\ r = Err(r.exc)
BY DEF Running, Ok, Err, IsErr, Result

LEMMA SignalsAreTyped ==
  ASSUME NEW sg \in Signals
  PROVE  /\ sg.kind \in {"return", "break", "next", "retry", "throw"}
         /\ sg.kind = "throw" => sg.to \in Tags /\ sg = Jump("throw", sg.to)
         /\ sg.kind = "return" => sg.to \in Nat \cup {None}
BY DEF Signals, Jump

LEMMA AnswerTyped ==
  ASSUME TypeInv, stack # <<>>, NEW r \in Result, NEW sg \in MaybeSignal, Answer(r, sg)
  PROVE  /\ Grounded(stack') /\ result' \in Result
         /\ signal' \in MaybeSignal /\ goal' \in Nat
<1>1. Grounded(Below)
  BY PopKeeps DEF TypeInv
<1>2. Settled(r, sg, Below) \in Result
  BY ResultsAreTyped DEF Settled
<1>3. goal \in Nat
  BY DEF TypeInv, TypeOK
<1> QED
  BY <1>1, <1>2, <1>3 DEF Answer, Signal

LEMMA FramedTyped ==
  ASSUME TypeInv, NEW r \in Result, NEW sg
  PROVE  Framed(r, sg) \in MaybeException
<1>1. pending_exc \in MaybeException
  BY DEF TypeInv, TypeOK
<1>2. IsErr(r) => Inferred(r.exc.id) \in Exception
  <2>1. IsErr(r) => r.exc.id \in Nat
    BY ResultsAreTyped DEF Exception
  <2> QED
    BY <2>1 DEF Inferred, Exception
<1> QED
  BY <1>1, <1>2 DEF Framed, MaybeException

LEMMA LeaveTyped ==
  ASSUME TypeInv, stack # <<>>, NEW r \in Result, NEW marks \in SUBSET Marks,
         LeaveBegin(r, marks)
  PROVE  /\ Grounded(stack') /\ result' \in Result
         /\ signal' \in MaybeSignal /\ goal' \in Nat /\ strayed' \subseteq Marks
<1>1. signal \in MaybeSignal /\ strayed \subseteq Marks
  BY DEF TypeInv, TypeOK, MaybeSignal, Marks
<1>2. CASE LoopKeeps
  <2>1. /\ stack' = Below /\ signal' = None /\ goal' = 0 /\ result' = Running
        /\ strayed' = strayed \cup marks \cup Drops(r) \cup When(goal # Len(stack), "taken")
    BY <1>2 DEF LeaveBegin, Signal, Stray
  <2>2. Grounded(Below)
    BY PopKeeps DEF TypeInv
  <2>3. strayed' \subseteq Marks
    BY <2>1, <1>1 DEF Drops, When, Marks
  <2> QED
    BY <2>1, <2>2, <2>3, ResultsAreTyped DEF MaybeSignal
<1>3. CASE ~LoopKeeps
  <2>1. Answer(r, signal) /\ strayed' = strayed \cup marks
    BY <1>3 DEF LeaveBegin, Stray
  <2> QED
    BY <2>1, <1>1, AnswerTyped
<1> QED
  BY <1>2, <1>3

LEMMA ConcludeTyped ==
  ASSUME TypeInv, Over("begin"), NEW r \in Result, NEW pe \in MaybeException,
         NEW b \in MaybeException, NEW marks \in SUBSET Marks, Conclude(r, pe, b, marks)
  PROVE  TypeInv'
<1> DEFINE flying == IF IsErr(r) /\ signal = None THEN pe ELSE None
<1>1. Top \in BeginFrame /\ Top.kind = "begin" /\ Grounded(stack) /\ stack # <<>>
  BY BelowIs, FrameFields DEF TypeInv, Grounded, Over
<1>2. flying \in MaybeException /\ None \in MaybeException
  BY DEF MaybeException
<1>3. /\ pending_exc' = pe /\ UNCHANGED <<kept, at_exit_procs, status, verdict, lexical, next>>
  BY DEF Conclude, rest
<1>4. CASE Top.ensure
  <2> DEFINE f == [Top EXCEPT !.phase = "ensure", !.saved = r, !.exc = flying, !.prev = b]
  <2>1. /\ stack' = WithTop(f) /\ bang' = IF flying = None THEN b ELSE flying
        /\ result' = Running /\ UNCHANGED <<signal, goal>> /\ strayed' = strayed \cup marks
    BY <1>4 DEF Conclude, Stray
  <2> HIDE DEF flying
  <2>2. f \in Frame /\ f.kind = "begin"
    <3>1. f \in BeginFrame
      BY <1>1, <1>2 DEF BeginFrame
    <3> QED
      BY <3>1, BeginIsFrame
  <2> HIDE DEF f
  <2>3. Grounded(stack')
    BY <2>1, <2>2, <1>1, ReplaceKeeps
  <2>4. strayed' \subseteq Marks
    BY <2>1 DEF TypeInv, TypeOK, Marks
  <2>5. bang' \in MaybeException
    BY <2>1, <1>2
  <2> QED
    BY <2>1, <2>3, <2>4, <2>5, <1>3, ResultsAreTyped DEF TypeInv, TypeOK, Grounded, Marks
<1>5. CASE ~Top.ensure
  <2>1. LeaveBegin(r, marks) /\ bang' = b
    BY <1>5 DEF Conclude
  <2>2. /\ Grounded(stack') /\ result' \in Result
        /\ signal' \in MaybeSignal /\ goal' \in Nat /\ strayed' \subseteq Marks
    BY <2>1, <1>1, LeaveTyped
  <2> QED
    BY <2>1, <2>2, <1>3 DEF TypeInv, TypeOK, Grounded, Marks, MaybeSignal
<1> QED
  BY <1>4, <1>5

LEMMA HandleTyped ==
  ASSUME TypeInv, Over("begin"), NEW r \in Result, NEW x \in MaybeException,
         NEW marks \in SUBSET Marks, Handle(r, x, marks)
  PROVE  TypeInv'
<1>1. Top \in BeginFrame /\ Top.kind = "begin" /\ Grounded(stack) /\ stack # <<>>
  BY BelowIs, FrameFields DEF TypeInv, Grounded, Over
<1> DEFINE f == [Top EXCEPT !.phase = "rescue", !.saved = r, !.exc = x, !.prev = bang]
<1>2. /\ stack' = WithTop(f) /\ bang' = x /\ result' = Running /\ pending_exc' = None
      /\ strayed' = strayed \cup (marks \cup When(InsideOne, "object"))
      /\ UNCHANGED <<kept, at_exit_procs, status, verdict, signal, goal, lexical, next>>
  BY DEF Handle, Stray, rest
<1>3. f \in Frame /\ f.kind = "begin"
  <2>1. bang \in MaybeException
    BY DEF TypeInv, TypeOK
  <2>2. [Top EXCEPT !.phase = "rescue", !.saved = r, !.exc = x, !.prev = bang] \in BeginFrame
    BY <2>1, <1>1 DEF BeginFrame
  <2> QED
    BY <2>2, BeginIsFrame
<1> HIDE DEF f
<1>4. Grounded(stack')
  BY <1>1, <1>2, <1>3, ReplaceKeeps
<1>5. strayed' \subseteq Marks
  BY <1>2 DEF TypeInv, TypeOK, Marks, When
<1> QED
  BY <1>2, <1>4, <1>5, ResultsAreTyped DEF TypeInv, TypeOK, Grounded, Marks, MaybeException

LEMMA ProgramStepTyped ==
  ASSUME TypeInv, ProgramStep
  PROVE  TypeInv'
<1>1. ProgramMove
  BY ProgramStepIsMove
<1>2. /\ next \in Nat /\ next + 1 \in Nat /\ Grounded(stack) /\ strayed \subseteq Marks
  BY DEF TypeInv, TypeOK, Marks
<1>3. ASSUME NEW fs \in Seq(Frame), Enter(fs),
             \A i \in 1..Len(fs) : fs[i].kind \notin {"main", "ending"},
             \A i \in 1..Len(fs) : fs[i].kind = "begin" =>
                    \E j \in 1..Len(stack) : IsUnit(stack[j])
      PROVE  TypeInv'
  <2>1. /\ stack # <<>> /\ stack' = stack \o fs /\ next' = next + 1
        /\ strayed' = strayed \cup When(signal # None, "signal")
        /\ UNCHANGED <<result, signal, pending_exc, bang, lexical, kept,
                       at_exit_procs, status, goal, verdict>>
    BY <1>3 DEF Enter, CanAct, CanRun, Stray
  <2>2. Grounded(stack')
    BY <2>1, <1>2, <1>3, PushKeeps
  <2>3. strayed' \subseteq Marks
    BY <2>1, <1>2 DEF When, Marks
  <2> QED
    BY <2>1, <2>2, <2>3, <1>2 DEF TypeInv, TypeOK, Grounded, Marks
<1>4. ASSUME NEW fs, Callee(fs), Enter(fs)
      PROVE  TypeInv'
  BY <1>3, <1>4 DEF Callee
<1>5. ASSUME NEW fs \in BeginFrames, Enter(fs)
      PROVE  TypeInv'
  <2>1. PICK c \in {"none", "classes", "list"}, e \in BOOLEAN, l \in BOOLEAN :
             fs = <<BeginBlock(c, e, l)>>
    BY <1>5 DEF BeginFrames
  <2> DEFINE f == BeginBlock(c, e, l)
  <2>2. f \in Frame /\ f.kind = "begin"
    <3>1. f \in BeginFrame
      BY ResultsAreTyped DEF BeginBlock, BeginFrame, MaybeException
    <3> QED
      BY <3>1, BeginIsFrame
  <2>3. CanRun
    BY <1>5 DEF Enter, CanAct
  <2>4. UnitIndex \in 1..Len(stack) /\ IsUnit(stack[UnitIndex])
    BY <2>3, <1>2, IndicesAreNat, BelowIs DEF Unit, Grounded, CanRun
  <2> HIDE DEF f
  <2>5. fs \in Seq(Frame) /\ \A i \in 1..Len(fs) : fs[i] = f
    BY <2>1, <2>2 DEF f
  <2> QED
    BY <1>3, <1>5, <2>2, <2>4, <2>5
<1>6. CASE Returns /\ kept' \in MaybeProc /\ at_exit_procs' \in Seq(Proc)
  <2>1. /\ next' = next + 1 /\ result' \in {Running, Ok}
        /\ strayed' = strayed \cup When(signal # None, "signal")
        /\ UNCHANGED <<stack, signal, pending_exc, bang, lexical, status, goal, verdict>>
    BY <1>6 DEF Returns, CanAct, Stray
  <2>2. strayed' \subseteq Marks
    BY <2>1, <1>2 DEF When, Marks
  <2> QED
    BY <2>1, <2>2, <1>2, <1>6, ResultsAreTyped DEF TypeInv, TypeOK, Grounded, Marks
<1>7. CASE Leaps
  <2>1. PICK sg \in Signals, g \in 0..Len(stack), lost \in BOOLEAN :
             Leap(sg, g, lost) /\ lexical' \in BOOLEAN
    BY <1>7 DEF Leaps
  <2>2. /\ next' = next + 1 /\ result' = Ok /\ signal' = sg /\ goal' = g
        /\ strayed' = strayed \cup When(lost /\ Superseded(g) # {}, "signal")
        /\ UNCHANGED <<stack, pending_exc, bang, kept, at_exit_procs, status, verdict>>
    BY <2>1 DEF Leap, CanAct, Stray
  <2>3. strayed' \subseteq Marks
    BY <2>2, <1>2 DEF When, Marks
  <2> QED
    BY <2>1, <2>2, <2>3, <1>2, ResultsAreTyped DEF TypeInv, TypeOK, Grounded, Marks
<1>8. CASE Fails
  <2>1. PICK e \in Exception, pe \in MaybeException, marks \in SUBSET {"object"} :
             Fail(e, pe, marks)
    BY <1>8 DEF Fails
  <2>2. /\ next' = next + 1 /\ result' = Err(e) /\ pending_exc' = pe
        /\ strayed' = strayed \cup (When(signal # None, "signal") \cup marks)
        /\ UNCHANGED <<stack, signal, bang, lexical, kept, at_exit_procs, status, goal, verdict>>
    BY <2>1 DEF Fail, CanAct, Stray
  <2>3. strayed' \subseteq Marks
    BY <2>2, <1>2 DEF When, Marks
  <2> QED
    BY <2>1, <2>2, <2>3, <1>2, ResultsAreTyped DEF TypeInv, TypeOK, Grounded, Marks
<1>9. CASE End
  BY <1>9, <1>2, ResultsAreTyped DEF End, TypeInv, TypeOK, Grounded, Marks
<1> QED
  BY <1>1, <1>4, <1>5, <1>6, <1>7, <1>8, <1>9 DEF ProgramMove

LEMMA EpilogueTyped ==
  ASSUME TypeInv, Epilogue
  PROVE  TypeInv'
<1>1. /\ Grounded(stack) /\ result \in Result /\ signal \in MaybeSignal
      /\ pending_exc \in MaybeException /\ bang \in MaybeException
      /\ lexical \in BOOLEAN /\ kept \in MaybeProc /\ at_exit_procs \in Seq(Proc)
      /\ status \in {None, 0, 1} /\ next \in Nat /\ next + 1 \in Nat /\ goal \in Nat
      /\ verdict \in MaybeException /\ strayed \subseteq Marks
      /\ None \in MaybeSignal /\ None \in MaybeException
  BY DEF TypeInv, TypeOK, Marks, MaybeSignal, MaybeException
<1>2. \A k : Over(k) => /\ stack # <<>> /\ Top \in Frame /\ Top.kind = k
                        /\ k = "begin" => Top \in BeginFrame
  BY <1>1, BelowIs, FrameFields DEF Grounded, Over
<1>a. ASSUME NEW r \in Result, NEW sg \in MaybeSignal, Answer(r, sg), stack # <<>>,
             pending_exc' \in MaybeException, lexical' \in BOOLEAN, next' \in Nat,
             strayed' \subseteq Marks, UNCHANGED <<kept, at_exit_procs, status, verdict, bang>>
      PROVE  TypeInv'
  <2>1. /\ Grounded(stack') /\ result' \in Result
        /\ signal' \in MaybeSignal /\ goal' \in Nat
    BY <1>a, AnswerTyped
  <2> QED
    BY <2>1, <1>a, <1>1 DEF TypeInv, TypeOK, Grounded, Marks, MaybeSignal
<1>b. ASSUME NEW r \in Result, NEW marks \in SUBSET Marks, LeaveBegin(r, marks), stack # <<>>,
             bang' \in MaybeException,
             UNCHANGED <<kept, at_exit_procs, status, verdict, pending_exc, lexical, next>>
      PROVE  TypeInv'
  <2>1. /\ Grounded(stack') /\ result' \in Result
        /\ signal' \in MaybeSignal /\ goal' \in Nat /\ strayed' \subseteq Marks
    BY <1>b, LeaveTyped
  <2> QED
    BY <2>1, <1>b, <1>1 DEF TypeInv, TypeOK, Grounded, Marks, MaybeSignal
<1>c. \A r \in Result : \A sg : Framed(r, sg) \in MaybeException
  BY FramedTyped
<1>d. /\ \A x, m : When(x, m) \subseteq {m}
      /\ \A r : Drops(r) \subseteq Marks
      /\ {} \in SUBSET Marks /\ \A m \in Marks : {m} \in SUBSET Marks
  BY DEF When, Drops, Marks
<1>3. CASE MethodEnds
  <2> DEFINE own == IsJump(signal, {"return"}) /\ signal.to \in {None, Top.id}
             passes == ~own /\ IsJump(signal, MethodPasses)
             r == IF own THEN Ok ELSE result
             sg == IF passes THEN signal ELSE None
  <2>1. Answer(r, sg) /\ pending_exc' = Framed(r, sg)
    BY <1>3 DEF MethodEnds, AnswerCall
  <2>2. r \in Result /\ sg \in MaybeSignal
    BY <1>1, ResultsAreTyped
  <2>3. strayed' = strayed \cup IF own THEN Drops(result) ELSE {}
    BY <1>3 DEF MethodEnds, Stray
  <2>4. strayed' \subseteq Marks
    BY <2>3, <1>1, <1>d
  <2>5. UNCHANGED <<kept, at_exit_procs, status, verdict, bang, lexical, next>> /\ stack # <<>>
    BY <1>3 DEF MethodEnds, rest, Over
  <2> HIDE DEF r, sg
  <2> QED
    BY <2>1, <2>2, <2>4, <2>5, <1>1, <1>a, <1>c
<1>4. CASE BlockEnds
  <2>1. PICK r \in Result, sg \in MaybeSignal : Answer(r, sg)
    <3>1. CASE BlockTakes
      BY <3>1, <1>4, <1>1, ResultsAreTyped DEF BlockEnds
    <3>2. CASE ~BlockTakes /\ IsJump(signal, {"return"}) /\ signal.to = None
      <4>1. Answer(result, Jump("return", Top.blk.home))
        BY <3>2, <1>4 DEF BlockEnds
      <4>2. Top.blk.home \in Nat
        BY <1>4, <1>2, FrameFields DEF BlockEnds, Proc
      <4>3. Jump("return", Top.blk.home) \in MaybeSignal
        BY <4>2 DEF Jump, Signals, MaybeSignal
      <4> QED
        BY <4>1, <4>3, <1>1
    <3>3. CASE ~BlockTakes /\ ~(IsJump(signal, {"return"}) /\ signal.to = None)
      BY <3>3, <1>4, <1>1 DEF BlockEnds
    <3> QED
      BY <3>1, <3>2, <3>3
  <2>2. /\ UNCHANGED <<kept, at_exit_procs, status, verdict, bang, pending_exc, next>>
        /\ lexical' \in BOOLEAN /\ stack # <<>>
    BY <1>1, <1>4 DEF BlockEnds, rest, Over
  <2>3. strayed' \subseteq Marks
    BY <1>1, <1>4, <1>d DEF BlockEnds, Stray, Marks
  <2> QED
    BY <2>1, <2>2, <2>3, <1>1, <1>a
<1>5. CASE BlockEndsOrphan
  <2> DEFINE e == Raised(next, "error")
  <2>1. e \in Exception
    BY <1>1 DEF Raised, Exception
  <2>2. /\ Answer(Err(e), None) /\ pending_exc' = e /\ next' = next + 1 /\ lexical' = FALSE
        /\ UNCHANGED <<kept, at_exit_procs, status, verdict, bang, strayed>> /\ stack # <<>>
    BY <1>5 DEF BlockEndsOrphan, rest, Over
  <2> HIDE DEF e
  <2> QED
    BY <2>1, <2>2, <1>1, <1>a, ResultsAreTyped DEF MaybeException
<1>6. ASSUME NEW r \in Result, NEW sg \in MaybeSignal, AnswerCall(r, sg), stack # <<>>,
             strayed' \subseteq Marks,
             UNCHANGED <<kept, at_exit_procs, status, verdict, bang, lexical, next>>
      PROVE  TypeInv'
  BY <1>6, <1>a, <1>c, <1>1 DEF AnswerCall
<1>7. CASE SiteEnds
  <2>1. AnswerCall(Ok, None) \/ AnswerCall(result, signal)
    BY <1>7 DEF SiteEnds
  <2>2. /\ UNCHANGED <<kept, at_exit_procs, status, verdict, bang, lexical, next>> /\ stack # <<>>
        /\ strayed' \subseteq Marks
    BY <1>1, <1>7, <1>d DEF SiteEnds, rest, Over, Stray, Marks
  <2> QED
    BY <2>1, <2>2, <1>1, <1>6, ResultsAreTyped
<1>8. CASE BuiltinEnds
  <2>1. AnswerCall(Ok, None) \/ AnswerCall(result, signal)
    BY <1>8 DEF BuiltinEnds
  <2>2. /\ UNCHANGED <<kept, at_exit_procs, status, verdict, bang, lexical, next>> /\ stack # <<>>
        /\ strayed' \subseteq Marks
    BY <1>1, <1>8, <1>d DEF BuiltinEnds, rest, Over, Stray, Marks
  <2> QED
    BY <2>1, <2>2, <1>1, <1>6, ResultsAreTyped
<1>9. CASE CatchEnds
  <2>1. AnswerCall(Ok, None) \/ AnswerCall(result, signal)
    BY <1>9 DEF CatchEnds
  <2>2. /\ UNCHANGED <<kept, at_exit_procs, status, verdict, bang, lexical, next>> /\ stack # <<>>
        /\ strayed' \subseteq Marks
    BY <1>1, <1>9 DEF CatchEnds, rest, Over
  <2> QED
    BY <2>1, <2>2, <1>1, <1>6, ResultsAreTyped
<1>10. CASE BodyEnds
  BY <1>10, <1>1, <1>d, ConcludeTyped DEF BodyEnds, InPhase
<1>11. CASE BodyRaised
  <2>1. Object \in MaybeException
    <3>1. result.exc.id \in Nat
      BY <1>11, <1>1, ResultsAreTyped DEF BodyRaised, Exception
    <3>2. Guessed \in MaybeException
      BY <3>1 DEF Guessed, Inferred, Exception, MaybeException
    <3> QED
      BY <3>2, <1>1 DEF Object
  <2>2. Over("begin")
    BY <1>11 DEF BodyRaised, InPhase
  <2>3. CASE Conclude(result, Object, bang, {})
    BY <2>1, <2>2, <2>3, <1>1, <1>d, ConcludeTyped
  <2>4. CASE Handle(result, Object, {})
    BY <2>1, <2>2, <2>4, <1>1, <1>d, HandleTyped
  <2>5. CASE /\ stack' = WithTop([Top EXCEPT !.phase = "match", !.saved = result, !.exc = Object])
             /\ result' = Running /\ pending_exc' = None
             /\ UNCHANGED <<rest, signal, goal, bang, lexical, next, strayed>>
    <3> DEFINE f == [Top EXCEPT !.phase = "match", !.saved = result, !.exc = Object]
    <3>1. f \in BeginFrame
      BY <1>1, <1>2, <2>1, <2>2 DEF BeginFrame
    <3>2. f \in Frame /\ f.kind = "begin"
      BY <3>1, BeginIsFrame
    <3>3. stack' = WithTop(f)
      BY <2>5
    <3> HIDE DEF f
    <3>4. Grounded(stack')
      BY <1>1, <1>2, <2>2, <3>2, <3>3, ReplaceKeeps
    <3> QED
      BY <2>5, <3>4, <1>1, ResultsAreTyped DEF TypeInv, TypeOK, Grounded, Marks, rest, MaybeSignal
  <2> QED
    BY <1>11, <2>3, <2>4, <2>5 DEF BodyRaised
<1>12. CASE MatchEnds
  <2>1. Over("begin") /\ Top.saved \in Result /\ Top.exc \in MaybeException
    BY <1>12, <1>2 DEF MatchEnds, InPhase, BeginFrame
  <2> DEFINE marks == When(signal # None, "signal")
  <2>2. Conclude(Top.saved, Top.exc, bang, marks) \/ Handle(Top.saved, Top.exc, marks)
    BY <1>12 DEF MatchEnds
  <2>3. marks \in SUBSET Marks
    BY DEF When, Marks
  <2> HIDE DEF marks
  <2> QED
    BY <2>1, <2>2, <2>3, <1>1, ConcludeTyped, HandleTyped
<1>13. CASE MatchRaised
  <2>1. /\ LeaveBegin(result, When(Top.ensure, "clause")) /\ stack # <<>>
        /\ UNCHANGED <<kept, at_exit_procs, status, verdict, pending_exc, bang, lexical, next>>
    BY <1>13 DEF MatchRaised, InPhase, Over, rest
  <2>2. When(Top.ensure, "clause") \in SUBSET Marks
    BY DEF When, Marks
  <2> QED
    BY <2>1, <2>2, <1>1, <1>b
<1>14. CASE RescueEnds
  <2>1. Over("begin") /\ Top.prev \in MaybeException
    BY <1>14, <1>2 DEF RescueEnds, InPhase, BeginFrame
  <2> QED
    BY <2>1, <1>14, <1>1, <1>d, ConcludeTyped DEF RescueEnds
<1>15. CASE RescueRetries
  <2> DEFINE f == [Top EXCEPT !.phase = "body", !.saved = Ok, !.exc = None, !.prev = None]
  <2>1. /\ stack' = WithTop(f) /\ bang' = Top.prev /\ signal' = None /\ goal' = 0
        /\ result' = Running /\ strayed' = strayed \cup Drops(result)
        /\ UNCHANGED <<kept, at_exit_procs, status, verdict, pending_exc, lexical, next>>
    BY <1>15 DEF RescueRetries, Signal, Stray, rest
  <2>2. Over("begin") /\ Top \in BeginFrame
    BY <1>15, <1>2 DEF RescueRetries, InPhase
  <2>3. f \in BeginFrame
    BY <1>1, <2>2, ResultsAreTyped DEF BeginFrame
  <2>4. f \in Frame /\ f.kind = "begin"
    BY <2>3, BeginIsFrame
  <2> HIDE DEF f
  <2>5. Grounded(stack')
    BY <1>1, <1>2, <2>1, <2>2, <2>4, ReplaceKeeps
  <2>6. bang' \in MaybeException /\ strayed' \subseteq Marks
    BY <2>1, <2>2, <1>1, <1>d DEF BeginFrame
  <2> QED
    BY <2>1, <2>5, <2>6, <1>1, ResultsAreTyped DEF TypeInv, TypeOK, Grounded, Marks, MaybeSignal
<1>16. CASE EnsureEnds
  <2> DEFINE r == IF IsErr(result) THEN result ELSE Top.saved
  <2>1. /\ LeaveBegin(r, {}) /\ stack # <<>>
        /\ bang' = IF Top.exc = None THEN bang ELSE Top.prev
        /\ UNCHANGED <<kept, at_exit_procs, status, verdict, pending_exc, lexical, next>>
    BY <1>16 DEF EnsureEnds, InPhase, Over, rest
  <2>2. r \in Result /\ Top.prev \in MaybeException
    BY <1>16, <1>1, <1>2 DEF EnsureEnds, InPhase, BeginFrame
  <2>3. bang' \in MaybeException
    BY <2>1, <2>2, <1>1
  <2> HIDE DEF r
  <2> QED
    BY <2>1, <2>2, <2>3, <1>b, <1>d
<1>17. CASE MainEnds
  <2> DEFINE out == IF IsJump(signal, {"throw"}) THEN 1
                    ELSE IF IsErr(result) THEN ExitCode(pending_exc) ELSE 0
  <2>1. /\ stack' = <<Ending(out)>> /\ signal' = None /\ goal' = 0 /\ result' = Running
        /\ pending_exc' \in {None, pending_exc}
        /\ verdict' = IF IsErr(result) THEN result.exc ELSE None
        /\ UNCHANGED <<kept, at_exit_procs, status, bang, lexical, next, strayed>>
    BY <1>17 DEF MainEnds, Signal
  <2>2. out \in {0, 1}
    BY DEF ExitCode
  <2> HIDE DEF out
  <2>3. Ending(out) \in Frame /\ Ending(out).kind = "ending"
    BY <2>2 DEF Ending, Frame
  <2>4. Grounded(<<Ending(out)>>)
    <3> DEFINE f == Ending(out)
    <3>1. f \in Frame /\ f.kind = "ending"
      BY <2>3
    <3> HIDE DEF f
    <3>2. Grounded(<<f>>)
      BY <3>1 DEF Grounded
    <3> QED
      BY <3>2 DEF f
  <2>5. verdict' \in MaybeException
    BY <2>1, <1>1, ResultsAreTyped DEF MaybeException
  <2> QED
    BY <2>1, <2>4, <2>5, <1>1, ResultsAreTyped DEF TypeInv, TypeOK, Grounded, Marks, MaybeSignal
<1>18. CASE HandlerRuns
  <2> DEFINE n == Len(at_exit_procs)
  <2>1. /\ stack # <<>> /\ at_exit_procs # <<>>
        /\ stack' = Append(stack, Block(at_exit_procs[n]))
        /\ at_exit_procs' = SubSeq(at_exit_procs, 1, n - 1) /\ next' = next + 1
        /\ UNCHANGED <<result, signal, pending_exc, bang, lexical, kept, status, goal,
                       verdict, strayed>>
    BY <1>18 DEF HandlerRuns
  <2>2. /\ n \in Nat \ {0} /\ at_exit_procs[n] \in Proc
        /\ SubSeq(at_exit_procs, 1, n - 1) \in Seq(Proc)
    BY <2>1, <1>1
  <2> DEFINE f == Block(at_exit_procs[n])
  <2>3. f \in Frame /\ f.kind = "block"
    BY <2>2, <1>1 DEF Block, Frame
  <2>4. stack' = Append(stack, f)
    BY <2>1
  <2> HIDE DEF f
  <2>5. stack \o <<f>> = Append(stack, f)
    BY <2>3, <1>1 DEF Grounded
  <2>6. <<f>> \in Seq(Frame) /\ \A i \in 1..Len(<<f>>) : <<f>>[i] = f
    BY <2>3
  <2>7. Grounded(stack \o <<f>>)
    BY <2>1, <2>3, <2>6, <1>1, PushKeeps
  <2>8. Grounded(stack')
    BY <2>4, <2>5, <2>7
  <2> QED
    BY <2>1, <2>2, <2>8, <1>1 DEF TypeInv, TypeOK, Grounded, Marks, MaybeSignal
<1>19. CASE HandlerEnds
  <2>1. /\ result' = Running /\ UNCHANGED <<stack, bang, lexical, kept, at_exit_procs, next, strayed>>
        /\ signal' \in {None, signal} /\ goal' \in {0, goal} /\ pending_exc' \in {None, pending_exc}
        /\ status' \in {0, 1, status}
        /\ verdict' = IF IsErr(result) THEN result.exc ELSE verdict
    BY <1>19 DEF HandlerEnds, Signal, ExitCode
  <2>2. verdict' \in MaybeException
    BY <2>1, <1>1, ResultsAreTyped DEF MaybeException
  <2> QED
    BY <2>1, <2>2, <1>1, ResultsAreTyped DEF TypeInv, TypeOK, Grounded, Marks, MaybeSignal
<1>20. CASE Finish
  <2>1. stack' = <<>> /\ status' = FinalStatus
        /\ UNCHANGED <<result, signal, pending_exc, bang, lexical, kept, at_exit_procs,
                       next, goal, verdict, strayed>>
    BY <1>20 DEF Finish
  <2>2. Top.out \in {0, 1}
    BY <1>20, <1>1, BelowIs, FrameFields DEF Finish, Grounded
  <2>3. status' \in {None, 0, 1}
    BY <2>1, <2>2, <1>1 DEF FinalStatus
  <2>4. Grounded(<<>>)
    BY DEF Grounded
  <2> QED
    BY <2>1, <2>3, <2>4, <1>1 DEF TypeInv, TypeOK, Grounded, Marks, MaybeSignal
<1> QED
  BY <1>3, <1>4, <1>5, <1>7, <1>8, <1>9, <1>10, <1>11, <1>12, <1>13, <1>14, <1>15, <1>16,
     <1>17, <1>18, <1>19, <1>20 DEF Epilogue

LEMMA InitTyped == Init => TypeInv
<1> SUFFICES ASSUME Init PROVE TypeInv
  OBVIOUS
<1>1. Main \in Frame /\ Main.kind = "main"
  BY DEF Main, Frame
<1> DEFINE f == Main
<1> HIDE DEF f
<1>2. f \in Frame /\ f.kind = "main"
  BY <1>1 DEF f
<1>3. Grounded(<<f>>)
  BY <1>2 DEF Grounded
<1>4. stack = <<f>> /\ Grounded(stack) /\ stack \in Seq(Frame)
  BY <1>3 DEF Init, f, Grounded
<1>5. at_exit_procs \in Seq(Proc)
  BY DEF Init
<1>6. /\ result \in Result /\ signal \in MaybeSignal /\ pending_exc \in MaybeException
      /\ bang \in MaybeException /\ lexical \in BOOLEAN /\ kept \in MaybeProc
      /\ status \in {None, 0, 1} /\ next \in Nat /\ goal \in Nat
      /\ verdict \in MaybeException /\ strayed \subseteq Marks
  BY ResultsAreTyped DEF Init, MaybeSignal, MaybeException, MaybeProc
<1> QED
  BY <1>4, <1>5, <1>6 DEF TypeInv, TypeOK, MaybeSignal, Marks

LEMMA StepTyped == TypeInv /\ [Next]_vars => TypeInv'
<1> SUFFICES ASSUME TypeInv, [Next]_vars PROVE TypeInv'
  OBVIOUS
<1>1. CASE ProgramStep
  BY <1>1, ProgramStepTyped
<1>2. CASE Epilogue
  BY <1>2, EpilogueTyped
<1>3. CASE Terminated \/ UNCHANGED vars
  BY <1>3 DEF Terminated, vars, control, TypeInv, TypeOK, Grounded
<1> QED
  BY <1>1, <1>2, <1>3 DEF Next

LEMMA AlwaysTyped == Spec => []TypeInv
BY InitTyped, StepTyped, PTL DEF Spec

\* Every register and every activation has its type, for programs of any length
\* and nesting.
THEOREM TypeCorrect == Spec => []TypeOK
<1>1. TypeInv => TypeOK
  BY DEF TypeInv
<1> QED
  BY <1>1, AlwaysTyped, PTL

-----------------------------------------------------------------------------
(* Ensure clauses                                                           *)

\* Main and the end of the program are alone on the stack when on top.
LEMMA BottomIsAlone ==
  ASSUME Grounded(stack), stack # <<>>, Top.kind \in {"main", "ending"}
  PROVE  Len(stack) = 1 /\ DOMAIN stack = {1} /\ stack[1] = Top
<1>1. Len(stack) \in Nat \ {0} /\ DOMAIN stack = 1..Len(stack)
  BY BelowIs DEF Grounded
<1>2. Len(stack) = 1
  BY <1>1 DEF Grounded, Top
<1> QED
  BY <1>1, <1>2 DEF Top

\* What the end of a call does to the stack.
EndMove ==
  \/ stack' = Below /\ Top.kind \notin {"begin", "main", "ending"}
  \/ /\ stack' = Below /\ Top.kind = "begin"
     /\ Top.ensure => Top.phase = "ensure" \/ "clause" \in strayed'
  \/ /\ Top.kind = "begin" /\ Top.phase # "ensure"
     /\ \E f \in BeginFrame : stack' = WithTop(f)
  \/ Top.kind \in {"main", "ending"} /\ (MainEnds \/ HandlerRuns \/ HandlerEnds \/ Finish)

LEMMA EpilogueIsEndMove ==
  ASSUME TypeInv, Epilogue
  PROVE  stack # <<>> /\ EndMove
<1>1. \A k : Over(k) => stack # <<>> /\ Top.kind = k
  BY DEF Over
<1>2. \A r, sg : Answer(r, sg) => stack' = Below
  BY DEF Answer
<1>3. \A r, sg : AnswerCall(r, sg) => stack' = Below
  BY <1>2 DEF AnswerCall
<1>4. \A r, marks : LeaveBegin(r, marks) => stack' = Below
  BY <1>2 DEF LeaveBegin
<1>5. Grounded(stack) /\ pending_exc \in MaybeException /\ result \in Result
  BY DEF TypeInv, TypeOK
<1>6. ASSUME InPhase("body") \/ InPhase("match") \/ InPhase("rescue"), NEW r \in Result, NEW pe \in MaybeException,
             NEW b \in MaybeException, NEW marks, Conclude(r, pe, b, marks)
      PROVE  EndMove
  <2>0. Over("begin") /\ Top.phase # "ensure"
    BY <1>6 DEF InPhase
  <2>1. CASE Top.ensure
    <3> DEFINE x == IF IsErr(r) /\ signal = None THEN pe ELSE None
    <3>1. stack' = WithTop([Top EXCEPT !.phase = "ensure", !.saved = r, !.exc = x, !.prev = b])
      BY <1>6, <2>1 DEF Conclude
    <3>2. x \in MaybeException
      BY DEF MaybeException
    <3> HIDE DEF x
    <3>3. Top \in BeginFrame
      BY <1>5, <2>0, BelowIs, FrameFields DEF Over, Grounded
    <3>4. [Top EXCEPT !.phase = "ensure", !.saved = r, !.exc = x, !.prev = b] \in BeginFrame
      BY <3>2, <3>3 DEF BeginFrame
    <3> QED
      BY <3>1, <3>4, <1>1, <2>0 DEF EndMove
  <2>2. CASE ~Top.ensure
    BY <2>2, <2>0, <1>1, <1>4, <1>6 DEF Conclude, EndMove
  <2> QED
    BY <2>1, <2>2
<1>7. ASSUME InPhase("body") \/ InPhase("match"), NEW r \in Result, NEW x \in MaybeException, NEW marks,
             Handle(r, x, marks)
      PROVE  EndMove
  <2>0. Over("begin") /\ Top.phase # "ensure"
    BY <1>7 DEF InPhase
  <2>1. Top \in BeginFrame /\ bang \in MaybeException
    BY <1>5, <2>0, BelowIs, FrameFields DEF Over, Grounded, TypeInv, TypeOK
  <2>2. [Top EXCEPT !.phase = "rescue", !.saved = r, !.exc = x, !.prev = bang] \in BeginFrame
    BY <1>7, <2>1 DEF BeginFrame
  <2> QED
    BY <2>0, <2>2, <1>1, <1>7 DEF Handle, EndMove
<1>8. CASE MethodEnds
  BY <1>8, <1>1, <1>3 DEF MethodEnds, EndMove
<1>9. CASE BlockEnds
  BY <1>9, <1>1, <1>2 DEF BlockEnds, EndMove
<1>10. CASE BlockEndsOrphan
  BY <1>10, <1>1, <1>2 DEF BlockEndsOrphan, EndMove
<1>11. CASE SiteEnds
  BY <1>11, <1>1, <1>3 DEF SiteEnds, EndMove
<1>12. CASE BuiltinEnds
  BY <1>12, <1>1, <1>3 DEF BuiltinEnds, EndMove
<1>13. CASE CatchEnds
  BY <1>13, <1>1, <1>3 DEF CatchEnds, EndMove
<1>14. CASE BodyEnds
  <2>1. InPhase("body") /\ Conclude(result, pending_exc, bang, {})
    BY <1>14 DEF BodyEnds
  <2>2. bang \in MaybeException
    BY DEF TypeInv, TypeOK
  <2> QED
    BY <2>1, <2>2, <1>1, <1>5, <1>6 DEF InPhase
<1>15. CASE BodyRaised
  <2>1. InPhase("body") /\ Over("begin") /\ Top.phase = "body"
    BY <1>15 DEF BodyRaised, InPhase
  <2>2. Object \in MaybeException
    <3>1. result.exc.id \in Nat
      BY <1>15, <1>5, ResultsAreTyped DEF BodyRaised, Exception
    <3>2. Guessed \in MaybeException
      BY <3>1 DEF Guessed, Inferred, Exception, MaybeException
    <3> QED
      BY <3>2, <1>5 DEF Object
  <2>3. bang \in MaybeException
    BY DEF TypeInv, TypeOK
  <2>4. CASE Conclude(result, Object, bang, {}) \/ Handle(result, Object, {})
    BY <2>1, <2>2, <2>3, <2>4, <1>1, <1>5, <1>6, <1>7
  <2>5. CASE stack' = WithTop([Top EXCEPT !.phase = "match", !.saved = result, !.exc = Object])
    <3>1. Top \in BeginFrame
      BY <1>5, <2>1, BelowIs, FrameFields DEF Over, Grounded
    <3>2. [Top EXCEPT !.phase = "match", !.saved = result, !.exc = Object] \in BeginFrame
      BY <2>2, <3>1, <1>5 DEF BeginFrame
    <3> QED
      BY <2>1, <2>5, <3>2, <1>1 DEF EndMove
  <2> QED
    BY <1>15, <1>1, <2>1, <2>4, <2>5 DEF BodyRaised
<1>16. CASE MatchEnds
  <2>1. InPhase("match") /\ Over("begin") /\ Top.saved \in Result /\ Top.exc \in MaybeException
    BY <1>16, <1>5, BelowIs, FrameFields DEF MatchEnds, InPhase, BeginFrame, Over, Grounded
  <2> DEFINE marks == When(signal # None, "signal")
  <2>2. Conclude(Top.saved, Top.exc, bang, marks) \/ Handle(Top.saved, Top.exc, marks)
    BY <1>16 DEF MatchEnds
  <2> HIDE DEF marks
  <2>3. bang \in MaybeException
    BY DEF TypeInv, TypeOK
  <2> QED
    BY <2>1, <2>2, <2>3, <1>1, <1>6, <1>7
<1>17. CASE MatchRaised
  <2>1. Top.kind = "begin" /\ stack # <<>>
    BY <1>17, <1>1 DEF MatchRaised, InPhase
  <2>2. LeaveBegin(result, When(Top.ensure, "clause")) /\ stack' = Below
    BY <1>17, <1>4 DEF MatchRaised
  <2>3. Top.ensure => "clause" \in strayed'
    BY <2>2 DEF LeaveBegin, Stray, When
  <2> QED
    BY <2>1, <2>2, <2>3 DEF EndMove
<1>18. CASE RescueEnds
  <2>1. InPhase("rescue") /\ Conclude(result, pending_exc, Top.prev, {})
    BY <1>18 DEF RescueEnds
  <2>2. Top.prev \in MaybeException
    BY <2>1, <1>5, BelowIs, FrameFields DEF InPhase, BeginFrame, Over, Grounded
  <2> QED
    BY <2>1, <2>2, <1>1, <1>5, <1>6 DEF InPhase
<1>19. CASE RescueRetries
  <2>1. Over("begin") /\ Top.phase = "rescue" /\ Top \in BeginFrame
    BY <1>19, <1>5, BelowIs, FrameFields DEF RescueRetries, InPhase, Over, Grounded
  <2>2. [Top EXCEPT !.phase = "body", !.saved = Ok, !.exc = None, !.prev = None] \in BeginFrame
    BY <2>1, ResultsAreTyped DEF BeginFrame, MaybeException
  <2> QED
    BY <1>19, <2>1, <2>2, <1>1 DEF RescueRetries, EndMove
<1>20. CASE EnsureEnds
  BY <1>20, <1>1, <1>4 DEF EnsureEnds, InPhase, EndMove
<1>21. CASE MainEnds \/ HandlerRuns \/ HandlerEnds \/ Finish
  BY <1>21, <1>1 DEF MainEnds, HandlerRuns, HandlerEnds, Finish, EndMove
<1> QED
  BY <1>8, <1>9, <1>10, <1>11, <1>12, <1>13, <1>14, <1>15, <1>16, <1>17, <1>18, <1>19,
     <1>20, <1>21 DEF Epilogue

\* The frames a step of the program leaves on the stack.
LEMMA ProgramKeepsFrames ==
  ASSUME TypeInv, ProgramMove
  PROVE  \A i \in DOMAIN stack : i \in DOMAIN stack' /\ stack'[i] = stack[i]
<1>1. stack \in Seq(Frame)
  BY DEF TypeInv, TypeOK
<1>2. ASSUME NEW fs \in Seq(Frame), stack' = stack \o fs
      PROVE  \A i \in DOMAIN stack : i \in DOMAIN stack' /\ stack'[i] = stack[i]
  <2>1. /\ DOMAIN (stack \o fs) = 1..(Len(stack) + Len(fs))
        /\ \A i \in 1..Len(stack) : (stack \o fs)[i] = stack[i]
    BY <1>1, OnTopIs
  <2>2. DOMAIN stack = 1..Len(stack) /\ Len(stack) \in Nat /\ Len(fs) \in Nat
    BY <1>1
  <2> QED
    BY <1>2, <2>1, <2>2
<1>3. CASE \E fs : Callee(fs) /\ Enter(fs)
  BY <1>2, <1>3 DEF Callee, Enter
<1>4. CASE \E fs \in BeginFrames : Enter(fs)
  <2>1. PICK c \in {"none", "classes", "list"}, e \in BOOLEAN, l \in BOOLEAN :
             Enter(<<BeginBlock(c, e, l)>>)
    BY <1>4 DEF BeginFrames
  <2> DEFINE f == BeginBlock(c, e, l)
  <2>2. f \in BeginFrame
    BY ResultsAreTyped DEF BeginBlock, BeginFrame, MaybeException
  <2>3. f \in Frame
    BY <2>2, BeginIsFrame
  <2>4. stack' = stack \o <<f>>
    BY <2>1 DEF Enter
  <2> HIDE DEF f
  <2> QED
    BY <1>2, <2>3, <2>4
<1>5. CASE UNCHANGED stack
  BY <1>5
<1> QED
  BY <1>3, <1>4, <1>5 DEF ProgramMove, Returns, Leaps, Leap, Fails, Fail, End

\* A begin is left only out of its ensure clause, which is begun once.
EnsureStep ==
  \A i \in DOMAIN stack :
     /\ stack[i].kind = "begin" /\ stack[i].ensure
     /\ strayed' \cap {"clause", "signal"} = {}
     => IF i \in DOMAIN stack'
        THEN stack[i].phase = "ensure" => stack'[i] = stack[i]
        ELSE stack[i].phase = "ensure"

LEMMA StepEnsures == TypeInv /\ [Next]_vars => EnsureStep
<1> SUFFICES ASSUME TypeInv, [Next]_vars,
                    NEW i \in DOMAIN stack, stack[i].kind = "begin", stack[i].ensure,
                    "clause" \notin strayed'
             PROVE  IF i \in DOMAIN stack'
                    THEN stack[i].phase = "ensure" => stack'[i] = stack[i]
                    ELSE stack[i].phase = "ensure"
  BY DEF EnsureStep
<1>1. CASE ProgramStep
  BY <1>1, ProgramStepIsMove, ProgramKeepsFrames
<1>2. CASE Epilogue
  <2>1. /\ Grounded(stack) /\ stack # <<>> /\ EndMove
        /\ Len(stack) \in Nat \ {0} /\ DOMAIN stack = 1..Len(stack)
    BY <1>2, EpilogueIsEndMove, BelowIs DEF TypeInv, Grounded
  <2>2. CASE stack' = Below
    <3>1. /\ DOMAIN Below = 1..(Len(stack) - 1)
          /\ \A k \in 1..(Len(stack) - 1) : Below[k] = stack[k]
      BY <2>1, BelowIs DEF Grounded
    <3>2. CASE i # Len(stack)
      BY <2>1, <2>2, <3>1, <3>2
    <3>3. CASE i = Len(stack)
      <4>1. i \notin DOMAIN stack' /\ stack[i] = Top
        BY <2>1, <2>2, <3>1, <3>3 DEF Top
      <4>2. CASE Top.phase # "ensure" /\ \E f \in BeginFrame : stack' = WithTop(f)
        <5>1. \A f \in BeginFrame : DOMAIN WithTop(f) = 1..Len(stack)
          BY <2>1, WithTopIs, BeginIsFrame DEF Grounded
        <5> QED
          BY <4>1, <4>2, <5>1, <2>1
      <4>3. Top.kind = "begin" /\ Top.ensure
        BY <4>1
      <4> QED
        BY <2>1, <4>1, <4>2, <4>3 DEF EndMove
    <3> QED
      BY <3>2, <3>3
  <2>3. CASE Top.phase # "ensure" /\ \E f \in BeginFrame : stack' = WithTop(f)
    <3>1. \A f \in BeginFrame : /\ DOMAIN WithTop(f) = 1..Len(stack)
                                /\ \A k \in 1..(Len(stack) - 1) : WithTop(f)[k] = stack[k]
      BY <2>1, WithTopIs, BeginIsFrame DEF Grounded
    <3>2. i \in DOMAIN stack'
      BY <2>1, <2>3, <3>1
    <3>3. CASE i = Len(stack)
      BY <2>3, <3>2, <3>3 DEF Top
    <3>4. CASE i # Len(stack)
      BY <2>1, <2>3, <3>1, <3>2, <3>4
    <3> QED
      BY <3>3, <3>4
  <2>4. CASE Top.kind \in {"main", "ending"}
    <3>1. DOMAIN stack = {1} /\ stack[1] = Top
      BY <2>1, <2>4, BottomIsAlone
    <3> QED
      BY <2>4, <3>1
  <2> QED
    BY <2>1, <2>2, <2>3, <2>4 DEF EndMove
<1>3. CASE Terminated \/ UNCHANGED vars
  BY <1>3 DEF Terminated, vars, control
<1> QED
  BY <1>1, <1>2, <1>3 DEF Next

\* However a body or its rescue clauses come to an end, by running through, by
\* an exception or by a jump, the begin is left out of its ensure clause, which
\* is begun once; barring the marks "clause" and "signal".
THEOREM EnsureClausesRun == Spec => EnsureRuns
<1>1. TypeInv /\ [Next]_vars => [EnsureStep]_vars
  BY StepEnsures
<1> QED
  BY <1>1, AlwaysTyped, PTL DEF Spec, EnsureRuns, EnsureStep

-----------------------------------------------------------------------------
(* The exception object: pending_exc holds the object of the Err on its way,
   or of the innermost one an ensure clause holds back.                     *)

\* pe is the object of e, or there is none and e is what would be made up.
Holds(pe, e) == pe = e \/ (pe = None /\ e = Inferred(e.id))

\* A begin that holds an Err back, in its ensure clause or while it looks for
\* a rescue clause.
HoldsBack(f) ==
  f.kind = "begin" /\ (f.phase = "match" \/ (f.phase = "ensure" /\ IsErr(f.saved)))
InEnsure(f) == f.kind = "begin" /\ f.phase = "ensure" /\ IsErr(f.saved)
InRescue(f) == f.kind = "begin" /\ f.phase \in {"rescue", "match"}

InnermostIs(s, pe) ==
  \A i \in DOMAIN s :
     InEnsure(s[i]) /\ (\A j \in DOMAIN s : j > i => ~HoldsBack(s[j]))
     => Holds(pe, s[i].saved.exc)
RescuedIs(s) ==
  \A i \in DOMAIN s :
     InRescue(s[i]) => IsErr(s[i].saved) /\ s[i].exc = s[i].saved.exc

ObjectInv ==
  "object" \notin strayed =>
     /\ IsErr(result) => Holds(pending_exc, result.exc)
     /\ ~IsErr(result) => InnermostIs(stack, pending_exc)
     /\ RescuedIs(stack)

\* Marks stay.
LEMMA MarksStay ==
  ASSUME TypeInv, [Next]_vars
  PROVE  strayed \subseteq strayed'
<1>1. \A S : Stray(S) => strayed \subseteq strayed'
  BY DEF Stray
<1>2. CASE ProgramStep
  BY <1>1, <1>2, ProgramStepIsMove
  DEF ProgramMove, Enter, Returns, Leaps, Leap, Fails, Fail, End
<1>3. \A r, marks : LeaveBegin(r, marks) => strayed \subseteq strayed'
  BY <1>1 DEF LeaveBegin
<1>4. \A r, pe, b, marks : Conclude(r, pe, b, marks) => strayed \subseteq strayed'
  BY <1>1, <1>3 DEF Conclude
<1>5. \A r, x, marks : Handle(r, x, marks) => strayed \subseteq strayed'
  BY <1>1 DEF Handle
<1>6. CASE Epilogue
  <2>1. CASE \/ MethodEnds \/ BlockEnds \/ BlockEndsOrphan
             \/ SiteEnds \/ BuiltinEnds \/ CatchEnds
    BY <2>1, <1>1 DEF MethodEnds, BlockEnds, BlockEndsOrphan, SiteEnds, BuiltinEnds, CatchEnds
  <2>2. CASE BodyEnds \/ BodyRaised \/ MatchEnds \/ MatchRaised
    BY <2>2, <1>3, <1>4, <1>5 DEF BodyEnds, BodyRaised, MatchEnds, MatchRaised
  <2>3. CASE RescueEnds \/ RescueRetries \/ EnsureEnds
    BY <2>3, <1>1, <1>3, <1>4 DEF RescueEnds, RescueRetries, EnsureEnds
  <2>4. CASE MainEnds \/ HandlerRuns \/ HandlerEnds \/ Finish
    BY <2>4 DEF MainEnds, HandlerRuns, HandlerEnds, Finish
  <2> QED
    BY <1>6, <2>1, <2>2, <2>3, <2>4 DEF Epilogue
<1>7. CASE Terminated \/ UNCHANGED vars
  BY <1>7 DEF Terminated, vars
<1> QED
  BY <1>2, <1>6, <1>7 DEF Next

LEMMA InsideOneIs ==
  ASSUME TypeInv, NEW i \in DOMAIN stack, i < Len(stack), InEnsure(stack[i])
  PROVE  InsideOne
<1>1. stack \in Seq(Frame) /\ DOMAIN stack = 1..Len(stack) /\ Len(stack) \in Nat
  BY DEF TypeInv, TypeOK
<1>2. i \in Superseded(0)
  BY <1>1 DEF Superseded, InEnsure
<1> QED
  BY <1>2 DEF InsideOne

\* What leaving a call has to see to.
LEMMA PopObject ==
  ASSUME TypeInv, ObjectInv, stack # <<>>, stack' = Below, strayed \subseteq strayed',
         "object" \notin strayed' =>
            \/ IsErr(result') /\ Holds(pending_exc', result'.exc)
            \/ ~IsErr(result') /\ ~InsideOne
            \/ /\ ~IsErr(result') /\ ~IsErr(result) /\ pending_exc' = pending_exc
               /\ ~HoldsBack(Top)
  PROVE  ObjectInv'
<1> SUFFICES ASSUME "object" \notin strayed'
             PROVE  /\ IsErr(result') => Holds(pending_exc', result'.exc)
                    /\ ~IsErr(result') => InnermostIs(stack', pending_exc')
                    /\ RescuedIs(stack')
  BY DEF ObjectInv
<1> DEFINE n == Len(stack)
<1>1. /\ n \in Nat \ {0} /\ DOMAIN stack = 1..n /\ DOMAIN stack' = 1..(n - 1)
      /\ \A i \in 1..(n - 1) : stack'[i] = stack[i]
  <2>1. /\ n \in Nat \ {0} /\ DOMAIN stack = 1..n /\ DOMAIN Below = 1..(n - 1)
        /\ \A i \in 1..(n - 1) : Below[i] = stack[i]
    BY BelowIs DEF TypeInv, Grounded
  <2> QED
    BY <2>1
<1>2. RescuedIs(stack) /\ (~IsErr(result) => InnermostIs(stack, pending_exc))
  BY DEF ObjectInv
<1>3. RescuedIs(stack')
  BY <1>1, <1>2 DEF RescuedIs
<1>4. ASSUME ~IsErr(result'), NEW i \in DOMAIN stack', InEnsure(stack'[i]),
             \A j \in DOMAIN stack' : j > i => ~HoldsBack(stack'[j])
      PROVE  Holds(pending_exc', stack'[i].saved.exc)
  <2>1. i \in DOMAIN stack /\ i < n /\ stack'[i] = stack[i] /\ i \in Nat
    BY <1>1
  <2>2. InsideOne
    BY <2>1, <1>4, InsideOneIs
  <2>3. ~IsErr(result) /\ pending_exc' = pending_exc /\ ~HoldsBack(Top)
    BY <1>4, <2>2
  <2>4. \A j \in DOMAIN stack : j > i => ~HoldsBack(stack[j])
    <3> SUFFICES ASSUME NEW j \in DOMAIN stack, j > i PROVE ~HoldsBack(stack[j])
      OBVIOUS
    <3>1. CASE j = n
      BY <3>1, <2>3 DEF Top
    <3>2. CASE j # n
      <4>1. j \in 1..(n - 1)
        BY <3>2, <1>1
      <4> QED
        BY <4>1, <1>1, <1>4
    <3> QED
      BY <3>1, <3>2
  <2>5. Holds(pending_exc, stack[i].saved.exc)
    BY <1>2, <1>4, <2>1, <2>3, <2>4 DEF InnermostIs
  <2> QED
    BY <2>1, <2>3, <2>5
<1>5. ~IsErr(result') => InnermostIs(stack', pending_exc')
  BY <1>4 DEF InnermostIs
<1>6. IsErr(result') => Holds(pending_exc', result'.exc)
  OBVIOUS
<1> QED
  BY <1>3, <1>5, <1>6

\* What turning to another clause has to see to.
LEMMA ReplaceObject ==
  ASSUME TypeInv, ObjectInv, stack # <<>>, Top.kind = "begin",
         NEW f \in BeginFrame, stack' = WithTop(f), strayed \subseteq strayed',
         ~IsErr(result'),
         "object" \notin strayed' =>
            /\ InRescue(f) => IsErr(f.saved) /\ f.exc = f.saved.exc
            /\ InEnsure(f) => Holds(pending_exc', f.saved.exc)
            /\ \/ ~InsideOne
               \/ HoldsBack(f)
               \/ ~IsErr(result) /\ pending_exc' = pending_exc /\ ~HoldsBack(Top)
  PROVE  ObjectInv'
<1> SUFFICES ASSUME "object" \notin strayed'
             PROVE  InnermostIs(stack', pending_exc') /\ RescuedIs(stack')
  BY DEF ObjectInv
<1> DEFINE n == Len(stack)
<1>1. /\ n \in Nat \ {0} /\ DOMAIN stack = 1..n /\ DOMAIN stack' = 1..n
      /\ \A i \in 1..(n - 1) : stack'[i] = stack[i]
      /\ stack'[n] = f
  <2>1. f \in Frame
    BY BeginIsFrame
  <2>2. /\ n \in Nat \ {0} /\ DOMAIN stack = 1..n /\ DOMAIN WithTop(f) = 1..n
        /\ \A i \in 1..(n - 1) : WithTop(f)[i] = stack[i]
        /\ WithTop(f)[n] = f
    BY <2>1, BelowIs, WithTopIs DEF TypeInv, Grounded
  <2> QED
    BY <2>2
<1>2. RescuedIs(stack) /\ (~IsErr(result) => InnermostIs(stack, pending_exc))
  BY DEF ObjectInv
<1>3. ASSUME NEW i \in 1..n
      PROVE  i \in 1..(n - 1) \/ i = n
  <2>1. n \in Nat
    BY <1>1
  <2> QED
    BY <2>1
<1>4. RescuedIs(stack')
  BY <1>1, <1>2, <1>3 DEF RescuedIs
<1>5. ASSUME NEW i \in DOMAIN stack', InEnsure(stack'[i]),
             \A j \in DOMAIN stack' : j > i => ~HoldsBack(stack'[j])
      PROVE  Holds(pending_exc', stack'[i].saved.exc)
  <2>1. CASE i = n
    BY <2>1, <1>1, <1>5
  <2>2. CASE i # n
    <3>1. i \in DOMAIN stack /\ i < n /\ stack'[i] = stack[i] /\ i \in Nat
      BY <2>2, <1>1
    <3>2. InsideOne
      BY <3>1, <1>5, InsideOneIs
    <3>3. ~HoldsBack(f)
      BY <3>1, <1>1, <1>5
    <3>4. ~IsErr(result) /\ pending_exc' = pending_exc /\ ~HoldsBack(Top)
      BY <3>2, <3>3
    <3>5. \A j \in DOMAIN stack : j > i => ~HoldsBack(stack[j])
      <4> SUFFICES ASSUME NEW j \in DOMAIN stack, j > i PROVE ~HoldsBack(stack[j])
        OBVIOUS
      <4>1. CASE j = n
        BY <4>1, <3>4 DEF Top
      <4>2. CASE j # n
        <5>1. j \in 1..(n - 1)
          BY <4>2, <1>1
        <5> QED
          BY <5>1, <1>1, <1>5
      <4> QED
        BY <4>1, <4>2
    <3>6. Holds(pending_exc, stack[i].saved.exc)
      BY <1>2, <1>5, <3>1, <3>4, <3>5 DEF InnermostIs
    <3> QED
      BY <3>1, <3>4, <3>6
  <2> QED
    BY <2>1, <2>2
<1>6. InnermostIs(stack', pending_exc')
  BY <1>5 DEF InnermostIs
<1> QED
  BY <1>4, <1>6

LEMMA PushObject ==
  ASSUME TypeInv, ObjectInv, NEW fs \in Seq(Frame), stack' = stack \o fs,
         \A i \in 1..Len(fs) :
            ~HoldsBack(fs[i]) /\ ~InRescue(fs[i]) /\ ~InEnsure(fs[i]),
         strayed \subseteq strayed', ~IsErr(result), ~IsErr(result'),
         pending_exc' = pending_exc
  PROVE  ObjectInv'
<1> SUFFICES ASSUME "object" \notin strayed'
             PROVE  InnermostIs(stack', pending_exc') /\ RescuedIs(stack')
  BY DEF ObjectInv
<1> DEFINE n == Len(stack)
<1>1. /\ n \in Nat /\ DOMAIN stack = 1..n /\ Len(fs) \in Nat /\ DOMAIN stack' = 1..(n + Len(fs))
      /\ \A i \in 1..n : stack'[i] = stack[i]
      /\ \A i \in 1..Len(fs) : stack'[n + i] = fs[i]
  <2>1. stack \in Seq(Frame)
    BY DEF TypeInv, TypeOK
  <2>2. /\ n \in Nat /\ DOMAIN stack = 1..n /\ Len(fs) \in Nat
    BY <2>1
  <2>3. /\ DOMAIN (stack \o fs) = 1..(n + Len(fs))
        /\ \A i \in 1..n : (stack \o fs)[i] = stack[i]
        /\ \A i \in 1..Len(fs) : (stack \o fs)[n + i] = fs[i]
    BY <2>1, OnTopIs
  <2> QED
    BY <2>2, <2>3
<1>2. RescuedIs(stack) /\ InnermostIs(stack, pending_exc)
  BY DEF ObjectInv
<1>3. ASSUME NEW i \in DOMAIN stack', InRescue(stack'[i]) \/ InEnsure(stack'[i])
      PROVE  i \in DOMAIN stack /\ stack'[i] = stack[i]
  <2>1. CASE i \in 1..n
    BY <2>1, <1>1
  <2>2. CASE ~(i \in 1..n)
    <3>1. i - n \in 1..Len(fs) /\ n + (i - n) = i
      BY <2>2, <1>1
    <3>2. stack'[i] = fs[i - n]
      BY <3>1, <1>1
    <3> QED
      BY <3>1, <3>2, <1>3
  <2> QED
    BY <2>1, <2>2
<1>4. RescuedIs(stack')
  BY <1>2, <1>3 DEF RescuedIs
<1>5. ASSUME NEW i \in DOMAIN stack', InEnsure(stack'[i]),
             \A j \in DOMAIN stack' : j > i => ~HoldsBack(stack'[j])
      PROVE  Holds(pending_exc', stack'[i].saved.exc)
  <2>1. i \in DOMAIN stack /\ stack'[i] = stack[i]
    BY <1>3, <1>5
  <2>2. \A j \in DOMAIN stack : j \in DOMAIN stack' /\ stack'[j] = stack[j]
    BY <1>1
  <2>3. \A j \in DOMAIN stack : j > i => ~HoldsBack(stack[j])
    BY <2>2, <1>5
  <2>4. Holds(pending_exc, stack[i].saved.exc)
    BY <2>1, <2>3, <1>2, <1>5 DEF InnermostIs
  <2> QED
    BY <2>1, <2>4
<1>6. InnermostIs(stack', pending_exc')
  BY <1>5 DEF InnermostIs
<1> QED
  BY <1>4, <1>6

\* The frames that calls and begins put on the stack hold nothing back.
LEMMA NewFrames ==
  ASSUME NEW fs, Callee(fs) \/ fs \in BeginFrames
  PROVE  /\ fs \in Seq(Frame)
         /\ \A i \in 1..Len(fs) :
              /\ fs[i].kind \notin {"main", "ending"}
              /\ fs[i].kind = "begin" => fs[i].phase = "body"
<1>1. CASE Callee(fs)
  BY <1>1 DEF Callee
<1>2. CASE fs \in BeginFrames
  <2>1. PICK c \in {"none", "classes", "list"}, e \in BOOLEAN, l \in BOOLEAN :
             fs = <<BeginBlock(c, e, l)>>
    BY <1>2 DEF BeginFrames
  <2> DEFINE f == BeginBlock(c, e, l)
  <2>2. f \in BeginFrame /\ f.phase = "body"
    BY ResultsAreTyped DEF BeginBlock, BeginFrame, MaybeException
  <2>3. f \in Frame /\ f.kind = "begin" /\ f.phase = "body"
    BY <2>2, BeginIsFrame
  <2>4. fs = <<f>>
    BY <2>1
  <2> HIDE DEF f
  <2>5. fs \in Seq(Frame) /\ \A i \in 1..Len(fs) : fs[i] = f
    BY <2>3, <2>4
  <2> QED
    BY <2>3, <2>5
<1> QED
  BY <1>1, <1>2

LEMMA ProgramObject ==
  ASSUME TypeInv, ObjectInv, ProgramStep
  PROVE  ObjectInv'
<1>1. ProgramMove
  BY ProgramStepIsMove
<1>2. strayed \subseteq strayed'
  BY MarksStay DEF Next
<1>3. ASSUME NEW fs, Callee(fs) \/ fs \in BeginFrames, Enter(fs)
      PROVE  ObjectInv'
  <2>1. /\ stack' = stack \o fs /\ result = Running /\ result' = Running
        /\ pending_exc' = pending_exc
    BY <1>3 DEF Enter, CanAct, CanRun
  <2>2. /\ fs \in Seq(Frame)
        /\ \A i \in 1..Len(fs) :
             ~HoldsBack(fs[i]) /\ ~InRescue(fs[i]) /\ ~InEnsure(fs[i])
    BY <1>3, NewFrames DEF HoldsBack, InRescue, InEnsure
  <2> QED
    BY <2>1, <2>2, <1>2, PushObject, ResultsAreTyped
<1>4. CASE Returns \/ Leaps \/ End
  <2>1. /\ UNCHANGED <<stack, pending_exc>> /\ ~IsErr(result) /\ ~IsErr(result')
    BY <1>4, ResultsAreTyped DEF Returns, Leaps, Leap, End, CanAct, CanRun
  <2> QED
    BY <2>1, <1>2 DEF ObjectInv
<1>5. CASE Fails
  <2>1. PICK e \in Exception, pe \in MaybeException, marks \in SUBSET {"object"} :
             Fail(e, pe, marks) /\ RaisedInTime(e, pe, marks)
    BY <1>5 DEF Fails
  <2>2. /\ stack' = stack /\ result' = Err(e) /\ pending_exc' = pe /\ marks \subseteq strayed'
    BY <2>1 DEF Fail, Stray
  <2>3. ASSUME "object" \notin strayed'
        PROVE  Holds(pe, e)
    <3>1. "object" \notin marks
      BY <2>2, <2>3
    <3> QED
      BY <2>1, <3>1 DEF RaisedInTime, Holds
  <2> QED
    BY <2>2, <2>3, <1>2, ResultsAreTyped DEF ObjectInv
<1> QED
  BY <1>1, <1>3, <1>4, <1>5 DEF ProgramMove

\* An Err goes on to the caller, and nothing else does.
LEMMA AnswerErr ==
  ASSUME NEW r \in Result, NEW sg, Answer(r, sg)
  PROVE  /\ stack' = Below
         /\ IsErr(r) => result' = r
         /\ ~IsErr(r) => ~IsErr(result')
BY ResultsAreTyped DEF Answer, Settled

LEMMA FramedHolds ==
  ASSUME NEW r \in Result, NEW sg, IsErr(r), Holds(pending_exc, r.exc)
  PROVE  Holds(Framed(r, sg), r.exc)
<1>1. r.exc # None
  BY ResultsAreTyped, NoneAssumption
<1> QED
  BY <1>1 DEF Framed, Holds

\* The end of a begin: of r, with pe the pending exception.
LEMMA LeaveObject ==
  ASSUME TypeInv, ObjectInv, stack # <<>>, NEW r \in Result, NEW marks,
         LeaveBegin(r, marks), strayed \subseteq strayed',
         "object" \notin strayed' =>
            \/ IsErr(r) /\ Holds(pending_exc', r.exc)
            \/ /\ ~IsErr(r) /\ ~IsErr(result) /\ pending_exc' = pending_exc
               /\ ~HoldsBack(Top)
  PROVE  ObjectInv'
<1>1. CASE LoopKeeps
  <2>1. /\ stack' = Below /\ result' = Running /\ Drops(r) \subseteq strayed'
    BY <1>1 DEF LeaveBegin, Stray
  <2>2. "object" \notin strayed' => ~IsErr(r) \/ ~InsideOne
    BY <2>1 DEF Drops, When
  <2> QED
    BY <2>1, <2>2, PopObject, ResultsAreTyped
<1>2. CASE ~LoopKeeps
  <2>1. Answer(r, signal)
    BY <1>2 DEF LeaveBegin
  <2>2. /\ stack' = Below
        /\ IsErr(r) => result' = r
        /\ ~IsErr(r) => ~IsErr(result')
    BY <2>1, AnswerErr
  <2> QED
    BY <2>2, PopObject
<1> QED
  BY <1>1, <1>2

LEMMA ConcludeObject ==
  ASSUME TypeInv, ObjectInv, Over("begin"), NEW r \in Result, NEW pe \in MaybeException,
         NEW b \in MaybeException, NEW marks, Conclude(r, pe, b, marks),
         strayed \subseteq strayed',
         "object" \notin strayed' =>
            \/ IsErr(r) /\ Holds(pe, r.exc)
            \/ ~IsErr(r) /\ ~IsErr(result) /\ pe = pending_exc /\ ~HoldsBack(Top)
  PROVE  ObjectInv'
<1>1. Top \in BeginFrame /\ Top.kind = "begin" /\ stack # <<>>
  BY BelowIs, FrameFields DEF TypeInv, Grounded, Over
<1>2. pending_exc' = pe
  BY DEF Conclude
<1>3. CASE Top.ensure
  <2> DEFINE x == IF IsErr(r) /\ signal = None THEN pe ELSE None
             f == [Top EXCEPT !.phase = "ensure", !.saved = r, !.exc = x, !.prev = b]
  <2>1. stack' = WithTop(f) /\ result' = Running
    BY <1>3 DEF Conclude
  <2>2. x \in MaybeException
    BY DEF MaybeException
  <2> HIDE DEF x
  <2>3. f \in BeginFrame /\ f.kind = "begin" /\ f.phase = "ensure" /\ f.saved = r
    BY <1>1, <2>2 DEF BeginFrame
  <2> HIDE DEF f
  <2>4. ~IsErr(result')
    BY <2>1, ResultsAreTyped
  <2>5. ~InRescue(f)
    BY <2>3 DEF InRescue
  <2>6. InEnsure(f) <=> IsErr(r)
    BY <2>3 DEF InEnsure
  <2>7. IsErr(r) => HoldsBack(f)
    BY <2>3 DEF HoldsBack
  <2> QED
    BY <1>1, <1>2, <2>1, <2>3, <2>4, <2>5, <2>6, <2>7, ReplaceObject
<1>4. CASE ~Top.ensure
  BY <1>1, <1>2, <1>4, LeaveObject DEF Conclude
<1> QED
  BY <1>3, <1>4

LEMMA HandleObject ==
  ASSUME TypeInv, ObjectInv, Over("begin"), NEW r \in Result, NEW x \in MaybeException,
         NEW marks, Handle(r, x, marks), strayed \subseteq strayed',
         "object" \notin strayed' => IsErr(r) /\ x = r.exc
  PROVE  ObjectInv'
<1>1. Top \in BeginFrame /\ Top.kind = "begin" /\ stack # <<>> /\ bang \in MaybeException
  BY BelowIs, FrameFields DEF TypeInv, TypeOK, Grounded, Over
<1> DEFINE f == [Top EXCEPT !.phase = "rescue", !.saved = r, !.exc = x, !.prev = bang]
<1>2. /\ stack' = WithTop(f) /\ result' = Running
      /\ When(InsideOne, "object") \subseteq strayed'
  BY DEF Handle, Stray
<1>3. /\ f \in BeginFrame /\ f.kind = "begin" /\ f.phase = "rescue" /\ f.saved = r
      /\ f.exc = x
  BY <1>1 DEF BeginFrame
<1> HIDE DEF f
<1>4. "object" \notin strayed' => ~InsideOne
  BY <1>2 DEF When
<1>5. ~IsErr(result') /\ ~InEnsure(f)
  BY <1>2, <1>3, ResultsAreTyped DEF InEnsure
<1> QED
  BY <1>1, <1>2, <1>3, <1>4, <1>5, ReplaceObject

LEMMA EpilogueObject ==
  ASSUME TypeInv, ObjectInv, Epilogue
  PROVE  ObjectInv'
<1>1. /\ Grounded(stack) /\ result \in Result /\ pending_exc \in MaybeException
      /\ bang \in MaybeException /\ signal \in MaybeSignal /\ next \in Nat
  BY DEF TypeInv, TypeOK, MaybeSignal
<1>2. \A k : Over(k) => /\ stack # <<>> /\ Top \in Frame /\ Top.kind = k
                        /\ k = "begin" => Top \in BeginFrame
  BY <1>1, BelowIs, FrameFields DEF Grounded, Over
<1>3. strayed \subseteq strayed'
  BY MarksStay DEF Next
<1>4. "object" \notin strayed' => (IsErr(result) => Holds(pending_exc, result.exc))
  BY <1>3 DEF ObjectInv
<1>5. Top.kind # "begin" => ~HoldsBack(Top)
  BY DEF HoldsBack
\* A call hands on what it was answered.
<1>6. ASSUME NEW sg,
             (Answer(result, sg) /\ pending_exc' = pending_exc) \/ AnswerCall(result, sg),
             stack # <<>>, Top.kind # "begin"
      PROVE  ObjectInv'
  <2>1. Answer(result, sg) /\ pending_exc' \in {pending_exc, Framed(result, sg)}
    BY <1>6 DEF AnswerCall
  <2>2. ~IsErr(result) => Framed(result, sg) = pending_exc
    BY DEF Framed
  <2>3. "object" \notin strayed' => (IsErr(result) => Holds(pending_exc', result.exc))
    BY <2>1, <1>1, <1>4, FramedHolds
  <2>4. stack' = Below /\ (IsErr(result) => result' = result) /\ (~IsErr(result) => ~IsErr(result'))
    BY <2>1, <1>1, AnswerErr
  <2> QED
    BY <2>1, <2>2, <2>3, <2>4, <1>3, <1>5, <1>6, PopObject
\* A call ends a jump, and answers normally.
<1>7. ASSUME (Answer(Ok, None) /\ pending_exc' = pending_exc) \/ AnswerCall(Ok, None),
             stack # <<>>, Top.kind # "begin",
             IsErr(result) => Drops(result) \subseteq strayed'
      PROVE  ObjectInv'
  <2>1. Answer(Ok, None) /\ pending_exc' = pending_exc
    BY <1>7, ResultsAreTyped DEF AnswerCall, Framed
  <2>2. stack' = Below /\ ~IsErr(result')
    BY <2>1, AnswerErr, ResultsAreTyped
  <2>3. "object" \notin strayed' => ~IsErr(result) \/ ~InsideOne
    BY <1>7 DEF Drops, When
  <2> QED
    BY <2>1, <2>2, <2>3, <1>3, <1>5, <1>7, PopObject
<1>8. CASE MethodEnds
  <2>1. stack # <<>> /\ Top.kind # "begin"
    BY <1>8, <1>2 DEF MethodEnds
  <2> DEFINE own == IsJump(signal, {"return"}) /\ signal.to \in {None, Top.id}
  <2>2. CASE own
    BY <2>1, <2>2, <1>7, <1>8 DEF MethodEnds, Stray
  <2>3. CASE ~own
    <3>1. PICK sg : AnswerCall(result, sg)
      BY <2>3, <1>8 DEF MethodEnds
    <3> QED
      BY <2>1, <3>1, <1>6
  <2> QED
    BY <2>2, <2>3
<1>9. CASE BlockEnds
  <2>1. stack # <<>> /\ Top.kind # "begin" /\ pending_exc' = pending_exc
    BY <1>9, <1>2 DEF BlockEnds
  <2>2. CASE BlockTakes
    <3>1. Answer(Ok, None) /\ Drops(result) \subseteq strayed'
      BY <2>2, <1>9 DEF BlockEnds, Stray
    <3> QED
      BY <2>1, <3>1, <1>7
  <2>3. CASE ~BlockTakes
    <3>1. PICK sg : Answer(result, sg)
      BY <2>3, <1>9 DEF BlockEnds
    <3> QED
      BY <2>1, <3>1, <1>6
  <2> QED
    BY <2>2, <2>3
<1>10. CASE BlockEndsOrphan
  <2> DEFINE e == Raised(next, "error")
  <2>1. e \in Exception
    BY <1>1 DEF Raised, Exception
  <2>2. Answer(Err(e), None) /\ pending_exc' = e /\ stack # <<>>
    BY <1>10, <1>2 DEF BlockEndsOrphan
  <2> HIDE DEF e
  <2>3. stack' = Below /\ result' = Err(e)
    BY <2>1, <2>2, AnswerErr, ResultsAreTyped
  <2>4. IsErr(result') /\ Holds(pending_exc', result'.exc)
    <3>1. IsErr(Err(e)) /\ Err(e).exc = e /\ Holds(e, e)
      BY <2>1, ResultsAreTyped DEF Holds
    <3> QED
      BY <2>2, <2>3, <3>1
  <2> QED
    BY <2>2, <2>3, <2>4, <1>3, PopObject
<1>11. CASE SiteEnds
  <2>1. stack # <<>> /\ Top.kind # "begin"
    BY <1>11, <1>2 DEF SiteEnds
  <2>2. (~IsErr(result) /\ AnswerCall(Ok, None)) \/ AnswerCall(result, signal)
    BY <1>11 DEF SiteEnds
  <2> QED
    BY <2>1, <2>2, <1>6, <1>7
<1>12. CASE BuiltinEnds
  <2>1. stack # <<>> /\ Top.kind # "begin"
    BY <1>12, <1>2 DEF BuiltinEnds
  <2>2. (~IsErr(result) /\ AnswerCall(Ok, None)) \/ AnswerCall(result, signal)
    BY <1>12 DEF BuiltinEnds
  <2> QED
    BY <2>1, <2>2, <1>6, <1>7
<1>13. CASE CatchEnds
  <2>1. stack # <<>> /\ Top.kind # "begin"
    BY <1>13, <1>2 DEF CatchEnds
  <2>2. (~IsErr(result) /\ AnswerCall(Ok, None)) \/ AnswerCall(result, signal)
    BY <1>13 DEF CatchEnds
  <2> QED
    BY <2>1, <2>2, <1>6, <1>7
<1>14. CASE BodyEnds
  <2>1. /\ Over("begin") /\ Top.phase = "body" /\ Conclude(result, pending_exc, bang, {})
    BY <1>14 DEF BodyEnds, InPhase
  <2>2. ~HoldsBack(Top)
    BY <2>1 DEF HoldsBack
  <2> QED
    BY <2>1, <2>2, <1>1, <1>3, <1>4, ConcludeObject
<1>15. CASE BodyRaised
  <2>1. Over("begin") /\ IsErr(result)
    BY <1>15 DEF BodyRaised, InPhase
  <2>2. Object \in MaybeException
    <3>1. result.exc.id \in Nat
      BY <2>1, <1>1, ResultsAreTyped DEF Exception
    <3>2. Guessed \in MaybeException
      BY <3>1 DEF Guessed, Inferred, Exception, MaybeException
    <3> QED
      BY <3>2, <1>1 DEF Object
  <2>3. "object" \notin strayed' => Object = result.exc
    <3>1. result.exc # None
      BY <2>1, <1>1, ResultsAreTyped, NoneAssumption
    <3> QED
      BY <2>1, <3>1, <1>4 DEF Object, Guessed, Holds
  <2>4. CASE Conclude(result, Object, bang, {})
    <3>1. "object" \notin strayed' => Holds(Object, result.exc)
      BY <2>3 DEF Holds
    <3> QED
      BY <2>1, <2>2, <2>4, <3>1, <1>1, <1>3, ConcludeObject
  <2>5. CASE Handle(result, Object, {})
    BY <2>1, <2>2, <2>3, <2>5, <1>1, <1>3, HandleObject
  <2>6. CASE /\ stack' = WithTop([Top EXCEPT !.phase = "match", !.saved = result, !.exc = Object])
             /\ result' = Running
    <3> DEFINE f == [Top EXCEPT !.phase = "match", !.saved = result, !.exc = Object]
    <3>1. /\ f \in BeginFrame /\ f.kind = "begin" /\ f.phase = "match" /\ f.saved = result
          /\ f.exc = Object
      BY <2>1, <2>2, <1>1, <1>2 DEF BeginFrame
    <3>2. stack' = WithTop(f)
      BY <2>6
    <3> HIDE DEF f
    <3>3. ~InEnsure(f) /\ HoldsBack(f)
      BY <3>1 DEF InEnsure, HoldsBack
    <3>4. ~IsErr(result')
      BY <2>6, ResultsAreTyped
    <3> QED
      BY <3>1, <3>2, <3>3, <3>4, <2>1, <2>3, <1>2, <1>3, ReplaceObject
  <2> QED
    BY <1>15, <2>4, <2>5, <2>6 DEF BodyRaised
<1>16. CASE MatchEnds
  <2>1. Over("begin") /\ Top.phase = "match" /\ Top.kind = "begin" /\ Top \in BeginFrame
    BY <1>16, <1>2 DEF MatchEnds, InPhase
  <2>2. Top.saved \in Result /\ Top.exc \in MaybeException
    BY <2>1 DEF BeginFrame
  <2>3. "object" \notin strayed' => IsErr(Top.saved) /\ Top.exc = Top.saved.exc
    <3>1. Len(stack) \in DOMAIN stack
      BY <1>1, <1>2, <2>1, BelowIs DEF Grounded
    <3>2. InRescue(Top)
      BY <2>1 DEF InRescue
    <3> QED
      BY <3>1, <3>2, <1>3 DEF ObjectInv, RescuedIs, Top
  <2> DEFINE marks == When(signal # None, "signal")
  <2>4. Conclude(Top.saved, Top.exc, bang, marks) \/ Handle(Top.saved, Top.exc, marks)
    BY <1>16 DEF MatchEnds
  <2> HIDE DEF marks
  <2>5. CASE Conclude(Top.saved, Top.exc, bang, marks)
    <3>1. "object" \notin strayed' => IsErr(Top.saved) /\ Holds(Top.exc, Top.saved.exc)
      BY <2>3 DEF Holds
    <3> QED
      BY <2>1, <2>2, <2>5, <3>1, <1>1, <1>3, ConcludeObject
  <2>6. CASE Handle(Top.saved, Top.exc, marks)
    BY <2>1, <2>2, <2>3, <2>6, <1>3, HandleObject
  <2> QED
    BY <2>4, <2>5, <2>6
<1>17. CASE MatchRaised
  <2>1. /\ LeaveBegin(result, When(Top.ensure, "clause")) /\ stack # <<>> /\ IsErr(result)
        /\ pending_exc' = pending_exc
    BY <1>17 DEF MatchRaised, InPhase, Over
  <2> QED
    BY <2>1, <1>1, <1>3, <1>4, LeaveObject
<1>18. CASE RescueEnds
  <2>1. /\ Over("begin") /\ Top.phase = "rescue" /\ Top.prev \in MaybeException
        /\ Conclude(result, pending_exc, Top.prev, {})
    BY <1>18, <1>2 DEF RescueEnds, InPhase, BeginFrame
  <2>2. ~HoldsBack(Top)
    BY <2>1 DEF HoldsBack
  <2> QED
    BY <2>1, <2>2, <1>1, <1>3, <1>4, ConcludeObject
<1>19. CASE RescueRetries
  <2> DEFINE f == [Top EXCEPT !.phase = "body", !.saved = Ok, !.exc = None, !.prev = None]
  <2>1. /\ stack' = WithTop(f) /\ result' = Running /\ pending_exc' = pending_exc
        /\ Drops(result) \subseteq strayed'
    BY <1>19 DEF RescueRetries, Stray
  <2>2. stack # <<>> /\ Top \in BeginFrame /\ Top.kind = "begin" /\ Top.phase = "rescue"
    BY <1>19, <1>2 DEF RescueRetries, InPhase
  <2>3. f \in BeginFrame /\ f.phase = "body"
    BY <2>2, ResultsAreTyped DEF BeginFrame, MaybeException
  <2> HIDE DEF f
  <2>4. ~InRescue(f) /\ ~InEnsure(f) /\ ~HoldsBack(Top) /\ ~IsErr(result')
    BY <2>1, <2>2, <2>3, ResultsAreTyped DEF InRescue, InEnsure, HoldsBack
  <2>5. "object" \notin strayed' => ~IsErr(result) \/ ~InsideOne
    BY <2>1 DEF Drops, When
  <2> QED
    BY <2>1, <2>2, <2>3, <2>4, <2>5, <1>3, ReplaceObject
<1>20. CASE EnsureEnds
  <2>1. /\ stack # <<>> /\ Top.kind = "begin" /\ Top.phase = "ensure" /\ Top \in BeginFrame
        /\ pending_exc' = pending_exc
    BY <1>20, <1>2 DEF EnsureEnds, InPhase
  <2>2. Top.saved \in Result
    BY <2>1 DEF BeginFrame
  <2>3. CASE IsErr(result)
    BY <2>1, <2>3, <1>1, <1>3, <1>4, <1>20, LeaveObject DEF EnsureEnds
  <2>4. CASE ~IsErr(result)
    <3>1. LeaveBegin(Top.saved, {})
      BY <2>4, <1>20 DEF EnsureEnds
    <3>2. ASSUME IsErr(Top.saved), "object" \notin strayed'
          PROVE  Holds(pending_exc, Top.saved.exc)
      <4>1. Len(stack) \in DOMAIN stack /\ DOMAIN stack = 1..Len(stack) /\ Len(stack) \in Nat
        BY <1>1, <2>1, BelowIs DEF Grounded
      <4>2. InEnsure(stack[Len(stack)])
        BY <3>2, <2>1 DEF InEnsure, Top
      <4>3. \A j \in DOMAIN stack : j > Len(stack) => ~HoldsBack(stack[j])
        BY <4>1
      <4>4. InnermostIs(stack, pending_exc)
        BY <3>2, <2>4, <1>3 DEF ObjectInv
      <4> QED
        BY <4>1, <4>2, <4>3, <4>4 DEF InnermostIs, Top
    <3>3. ~IsErr(Top.saved) => ~HoldsBack(Top)
      BY <2>1 DEF HoldsBack
    <3> QED
      BY <2>1, <2>2, <2>4, <3>1, <3>2, <3>3, <1>3, LeaveObject
  <2> QED
    BY <2>3, <2>4
<1>21. CASE MainEnds
  <2>1. PICK out : stack' = <<Ending(out)>> /\ result' = Running
    BY <1>21 DEF MainEnds
  <2>2. \A i \in DOMAIN stack' : stack'[i].kind # "begin"
    BY <2>1 DEF Ending
  <2> QED
    BY <2>1, <2>2, ResultsAreTyped DEF ObjectInv, InnermostIs, RescuedIs, InEnsure, InRescue
<1>22. CASE HandlerRuns
  <2> DEFINE f == Block(at_exit_procs[Len(at_exit_procs)])
  <2>1. /\ stack' = Append(stack, f) /\ result = Running /\ result' = Running
        /\ pending_exc' = pending_exc /\ at_exit_procs # <<>>
    BY <1>22 DEF HandlerRuns
  <2>2. at_exit_procs[Len(at_exit_procs)] \in Proc
    BY <2>1 DEF TypeInv, TypeOK
  <2>3. f \in Frame /\ f.kind = "block"
    BY <2>2, <1>1 DEF Block, Frame
  <2> HIDE DEF f
  <2>4. stack' = stack \o <<f>>
    BY <2>1, <2>3, <1>1 DEF Grounded
  <2>5. <<f>> \in Seq(Frame) /\ \A i \in 1..Len(<<f>>) : <<f>>[i] = f
    BY <2>3
  <2>6. ~HoldsBack(f) /\ ~InRescue(f) /\ ~InEnsure(f)
    BY <2>3 DEF HoldsBack, InRescue, InEnsure
  <2> QED
    BY <2>1, <2>4, <2>5, <2>6, <1>3, PushObject, ResultsAreTyped
<1>23. CASE HandlerEnds
  <2>1. Over("ending") /\ stack' = stack /\ result' = Running
    BY <1>23 DEF HandlerEnds
  <2>2. \A i \in DOMAIN stack : stack[i].kind # "begin"
    BY <2>1, <1>1, <1>2, BottomIsAlone
  <2> QED
    BY <2>1, <2>2, ResultsAreTyped DEF ObjectInv, InnermostIs, RescuedIs, InEnsure, InRescue
<1>24. CASE Finish
  <2>1. stack' = <<>> /\ result = Running /\ result' = Running
    BY <1>24 DEF Finish
  <2> QED
    BY <2>1, ResultsAreTyped DEF ObjectInv, InnermostIs, RescuedIs
<1> QED
  BY <1>8, <1>9, <1>10, <1>11, <1>12, <1>13, <1>14, <1>15, <1>16, <1>17, <1>18, <1>19,
     <1>20, <1>21, <1>22, <1>23, <1>24 DEF Epilogue

LEMMA InitObject == Init => ObjectInv
<1> SUFFICES ASSUME Init PROVE ObjectInv
  OBVIOUS
<1>1. \A i \in DOMAIN stack : stack[i].kind # "begin"
  BY DEF Init, Main
<1>2. result = Running
  BY DEF Init
<1> QED
  BY <1>1, <1>2, ResultsAreTyped DEF ObjectInv, InnermostIs, RescuedIs, InEnsure, InRescue

LEMMA StepObject == TypeInv /\ ObjectInv /\ [Next]_vars => ObjectInv'
<1> SUFFICES ASSUME TypeInv, ObjectInv, [Next]_vars PROVE ObjectInv'
  OBVIOUS
<1>1. CASE ProgramStep
  BY <1>1, ProgramObject
<1>2. CASE Epilogue
  BY <1>2, EpilogueObject
<1>3. CASE Terminated \/ UNCHANGED vars
  BY <1>3 DEF Terminated, vars, control, ObjectInv
<1> QED
  BY <1>1, <1>2, <1>3 DEF Next

LEMMA AlwaysObject == Spec => []ObjectInv
BY InitObject, StepObject, AlwaysTyped, PTL DEF Spec

\* As long as no object was lost on the way, a rescue clause has the exception
\* that was raised, whatever other clauses, jumps and calls ran in between.
THEOREM RescueHasTheRaised == Spec => []RescuesTheRaisedBarring
<1>1. ObjectInv => RescuesTheRaisedBarring
  BY DEF ObjectInv, RescuedIs, InRescue, RescuesTheRaisedBarring, RescuesTheRaised
<1> QED
  BY <1>1, AlwaysObject, PTL

-----------------------------------------------------------------------------
(* $!: each clause that handles an exception has kept the value for the     *)
(* clauses below it.                                                        *)

Handles(f) ==
  f.kind = "begin" /\ (f.phase = "rescue" \/ (f.phase = "ensure" /\ f.exc # None))

\* v is what $! is for the frames below k.
BangBelow(s, k, v) ==
  \/ v = None /\ \A i \in 1..(k - 1) : ~Handles(s[i])
  \/ \E j \in 1..(k - 1) :
       /\ Handles(s[j]) /\ v = s[j].saved.exc
       /\ \A i \in 1..(k - 1) : i > j => ~Handles(s[i])

ClausesKeep(s) ==
  \A k \in DOMAIN s :
     Handles(s[k]) => s[k].exc = s[k].saved.exc /\ BangBelow(s, k, s[k].prev)

BangInv ==
  "object" \notin strayed => BangBelow(stack, Len(stack) + 1, bang) /\ ClausesKeep(stack)

\* What $! was when the innermost call began.
BangBefore == IF Handles(Top) THEN Top.prev ELSE bang

LEMMA BangPrefix ==
  ASSUME NEW s, NEW t, NEW k \in Nat, \A i \in 1..(k - 1) : t[i] = s[i], NEW v,
         BangBelow(s, k, v)
  PROVE  BangBelow(t, k, v)
<1>1. CASE v = None /\ \A i \in 1..(k - 1) : ~Handles(s[i])
  BY <1>1 DEF BangBelow
<1>2. CASE \E j \in 1..(k - 1) :
             /\ Handles(s[j]) /\ v = s[j].saved.exc
             /\ \A i \in 1..(k - 1) : i > j => ~Handles(s[i])
  <2>1. PICK j \in 1..(k - 1) :
             /\ Handles(s[j]) /\ v = s[j].saved.exc
             /\ \A i \in 1..(k - 1) : i > j => ~Handles(s[i])
    BY <1>2
  <2>2. Handles(t[j]) /\ v = t[j].saved.exc
    BY <2>1
  <2>3. \A i \in 1..(k - 1) : i > j => ~Handles(t[i])
    BY <2>1
  <2> QED
    BY <2>2, <2>3 DEF BangBelow
<1> QED
  BY <1>1, <1>2 DEF BangBelow

\* One frame more.
LEMMA BangNext ==
  ASSUME NEW s, NEW k \in Nat \ {0}, NEW v, NEW w, BangBelow(s, k, v),
         IF Handles(s[k]) THEN w = s[k].saved.exc ELSE w = v
  PROVE  BangBelow(s, k + 1, w)
<1>1. \A i \in 1..((k + 1) - 1) : i \in 1..(k - 1) \/ i = k
  OBVIOUS
<1>2. CASE Handles(s[k])
  <2>1. k \in 1..((k + 1) - 1) /\ \A i \in 1..((k + 1) - 1) : ~(i > k)
    OBVIOUS
  <2> QED
    BY <1>2, <2>1 DEF BangBelow
<1>3. CASE ~Handles(s[k])
  <2>1. CASE v = None /\ \A i \in 1..(k - 1) : ~Handles(s[i])
    BY <1>1, <1>3, <2>1 DEF BangBelow
  <2>2. CASE \E j \in 1..(k - 1) :
               /\ Handles(s[j]) /\ v = s[j].saved.exc
               /\ \A i \in 1..(k - 1) : i > j => ~Handles(s[i])
    <3>1. PICK j \in 1..(k - 1) :
               /\ Handles(s[j]) /\ v = s[j].saved.exc
               /\ \A i \in 1..(k - 1) : i > j => ~Handles(s[i])
      BY <2>2
    <3>2. j \in 1..((k + 1) - 1)
      OBVIOUS
    <3>3. \A i \in 1..((k + 1) - 1) : i > j => ~Handles(s[i])
      BY <1>1, <1>3, <3>1
    <3>4. w = s[j].saved.exc
      BY <1>3, <3>1
    <3> QED
      BY <3>1, <3>2, <3>3, <3>4 DEF BangBelow
  <2> QED
    BY <2>1, <2>2 DEF BangBelow
<1> QED
  BY <1>2, <1>3

\* One frame less.
LEMMA BangDown ==
  ASSUME NEW s, NEW k \in Nat \ {0}, NEW v, BangBelow(s, k + 1, v), ~Handles(s[k])
  PROVE  BangBelow(s, k, v)
<1>1. \A i \in 1..(k - 1) : i \in 1..((k + 1) - 1)
  OBVIOUS
<1>2. CASE v = None /\ \A i \in 1..((k + 1) - 1) : ~Handles(s[i])
  BY <1>1, <1>2 DEF BangBelow
<1>3. CASE \E j \in 1..((k + 1) - 1) :
             /\ Handles(s[j]) /\ v = s[j].saved.exc
             /\ \A i \in 1..((k + 1) - 1) : i > j => ~Handles(s[i])
  <2>1. PICK j \in 1..((k + 1) - 1) :
             /\ Handles(s[j]) /\ v = s[j].saved.exc
             /\ \A i \in 1..((k + 1) - 1) : i > j => ~Handles(s[i])
    BY <1>3
  <2>2. j # k
    BY <2>1
  <2>3. j \in 1..(k - 1)
    BY <2>2
  <2> QED
    BY <1>1, <2>1, <2>3 DEF BangBelow
<1> QED
  BY <1>2, <1>3 DEF BangBelow

LEMMA BangBeforeIs ==
  ASSUME TypeInv, BangInv, "object" \notin strayed, stack # <<>>
  PROVE  BangBelow(stack, Len(stack), BangBefore)
<1>1. Len(stack) \in Nat \ {0} /\ Len(stack) \in DOMAIN stack
  BY BelowIs DEF TypeInv, Grounded
<1>2. CASE Handles(Top)
  BY <1>1, <1>2 DEF BangInv, ClausesKeep, BangBefore, Top
<1>3. CASE ~Handles(Top)
  <2>1. BangBelow(stack, Len(stack) + 1, bang) /\ ~Handles(stack[Len(stack)])
    BY <1>3 DEF BangInv, Top
  <2>2. BangBelow(stack, Len(stack), bang)
    BY <2>1, <1>1, BangDown
  <2> QED
    BY <2>2, <1>3 DEF BangBefore
<1> QED
  BY <1>2, <1>3

LEMMA PopBang ==
  ASSUME TypeInv, BangInv, stack # <<>>, stack' = Below, strayed \subseteq strayed',
         bang' = BangBefore
  PROVE  BangInv'
<1> SUFFICES ASSUME "object" \notin strayed'
             PROVE  BangBelow(stack', Len(stack') + 1, bang') /\ ClausesKeep(stack')
  BY DEF BangInv
<1> DEFINE n == Len(stack)
           t == Below
<1>1. /\ n \in Nat \ {0} /\ DOMAIN stack = 1..n /\ DOMAIN t = 1..(n - 1) /\ Len(t) = n - 1
      /\ \A i \in 1..(n - 1) : t[i] = stack[i]
  BY BelowIs DEF TypeInv, Grounded
<1> HIDE DEF t
<1>2. "object" \notin strayed
  OBVIOUS
<1>3. BangBelow(t, n, bang')
  <2>1. BangBelow(stack, n, bang')
    BY <1>2, BangBeforeIs
  <2> DEFINE v == bang'
  <2>2. BangBelow(stack, n, v)
    BY <2>1
  <2> HIDE DEF v
  <2>3. BangBelow(t, n, v)
    BY <2>2, <1>1, BangPrefix
  <2> QED
    BY <2>3 DEF v
<1>4. ClausesKeep(t)
  <2> SUFFICES ASSUME NEW k \in DOMAIN t, Handles(t[k])
               PROVE  t[k].exc = t[k].saved.exc /\ BangBelow(t, k, t[k].prev)
    BY DEF ClausesKeep
  <2>1. k \in DOMAIN stack /\ t[k] = stack[k] /\ k \in Nat
    BY <1>1
  <2>2. stack[k].exc = stack[k].saved.exc /\ BangBelow(stack, k, stack[k].prev)
    BY <2>1, <1>2 DEF BangInv, ClausesKeep
  <2>3. \A i \in 1..(k - 1) : t[i] = stack[i]
    BY <1>1
  <2>4. BangBelow(t, k, stack[k].prev)
    BY <2>1, <2>2, <2>3, BangPrefix
  <2> QED
    BY <2>1, <2>2, <2>4
<1>5. n = Len(t) + 1
  BY <1>1
<1> QED
  BY <1>3, <1>4, <1>5 DEF t

LEMMA ReplaceBang ==
  ASSUME TypeInv, BangInv, stack # <<>>, NEW f \in BeginFrame, stack' = WithTop(f),
         strayed \subseteq strayed',
         "object" \notin strayed' =>
            IF Handles(f)
            THEN f.prev = BangBefore /\ bang' = f.saved.exc /\ f.exc = f.saved.exc
            ELSE bang' = BangBefore
  PROVE  BangInv'
<1> SUFFICES ASSUME "object" \notin strayed'
             PROVE  BangBelow(stack', Len(stack') + 1, bang') /\ ClausesKeep(stack')
  BY DEF BangInv
<1> DEFINE n == Len(stack)
           t == WithTop(f)
           v == bang'
<1>1. f \in Frame
  BY BeginIsFrame
<1>2. /\ n \in Nat \ {0} /\ DOMAIN stack = 1..n /\ DOMAIN t = 1..n /\ Len(t) = n
      /\ \A i \in 1..(n - 1) : t[i] = stack[i]
      /\ t[n] = f
  BY <1>1, BelowIs, WithTopIs DEF TypeInv, Grounded
<1>3. "object" \notin strayed
  OBVIOUS
<1>4. IF Handles(f)
      THEN f.prev = BangBefore /\ v = f.saved.exc /\ f.exc = f.saved.exc
      ELSE v = BangBefore
  OBVIOUS
<1> HIDE DEF t, v
<1>5. BangBelow(t, n, BangBefore)
  <2>1. BangBelow(stack, n, BangBefore)
    BY <1>3, BangBeforeIs
  <2> QED
    BY <2>1, <1>2, BangPrefix
<1>6. BangBelow(t, n + 1, v)
  BY <1>2, <1>4, <1>5, BangNext
<1>7. ClausesKeep(t)
  <2> SUFFICES ASSUME NEW k \in DOMAIN t, Handles(t[k])
               PROVE  t[k].exc = t[k].saved.exc /\ BangBelow(t, k, t[k].prev)
    BY DEF ClausesKeep
  <2>1. CASE k = n
    BY <2>1, <1>2, <1>4, <1>5
  <2>2. CASE k # n
    <3>1. k \in DOMAIN stack /\ t[k] = stack[k] /\ k \in Nat
      BY <2>2, <1>2
    <3>2. stack[k].exc = stack[k].saved.exc /\ BangBelow(stack, k, stack[k].prev)
      BY <3>1, <1>3 DEF BangInv, ClausesKeep
    <3>3. \A i \in 1..(k - 1) : t[i] = stack[i]
      BY <2>2, <1>2
    <3>4. BangBelow(t, k, stack[k].prev)
      BY <3>1, <3>2, <3>3, BangPrefix
    <3> QED
      BY <3>1, <3>2, <3>4
  <2> QED
    BY <2>1, <2>2
<1> QED
  BY <1>2, <1>6, <1>7 DEF t, v

LEMMA PushBang ==
  ASSUME TypeInv, BangInv, NEW fs \in Seq(Frame), stack' = stack \o fs,
         \A i \in 1..Len(fs) : ~Handles(fs[i]),
         strayed \subseteq strayed', bang' = bang
  PROVE  BangInv'
<1> SUFFICES ASSUME "object" \notin strayed'
             PROVE  BangBelow(stack', Len(stack') + 1, bang') /\ ClausesKeep(stack')
  BY DEF BangInv
<1> DEFINE n == Len(stack)
           t == stack \o fs
           m == Len(fs)
<1>1. stack \in Seq(Frame)
  BY DEF TypeInv, TypeOK
<1>2. /\ n \in Nat /\ DOMAIN stack = 1..n /\ m \in Nat
      /\ Len(t) = n + m /\ DOMAIN t = 1..(n + m)
      /\ \A i \in 1..n : t[i] = stack[i]
      /\ \A i \in 1..m : t[n + i] = fs[i]
  BY <1>1, OnTopIs
<1>3. BangBelow(stack, n + 1, bang) /\ ClausesKeep(stack)
  BY DEF BangInv
<1> HIDE DEF t, m
<1>4. \A i \in 1..((n + m + 1) - 1) : ~(i \in 1..((n + 1) - 1)) => ~Handles(t[i])
  <2> SUFFICES ASSUME NEW i \in 1..((n + m + 1) - 1), ~(i \in 1..((n + 1) - 1))
               PROVE  ~Handles(t[i])
    OBVIOUS
  <2>1. i - n \in 1..m /\ n + (i - n) = i
    BY <1>2
  <2>2. t[i] = fs[i - n]
    BY <1>2, <2>1
  <2> QED
    BY <2>1, <2>2 DEF m
<1>5. \A i \in 1..((n + 1) - 1) : i \in 1..((n + m + 1) - 1) /\ t[i] = stack[i]
  BY <1>2
<1>6. BangBelow(t, n + m + 1, bang)
  <2>1. CASE bang = None /\ \A i \in 1..((n + 1) - 1) : ~Handles(stack[i])
    <3>1. \A i \in 1..((n + m + 1) - 1) : ~Handles(t[i])
      BY <2>1, <1>4, <1>5
    <3> QED
      BY <2>1, <3>1 DEF BangBelow
  <2>2. CASE \E j \in 1..((n + 1) - 1) :
               /\ Handles(stack[j]) /\ bang = stack[j].saved.exc
               /\ \A i \in 1..((n + 1) - 1) : i > j => ~Handles(stack[i])
    <3>1. PICK j \in 1..((n + 1) - 1) :
               /\ Handles(stack[j]) /\ bang = stack[j].saved.exc
               /\ \A i \in 1..((n + 1) - 1) : i > j => ~Handles(stack[i])
      BY <2>2
    <3>2. j \in 1..((n + m + 1) - 1) /\ Handles(t[j]) /\ bang = t[j].saved.exc
      BY <3>1, <1>5
    <3>3. \A i \in 1..((n + m + 1) - 1) : i > j => ~Handles(t[i])
      BY <3>1, <1>4, <1>5
    <3> QED
      BY <3>2, <3>3 DEF BangBelow
  <2> QED
    BY <2>1, <2>2, <1>3 DEF BangBelow
<1>7. ClausesKeep(t)
  <2> SUFFICES ASSUME NEW k \in DOMAIN t, Handles(t[k])
               PROVE  t[k].exc = t[k].saved.exc /\ BangBelow(t, k, t[k].prev)
    BY DEF ClausesKeep
  <2>1. k \in 1..((n + m + 1) - 1)
    BY <1>2
  <2>2. k \in 1..((n + 1) - 1)
    BY <2>1, <1>4
  <2>3. k \in DOMAIN stack /\ t[k] = stack[k] /\ k \in Nat
    BY <2>2, <1>2
  <2>4. stack[k].exc = stack[k].saved.exc /\ BangBelow(stack, k, stack[k].prev)
    BY <2>3, <1>3 DEF ClausesKeep
  <2>5. \A i \in 1..(k - 1) : t[i] = stack[i]
    BY <2>2, <1>2
  <2>6. BangBelow(t, k, stack[k].prev)
    BY <2>3, <2>4, <2>5, BangPrefix
  <2> QED
    BY <2>3, <2>4, <2>6
<1>8. stack' = t /\ bang' = bang /\ Len(t) + 1 = n + m + 1
  BY <1>2 DEF t
<1> QED
  BY <1>6, <1>7, <1>8

\* The end of the body and of a rescue clause.
LEMMA ConcludeBang ==
  ASSUME TypeInv, BangInv, Over("begin"), NEW r \in Result, NEW pe \in MaybeException,
         NEW b \in MaybeException, NEW marks, Conclude(r, pe, b, marks),
         strayed \subseteq strayed', b = BangBefore,
         "object" \notin strayed' => (IsErr(r) => Holds(pe, r.exc))
  PROVE  BangInv'
<1>1. Top \in BeginFrame /\ Top.kind = "begin" /\ stack # <<>>
  BY BelowIs, FrameFields DEF TypeInv, Grounded, Over
<1>2. CASE Top.ensure
  <2> DEFINE x == IF IsErr(r) /\ signal = None THEN pe ELSE None
             f == [Top EXCEPT !.phase = "ensure", !.saved = r, !.exc = x, !.prev = b]
  <2>1. stack' = WithTop(f) /\ bang' = IF x = None THEN b ELSE x
    BY <1>2 DEF Conclude
  <2>2. x \in MaybeException /\ ("object" \notin strayed' /\ x # None => x = r.exc)
    BY DEF MaybeException, Holds
  <2> HIDE DEF x
  <2>3. f \in BeginFrame /\ f.kind = "begin" /\ f.phase = "ensure" /\ f.saved = r
        /\ f.exc = x /\ f.prev = b
    BY <1>1, <2>2 DEF BeginFrame
  <2> HIDE DEF f
  <2>4. Handles(f) <=> x # None
    BY <2>3 DEF Handles
  <2>5. "object" \notin strayed' =>
            IF Handles(f)
            THEN f.prev = BangBefore /\ bang' = f.saved.exc /\ f.exc = f.saved.exc
            ELSE bang' = BangBefore
    BY <2>1, <2>2, <2>3, <2>4
  <2> QED
    BY <1>1, <2>1, <2>3, <2>5, ReplaceBang
<1>3. CASE ~Top.ensure
  <2>1. stack' = Below /\ bang' = b
    BY <1>3 DEF Conclude, LeaveBegin, Answer
  <2> QED
    BY <1>1, <2>1, PopBang
<1> QED
  BY <1>2, <1>3

LEMMA HandleBang ==
  ASSUME TypeInv, BangInv, Over("begin"), NEW r \in Result, NEW x \in MaybeException,
         NEW marks, Handle(r, x, marks), strayed \subseteq strayed', bang = BangBefore,
         "object" \notin strayed' => x = r.exc
  PROVE  BangInv'
<1>1. Top \in BeginFrame /\ Top.kind = "begin" /\ stack # <<>> /\ bang \in MaybeException
  BY BelowIs, FrameFields DEF TypeInv, TypeOK, Grounded, Over
<1> DEFINE f == [Top EXCEPT !.phase = "rescue", !.saved = r, !.exc = x, !.prev = bang]
<1>2. stack' = WithTop(f) /\ bang' = x
  BY DEF Handle
<1>3. /\ f \in BeginFrame /\ f.kind = "begin" /\ f.phase = "rescue" /\ f.saved = r
      /\ f.exc = x /\ f.prev = bang
  BY <1>1 DEF BeginFrame
<1> HIDE DEF f
<1>4. Handles(f)
  BY <1>3 DEF Handles
<1>5. "object" \notin strayed' =>
            IF Handles(f)
            THEN f.prev = BangBefore /\ bang' = f.saved.exc /\ f.exc = f.saved.exc
            ELSE bang' = BangBefore
  BY <1>2, <1>3, <1>4
<1> QED
  BY <1>1, <1>2, <1>3, <1>5, ReplaceBang

LEMMA ProgramBang ==
  ASSUME TypeInv, BangInv, ProgramStep
  PROVE  BangInv'
<1>1. ProgramMove
  BY ProgramStepIsMove
<1>2. strayed \subseteq strayed'
  BY MarksStay DEF Next
<1>3. ASSUME NEW fs, Callee(fs) \/ fs \in BeginFrames, Enter(fs)
      PROVE  BangInv'
  <2>1. stack' = stack \o fs /\ bang' = bang
    BY <1>3 DEF Enter
  <2>2. fs \in Seq(Frame) /\ \A i \in 1..Len(fs) : ~Handles(fs[i])
    BY <1>3, NewFrames DEF Handles
  <2> QED
    BY <2>1, <2>2, <1>2, PushBang
<1>4. CASE Returns \/ Leaps \/ Fails \/ End
  <2>1. UNCHANGED <<stack, bang>>
    BY <1>4 DEF Returns, Leaps, Leap, Fails, Fail, End
  <2> QED
    BY <2>1, <1>2 DEF BangInv
<1> QED
  BY <1>1, <1>3, <1>4 DEF ProgramMove

LEMMA EpilogueBang ==
  ASSUME TypeInv, ObjectInv, BangInv, Epilogue
  PROVE  BangInv'
<1>1. /\ Grounded(stack) /\ result \in Result /\ pending_exc \in MaybeException
      /\ bang \in MaybeException
  BY DEF TypeInv, TypeOK
<1>2. \A k : Over(k) => /\ stack # <<>> /\ Top \in Frame /\ Top.kind = k
                        /\ k = "begin" => Top \in BeginFrame
  BY <1>1, BelowIs, FrameFields DEF Grounded, Over
<1>3. strayed \subseteq strayed'
  BY MarksStay DEF Next
<1>4. "object" \notin strayed' => (IsErr(result) => Holds(pending_exc, result.exc))
  BY <1>3 DEF ObjectInv
<1>5. ~Handles(Top) => bang = BangBefore
  BY DEF BangBefore
<1>6. Top.kind # "begin" => ~Handles(Top)
  BY DEF Handles
\* A call leaves $! alone.
<1>7. CASE \/ MethodEnds \/ BlockEnds \/ BlockEndsOrphan
           \/ SiteEnds \/ BuiltinEnds \/ CatchEnds
  <2>1. stack # <<>> /\ Top.kind # "begin"
    <3>1. \/ Over("method") \/ Over("block") \/ Over("site") \/ Over("builtin")
          \/ Over("catch")
      BY <1>7 DEF MethodEnds, BlockEnds, BlockEndsOrphan, SiteEnds, BuiltinEnds, CatchEnds
    <3> QED
      BY <3>1 DEF Over
  <2>2. stack' = Below /\ bang' = bang
    BY <1>7 DEF MethodEnds, BlockEnds, BlockEndsOrphan, SiteEnds, BuiltinEnds, CatchEnds,
                AnswerCall, Answer
  <2> QED
    BY <2>1, <2>2, <1>3, <1>5, <1>6, PopBang
<1>8. CASE BodyEnds
  <2>1. /\ Over("begin") /\ Top.phase = "body" /\ Conclude(result, pending_exc, bang, {})
    BY <1>8 DEF BodyEnds, InPhase
  <2>2. ~Handles(Top)
    BY <2>1 DEF Handles
  <2> QED
    BY <2>1, <2>2, <1>1, <1>3, <1>4, <1>5, ConcludeBang
<1>9. CASE BodyRaised
  <2>1. Over("begin") /\ IsErr(result) /\ Top.phase = "body"
    BY <1>9 DEF BodyRaised, InPhase
  <2>2. Object \in MaybeException
    <3>1. result.exc.id \in Nat
      BY <2>1, <1>1, ResultsAreTyped DEF Exception
    <3>2. Guessed \in MaybeException
      BY <3>1 DEF Guessed, Inferred, Exception, MaybeException
    <3> QED
      BY <3>2, <1>1 DEF Object
  <2>3. "object" \notin strayed' => Object = result.exc
    <3>1. result.exc # None
      BY <2>1, <1>1, ResultsAreTyped, NoneAssumption
    <3> QED
      BY <2>1, <3>1, <1>4 DEF Object, Guessed, Holds
  <2>4. bang = BangBefore
    BY <2>1, <1>5 DEF Handles
  <2>5. CASE Conclude(result, Object, bang, {})
    <3>1. "object" \notin strayed' => (IsErr(result) => Holds(Object, result.exc))
      BY <2>3 DEF Holds
    <3> QED
      BY <2>1, <2>2, <2>4, <2>5, <3>1, <1>1, <1>3, ConcludeBang
  <2>6. CASE Handle(result, Object, {})
    BY <2>1, <2>2, <2>3, <2>4, <2>6, <1>1, <1>3, HandleBang
  <2>7. CASE /\ stack' = WithTop([Top EXCEPT !.phase = "match", !.saved = result, !.exc = Object])
             /\ bang' = bang
    <3> DEFINE f == [Top EXCEPT !.phase = "match", !.saved = result, !.exc = Object]
    <3>1. f \in BeginFrame /\ f.kind = "begin" /\ f.phase = "match"
      BY <2>1, <2>2, <1>1, <1>2 DEF BeginFrame
    <3>2. stack' = WithTop(f)
      BY <2>7
    <3> HIDE DEF f
    <3>3. ~Handles(f)
      BY <3>1 DEF Handles
    <3> QED
      BY <3>1, <3>2, <3>3, <2>1, <2>4, <2>7, <1>2, <1>3, ReplaceBang
  <2> QED
    BY <1>9, <2>5, <2>6, <2>7 DEF BodyRaised
<1>10. CASE MatchEnds
  <2>1. Over("begin") /\ Top.phase = "match" /\ Top.kind = "begin" /\ Top \in BeginFrame
    BY <1>10, <1>2 DEF MatchEnds, InPhase
  <2>2. Top.saved \in Result /\ Top.exc \in MaybeException /\ bang = BangBefore
    BY <2>1, <1>5 DEF BeginFrame, Handles
  <2>3. "object" \notin strayed' => IsErr(Top.saved) /\ Top.exc = Top.saved.exc
    <3>1. Len(stack) \in DOMAIN stack
      BY <1>1, <1>2, <2>1, BelowIs DEF Grounded
    <3>2. InRescue(Top)
      BY <2>1 DEF InRescue
    <3> QED
      BY <3>1, <3>2, <1>3 DEF ObjectInv, RescuedIs, Top
  <2> DEFINE marks == When(signal # None, "signal")
  <2>4. Conclude(Top.saved, Top.exc, bang, marks) \/ Handle(Top.saved, Top.exc, marks)
    BY <1>10 DEF MatchEnds
  <2> HIDE DEF marks
  <2>5. CASE Conclude(Top.saved, Top.exc, bang, marks)
    <3>1. "object" \notin strayed' => (IsErr(Top.saved) => Holds(Top.exc, Top.saved.exc))
      BY <2>3 DEF Holds
    <3> QED
      BY <2>1, <2>2, <2>5, <3>1, <1>1, <1>3, ConcludeBang
  <2>6. CASE Handle(Top.saved, Top.exc, marks)
    BY <2>1, <2>2, <2>3, <2>6, <1>3, HandleBang
  <2> QED
    BY <2>4, <2>5, <2>6
<1>11. CASE MatchRaised
  <2>1. /\ stack' = Below /\ bang' = bang /\ stack # <<>> /\ Top.phase = "match"
    BY <1>11 DEF MatchRaised, InPhase, Over, LeaveBegin, Answer
  <2>2. ~Handles(Top)
    BY <2>1 DEF Handles
  <2> QED
    BY <2>1, <2>2, <1>3, <1>5, PopBang
<1>12. CASE RescueEnds
  <2>1. /\ Over("begin") /\ Top.phase = "rescue" /\ Top.kind = "begin"
        /\ Top.prev \in MaybeException
        /\ Conclude(result, pending_exc, Top.prev, {})
    BY <1>12, <1>2 DEF RescueEnds, InPhase, BeginFrame
  <2>2. Top.prev = BangBefore
    BY <2>1 DEF Handles, BangBefore
  <2> QED
    BY <2>1, <2>2, <1>1, <1>3, <1>4, ConcludeBang
<1>13. CASE RescueRetries
  <2> DEFINE f == [Top EXCEPT !.phase = "body", !.saved = Ok, !.exc = None, !.prev = None]
  <2>1. stack' = WithTop(f) /\ bang' = Top.prev
    BY <1>13 DEF RescueRetries
  <2>2. stack # <<>> /\ Top \in BeginFrame /\ Top.kind = "begin" /\ Top.phase = "rescue"
    BY <1>13, <1>2 DEF RescueRetries, InPhase
  <2>3. f \in BeginFrame /\ f.phase = "body"
    BY <2>2, ResultsAreTyped DEF BeginFrame, MaybeException
  <2> HIDE DEF f
  <2>4. ~Handles(f) /\ Top.prev = BangBefore
    BY <2>2, <2>3 DEF Handles, BangBefore
  <2> QED
    BY <2>1, <2>2, <2>3, <2>4, <1>3, ReplaceBang
<1>14. CASE EnsureEnds
  <2>1. stack # <<>> /\ Top.kind = "begin" /\ Top.phase = "ensure"
    BY <1>14, <1>2 DEF EnsureEnds, InPhase
  <2>2. stack' = Below /\ bang' = IF Top.exc = None THEN bang ELSE Top.prev
    BY <1>14 DEF EnsureEnds, LeaveBegin, Answer
  <2>3. bang' = BangBefore
    BY <2>1, <2>2 DEF BangBefore, Handles
  <2> QED
    BY <2>1, <2>2, <2>3, <1>3, PopBang
\* Nothing is handled at the bottom of the stack.
<1>15. ASSUME stack # <<>>, Top.kind \in {"main", "ending"}, "object" \notin strayed
       PROVE  bang = None
  <2>1. Len(stack) = 1 /\ stack[1] = Top
    BY <1>1, <1>15, BottomIsAlone
  <2>2. BangBelow(stack, 2, bang)
    BY <2>1, <1>15 DEF BangInv
  <2>3. \A i \in 1..(2 - 1) : i = 1
    OBVIOUS
  <2> QED
    BY <2>1, <2>2, <2>3, <1>6, <1>15 DEF BangBelow
<1>16. CASE MainEnds
  <2>1. PICK out : stack' = <<Ending(out)>> /\ bang' = bang
    BY <1>16 DEF MainEnds
  <2>2. stack # <<>> /\ Top.kind = "main"
    BY <1>16, <1>2 DEF MainEnds
  <2>3. \A i \in DOMAIN stack' : ~Handles(stack'[i])
    BY <2>1 DEF Ending, Handles
  <2>4. Len(stack') = 1 /\ DOMAIN stack' = 1..1
    BY <2>1
  <2>5. "object" \notin strayed' => bang' = None
    BY <2>1, <2>2, <1>3, <1>15
  <2> QED
    BY <2>3, <2>4, <2>5 DEF BangInv, BangBelow, ClausesKeep
<1>17. CASE HandlerRuns
  <2> DEFINE f == Block(at_exit_procs[Len(at_exit_procs)])
  <2>1. stack' = Append(stack, f) /\ bang' = bang /\ at_exit_procs # <<>>
    BY <1>17 DEF HandlerRuns
  <2>2. at_exit_procs[Len(at_exit_procs)] \in Proc /\ next \in Nat
    BY <2>1 DEF TypeInv, TypeOK
  <2>3. f \in Frame /\ f.kind = "block"
    BY <2>2 DEF Block, Frame
  <2> HIDE DEF f
  <2>4. stack' = stack \o <<f>>
    BY <2>1, <2>3, <1>1 DEF Grounded
  <2>5. <<f>> \in Seq(Frame) /\ \A i \in 1..Len(<<f>>) : ~Handles(<<f>>[i])
    BY <2>3 DEF Handles
  <2> QED
    BY <2>1, <2>4, <2>5, <1>3, PushBang
<1>18. CASE HandlerEnds
  <2>1. UNCHANGED <<stack, bang>>
    BY <1>18 DEF HandlerEnds
  <2> QED
    BY <2>1, <1>3 DEF BangInv
<1>19. CASE Finish
  <2>1. stack' = <<>> /\ bang' = bang /\ stack # <<>> /\ Top.kind = "ending"
    BY <1>19 DEF Finish
  <2>2. Len(stack') = 0 /\ DOMAIN stack' = {}
    BY <2>1
  <2>3. "object" \notin strayed' => bang' = None
    BY <2>1, <1>3, <1>15
  <2> QED
    BY <2>2, <2>3 DEF BangInv, BangBelow, ClausesKeep
<1> QED
  BY <1>7, <1>8, <1>9, <1>10, <1>11, <1>12, <1>13, <1>14, <1>16, <1>17, <1>18, <1>19
  DEF Epilogue

LEMMA InitBang == Init => BangInv
<1> SUFFICES ASSUME Init PROVE BangInv
  OBVIOUS
<1>1. \A i \in DOMAIN stack : ~Handles(stack[i])
  BY DEF Init, Main, Handles
<1>2. Len(stack) = 1 /\ DOMAIN stack = 1..1 /\ bang = None
  BY DEF Init
<1> QED
  BY <1>1, <1>2 DEF BangInv, BangBelow, ClausesKeep

LEMMA StepBang == TypeInv /\ ObjectInv /\ BangInv /\ [Next]_vars => BangInv'
<1> SUFFICES ASSUME TypeInv, ObjectInv, BangInv, [Next]_vars PROVE BangInv'
  OBVIOUS
<1>1. CASE ProgramStep
  BY <1>1, ProgramBang
<1>2. CASE Epilogue
  BY <1>2, EpilogueBang
<1>3. CASE Terminated \/ UNCHANGED vars
  BY <1>3 DEF Terminated, vars, control, BangInv
<1> QED
  BY <1>1, <1>2, <1>3 DEF Next

LEMMA AlwaysBang == Spec => []BangInv
BY InitBang, StepBang, AlwaysTyped, AlwaysObject, PTL DEF Spec

\* $! is the exception of the innermost clause that handles one, and nil
\* outside of them, as long as no object was lost: every way out of a clause
\* brings the former value back.
THEOREM BangIsTheHandled == Spec => []BangIsHandled
<1>1. TypeInv /\ BangInv => BangIsHandled
  <2> SUFFICES ASSUME TypeInv, BangInv, "object" \notin strayed
               PROVE  bang = IF Handling = {} THEN None
                             ELSE stack[Largest(Handling)].saved.exc
    BY DEF BangIsHandled
  <2> DEFINE n == Len(stack)
  <2>1. n \in Nat /\ DOMAIN stack = 1..n
    BY DEF TypeInv, TypeOK
  <2>2. \A i : i \in 1..((n + 1) - 1) <=> i \in 1..n
    BY <2>1
  <2>3. Handling = {i \in 1..n : Handles(stack[i])}
    BY <2>1 DEF Handling, Handles
  <2>4. BangBelow(stack, n + 1, bang)
    BY DEF BangInv
  <2>5. CASE bang = None /\ \A i \in 1..((n + 1) - 1) : ~Handles(stack[i])
    BY <2>2, <2>3, <2>5
  <2>6. CASE \E j \in 1..((n + 1) - 1) :
               /\ Handles(stack[j]) /\ bang = stack[j].saved.exc
               /\ \A i \in 1..((n + 1) - 1) : i > j => ~Handles(stack[i])
    <3>1. PICK j \in 1..n :
               /\ Handles(stack[j]) /\ bang = stack[j].saved.exc
               /\ \A i \in 1..n : i > j => ~Handles(stack[i])
      BY <2>2, <2>6
    <3> DEFINE S == Handling
               l == Largest(S)
    <3>2. S \subseteq 1..n /\ j \in S
      BY <2>3, <3>1
    <3>3. l \in S /\ \A i \in S : i <= l
      <4> HIDE DEF S
      <4> QED
        BY <2>1, <3>2, LargestIsIn
    <3>4. l \in 1..n /\ Handles(stack[l]) /\ j <= l
      BY <3>2, <3>3, <2>3
    <3> HIDE DEF l, S
    <3>5. l = j
      BY <3>1, <3>4
    <3> QED
      BY <3>1, <3>2, <3>5 DEF l, S
  <2> QED
    BY <2>4, <2>5, <2>6 DEF BangBelow
<1> QED
  BY <1>1, AlwaysTyped, AlwaysBang, PTL

-----------------------------------------------------------------------------
(* A throw on its way: its catch is below, and no Err is held back above it. *)

Throwing == IsJump(signal, {"throw"})

CatchBelow(s, g, sg) ==
  /\ g \in DOMAIN s /\ s[g].kind = "catch" /\ s[g].tag = sg.to
  /\ \A i \in DOMAIN s : i > g => ~InEnsure(s[i])

ThrowInv ==
  "signal" \notin strayed /\ Throwing => CatchBelow(stack, goal, signal) /\ ~IsErr(result)

LEMMA PopThrow ==
  ASSUME TypeInv, ThrowInv, stack # <<>>, stack' = Below, strayed \subseteq strayed',
         "signal" \notin strayed' /\ Throwing' =>
            signal' = signal /\ goal' = goal /\ goal # Len(stack) /\ ~IsErr(result')
  PROVE  ThrowInv'
<1> SUFFICES ASSUME "signal" \notin strayed', Throwing'
             PROVE  CatchBelow(stack', goal', signal') /\ ~IsErr(result')
  BY DEF ThrowInv
<1> DEFINE n == Len(stack)
<1>1. /\ n \in Nat \ {0} /\ DOMAIN stack = 1..n /\ DOMAIN stack' = 1..(n - 1)
      /\ \A i \in 1..(n - 1) : stack'[i] = stack[i]
  <2>1. /\ n \in Nat \ {0} /\ DOMAIN stack = 1..n /\ DOMAIN Below = 1..(n - 1)
        /\ \A i \in 1..(n - 1) : Below[i] = stack[i]
    BY BelowIs DEF TypeInv, Grounded
  <2> QED
    BY <2>1
<1>2. signal' = signal /\ goal' = goal /\ goal # n /\ ~IsErr(result')
  OBVIOUS
<1>3. CatchBelow(stack, goal, signal)
  BY <1>2 DEF ThrowInv, Throwing
<1>4. goal \in 1..(n - 1)
  BY <1>1, <1>2, <1>3 DEF CatchBelow
<1>5. CatchBelow(stack', goal, signal)
  BY <1>1, <1>3, <1>4 DEF CatchBelow
<1> QED
  BY <1>2, <1>5

LEMMA ReplaceThrow ==
  ASSUME TypeInv, ThrowInv, stack # <<>>, Top.kind = "begin", NEW f \in BeginFrame,
         stack' = WithTop(f), strayed \subseteq strayed',
         "signal" \notin strayed' /\ Throwing' =>
            signal' = signal /\ goal' = goal /\ ~IsErr(result') /\ ~InEnsure(f)
  PROVE  ThrowInv'
<1> SUFFICES ASSUME "signal" \notin strayed', Throwing'
             PROVE  CatchBelow(stack', goal', signal') /\ ~IsErr(result')
  BY DEF ThrowInv
<1> DEFINE n == Len(stack)
<1>1. f \in Frame
  BY BeginIsFrame
<1>2. /\ n \in Nat \ {0} /\ DOMAIN stack = 1..n /\ DOMAIN stack' = 1..n
      /\ \A i \in 1..(n - 1) : stack'[i] = stack[i]
      /\ stack'[n] = f
  <2>1. /\ n \in Nat \ {0} /\ DOMAIN stack = 1..n /\ DOMAIN WithTop(f) = 1..n
        /\ \A i \in 1..(n - 1) : WithTop(f)[i] = stack[i]
        /\ WithTop(f)[n] = f
    BY <1>1, BelowIs, WithTopIs DEF TypeInv, Grounded
  <2> QED
    BY <2>1
<1>3. signal' = signal /\ goal' = goal /\ ~IsErr(result') /\ ~InEnsure(f)
  OBVIOUS
<1>4. CatchBelow(stack, goal, signal)
  BY <1>3 DEF ThrowInv, Throwing
<1>5. goal \in 1..(n - 1)
  BY <1>2, <1>4 DEF CatchBelow, Top
<1>6. \A i \in DOMAIN stack' : i = n \/ (i \in 1..(n - 1) /\ stack'[i] = stack[i])
  BY <1>2
<1>7. CatchBelow(stack', goal, signal)
  BY <1>2, <1>3, <1>4, <1>5, <1>6 DEF CatchBelow
<1> QED
  BY <1>3, <1>7

LEMMA ProgramThrow ==
  ASSUME TypeInv, ThrowInv, ProgramStep
  PROVE  ThrowInv'
<1>1. ProgramMove
  BY ProgramStepIsMove
<1>2. strayed \subseteq strayed'
  BY MarksStay DEF Next
\* A call, or an error, while a throw is on its way.
<1>3. CASE \/ \E fs : Enter(fs)
           \/ Returns
           \/ Fails
  <2>1. signal' = signal /\ When(signal # None, "signal") \subseteq strayed'
    BY <1>3 DEF Enter, Returns, Fails, Fail, Stray
  <2>2. "signal" \notin strayed' => signal' = None
    BY <2>1 DEF When
  <2> QED
    BY <2>2 DEF ThrowInv, Throwing, IsJump
<1>4. CASE Leaps
  <2>1. PICK sg \in Signals, g \in 0..Len(stack), lost \in BOOLEAN :
             /\ Leap(sg, g, lost)
             /\ sg.kind = "throw" => lost /\ g = CatchIndex(sg.to) /\ g # 0
    BY <1>4 DEF Leaps
  <2>2. /\ signal' = sg /\ goal' = g /\ stack' = stack /\ ~IsErr(result')
        /\ When(lost /\ Superseded(g) # {}, "signal") \subseteq strayed'
    BY <2>1, ResultsAreTyped DEF Leap, Stray
  <2>3. ASSUME "signal" \notin strayed', sg.kind = "throw"
        PROVE  CatchBelow(stack, g, sg)
    <3>1. g = CatchIndex(sg.to) /\ g # 0 /\ Superseded(g) = {}
      BY <2>1, <2>2, <2>3 DEF When
    <3>2. stack \in Seq(Frame) /\ Len(stack) \in Nat /\ DOMAIN stack = 1..Len(stack)
      BY DEF TypeInv, TypeOK
    <3> DEFINE S == {i \in DOMAIN stack : stack[i].kind = "catch" /\ stack[i].tag = sg.to}
    <3>3. g = Largest(S) /\ S \subseteq 1..Len(stack)
      BY <3>1, <3>2 DEF CatchIndex
    <3>4. g \in S
      <4> HIDE DEF S
      <4> QED
        BY <3>1, <3>2, <3>3, LargestBound
    <3>5. \A i \in DOMAIN stack : i > g => ~InEnsure(stack[i])
      <4> SUFFICES ASSUME NEW i \in DOMAIN stack, i > g, InEnsure(stack[i])
                   PROVE  FALSE
        OBVIOUS
      <4>1. i \in g + 1 .. Len(stack)
        BY <3>2, <3>4
      <4> QED
        BY <4>1, <3>1 DEF Superseded, InEnsure
    <3> QED
      BY <3>4, <3>5 DEF CatchBelow
  <2>4. ASSUME "signal" \notin strayed', Throwing'
        PROVE  CatchBelow(stack', goal', signal') /\ ~IsErr(result')
    <3>1. sg.kind = "throw"
      BY <2>2, <2>4 DEF Throwing, IsJump
    <3> QED
      BY <3>1, <2>2, <2>3, <2>4
  <2> QED
    BY <2>4 DEF ThrowInv
<1>5. CASE End
  <2>1. UNCHANGED <<stack, goal, signal, strayed>> /\ ~IsErr(result')
    BY <1>5, ResultsAreTyped DEF End
  <2> QED
    BY <2>1 DEF ThrowInv, Throwing
<1> QED
  BY <1>1, <1>3, <1>4, <1>5 DEF ProgramMove

LEMMA AnswerThrow ==
  ASSUME NEW r \in Result, NEW sg, Answer(r, sg)
  PROVE  /\ stack' = Below
         /\ ~IsErr(r) => ~IsErr(result')
         /\ sg = None => ~Throwing'
         /\ Throwing' => signal' = sg /\ goal' = goal
BY ResultsAreTyped DEF Answer, Settled, Signal, Throwing, IsJump

LEMMA EpilogueThrow ==
  ASSUME TypeInv, ThrowInv, Epilogue
  PROVE  ThrowInv'
<1>1. /\ Grounded(stack) /\ result \in Result /\ signal \in MaybeSignal
      /\ pending_exc \in MaybeException /\ bang \in MaybeException
  BY DEF TypeInv, TypeOK, MaybeSignal
<1>2. \A k : Over(k) => /\ stack # <<>> /\ Top \in Frame /\ Top.kind = k
                        /\ k = "begin" => Top \in BeginFrame
  BY <1>1, BelowIs, FrameFields DEF Grounded, Over
<1>3. strayed \subseteq strayed'
  BY MarksStay DEF Next
\* What holds while a throw is on its way.
<1>4. ASSUME "signal" \notin strayed, Throwing
      PROVE  /\ ~IsErr(result) /\ CatchBelow(stack, goal, signal)
             /\ signal = Jump("throw", signal.to) /\ signal.kind = "throw"
  <2>1. signal \in Signals
    BY <1>1, <1>4 DEF Throwing, IsJump, MaybeSignal
  <2> QED
    BY <2>1, <1>4, SignalsAreTyped DEF ThrowInv, Throwing, IsJump
<1>5. ASSUME stack # <<>>, Top.kind # "catch", "signal" \notin strayed, Throwing
      PROVE  goal # Len(stack)
  BY <1>4, <1>5 DEF CatchBelow, Top
\* A call hands the throw on.
<1>6. ASSUME NEW r \in Result, NEW sg, Answer(r, sg), stack # <<>>, Top.kind # "catch",
             "signal" \notin strayed' /\ Throwing' => sg = signal /\ ~IsErr(r)
      PROVE  ThrowInv'
  <2>1. /\ stack' = Below
        /\ ~IsErr(r) => ~IsErr(result')
        /\ Throwing' => signal' = sg /\ goal' = goal
    BY <1>6, AnswerThrow
  <2>2. ASSUME "signal" \notin strayed', Throwing'
        PROVE  signal' = signal /\ goal' = goal /\ goal # Len(stack) /\ ~IsErr(result')
    <3>1. signal' = signal /\ goal' = goal /\ ~IsErr(result')
      BY <2>1, <2>2, <1>6
    <3>2. Throwing
      BY <2>2, <3>1 DEF Throwing
    <3> QED
      BY <3>1, <3>2, <2>2, <1>3, <1>5, <1>6
  <2> QED
    BY <2>1, <2>2, <1>3, <1>6, PopThrow
\* A call answers with no jump on its way, or with the one it was left with.
<1>7. ASSUME NEW r \in Result, NEW sg, Answer(r, sg) \/ AnswerCall(r, sg), stack # <<>>,
             Top.kind # "catch", sg = None \/ (sg = signal /\ (IsErr(r) => IsErr(result)))
      PROVE  ThrowInv'
  <2>1. Answer(r, sg)
    BY <1>7 DEF AnswerCall
  <2>2. ASSUME "signal" \notin strayed', Throwing'
        PROVE  sg = signal /\ ~IsErr(r)
    <3>1. sg # None /\ signal' = sg
      BY <2>1, <2>2, AnswerThrow
    <3>2. sg = signal /\ Throwing
      BY <1>7, <2>2, <3>1 DEF Throwing
    <3> QED
      BY <1>3, <1>4, <1>7, <2>2, <3>1, <3>2
  <2> QED
    BY <2>1, <2>2, <1>6, <1>7
<1>8. CASE MethodEnds
  <2>1. stack # <<>> /\ Top.kind = "method"
    BY <1>8, <1>2 DEF MethodEnds
  <2>2. PICK r \in {Ok, result}, sg \in {None, signal} :
             AnswerCall(r, sg) /\ (sg = None \/ r = result)
    BY <1>8 DEF MethodEnds
  <2> QED
    BY <2>1, <2>2, <1>1, <1>7, ResultsAreTyped
<1>9. CASE BlockEnds
  <2>1. stack # <<>> /\ Top.kind = "block"
    BY <1>9, <1>2 DEF BlockEnds
  <2>2. CASE BlockTakes
    BY <2>1, <2>2, <1>7, <1>9, ResultsAreTyped DEF BlockEnds
  <2>3. CASE ~BlockTakes /\ IsJump(signal, {"return"}) /\ signal.to = None
    <3>1. Answer(result, Jump("return", Top.blk.home))
      BY <2>3, <1>9 DEF BlockEnds
    <3>2. ~Throwing'
      BY <3>1, <1>1, AnswerThrow DEF Throwing, IsJump, Jump
    <3> QED
      BY <3>2 DEF ThrowInv
  <2>4. CASE ~BlockTakes /\ ~(IsJump(signal, {"return"}) /\ signal.to = None)
    <3>1. Answer(result, signal)
      BY <2>4, <1>9 DEF BlockEnds
    <3> QED
      BY <2>1, <3>1, <1>1, <1>7
  <2> QED
    BY <2>2, <2>3, <2>4
<1>10. CASE BlockEndsOrphan
  <2>1. signal' = None
    BY <1>10 DEF BlockEndsOrphan, Answer, Signal
  <2> QED
    BY <2>1 DEF ThrowInv, Throwing, IsJump
<1>11. CASE SiteEnds \/ BuiltinEnds
  <2>1. stack # <<>> /\ Top.kind # "catch"
    <3>1. Over("site") \/ Over("builtin")
      BY <1>11 DEF SiteEnds, BuiltinEnds
    <3> QED
      BY <3>1 DEF Over
  <2>2. AnswerCall(Ok, None) \/ AnswerCall(result, signal)
    BY <1>11 DEF SiteEnds, BuiltinEnds
  <2> QED
    BY <2>1, <2>2, <1>1, <1>7, ResultsAreTyped
<1>12. CASE CatchEnds
  <2>1. stack # <<>> /\ Top.kind = "catch"
    BY <1>12, <1>2 DEF CatchEnds
  <2>2. CASE ~IsErr(result) /\ signal = Jump("throw", Top.tag)
    <3>1. signal' = None
      BY <2>2, <1>12 DEF CatchEnds, AnswerCall, Answer, Signal
    <3> QED
      BY <3>1 DEF ThrowInv, Throwing, IsJump
  <2>3. CASE ~(~IsErr(result) /\ signal = Jump("throw", Top.tag))
    <3>1. Answer(result, signal)
      BY <2>3, <1>12 DEF CatchEnds, AnswerCall
    <3>2. ASSUME "signal" \notin strayed', Throwing'
          PROVE  signal' = signal /\ goal' = goal /\ goal # Len(stack) /\ ~IsErr(result')
      <4>1. /\ signal' = signal /\ goal' = goal
            /\ ~IsErr(result) => ~IsErr(result')
        BY <3>1, <3>2, <1>1, AnswerThrow
      <4>2. Throwing
        BY <3>2, <4>1 DEF Throwing
      <4>3. /\ ~IsErr(result) /\ CatchBelow(stack, goal, signal)
            /\ signal = Jump("throw", signal.to)
        BY <3>2, <4>2, <1>3, <1>4
      <4>4. goal # Len(stack)
        BY <2>3, <4>3 DEF CatchBelow, Top
      <4> QED
        BY <4>1, <4>3, <4>4
    <3> QED
      BY <2>1, <3>1, <3>2, <1>3, PopThrow DEF Answer
  <2> QED
    BY <2>2, <2>3
\* A begin is left with the result it was given, or turns to a clause with one.
<1>13. ASSUME Over("begin"), NEW r \in Result, NEW marks, LeaveBegin(r, marks),
              "signal" \notin strayed' /\ Throwing => ~IsErr(r)
       PROVE  ThrowInv'
  <2>1. stack # <<>> /\ Top.kind # "catch"
    BY <1>13, <1>2
  <2>2. CASE LoopKeeps
    <3>1. signal' = None
      BY <2>2, <1>13 DEF LeaveBegin, Signal
    <3> QED
      BY <3>1 DEF ThrowInv, Throwing, IsJump
  <2>3. CASE ~LoopKeeps
    <3>1. Answer(r, signal)
      BY <2>3, <1>13 DEF LeaveBegin
    <3>2. "signal" \notin strayed' /\ Throwing' => ~IsErr(r)
      <4>1. Throwing' => Throwing
        BY <3>1, AnswerThrow DEF Throwing
      <4> QED
        BY <4>1, <1>13
    <3> QED
      BY <2>1, <3>1, <3>2, <1>6
  <2> QED
    BY <2>2, <2>3
<1>14. ASSUME Over("begin"), NEW r \in Result, NEW pe \in MaybeException,
              NEW b \in MaybeException, NEW marks, Conclude(r, pe, b, marks),
              "signal" \notin strayed' /\ Throwing => ~IsErr(r)
       PROVE  ThrowInv'
  <2>1. Top \in BeginFrame /\ Top.kind = "begin" /\ stack # <<>>
    BY <1>2, <1>14
  <2>2. CASE Top.ensure
    <3> DEFINE x == IF IsErr(r) /\ signal = None THEN pe ELSE None
               f == [Top EXCEPT !.phase = "ensure", !.saved = r, !.exc = x, !.prev = b]
    <3>1. stack' = WithTop(f) /\ result' = Running /\ UNCHANGED <<signal, goal>>
      BY <1>14, <2>2 DEF Conclude
    <3>2. x \in MaybeException
      BY DEF MaybeException
    <3> HIDE DEF x
    <3>3. f \in BeginFrame /\ f.saved = r
      BY <2>1, <3>2 DEF BeginFrame
    <3> HIDE DEF f
    <3>4. "signal" \notin strayed' /\ Throwing' => ~InEnsure(f)
      BY <3>1, <3>3, <1>14 DEF Throwing, InEnsure
    <3> QED
      BY <2>1, <3>1, <3>3, <3>4, <1>3, ReplaceThrow, ResultsAreTyped
  <2>3. CASE ~Top.ensure
    BY <2>3, <1>13, <1>14 DEF Conclude
  <2> QED
    BY <2>2, <2>3
<1>15. "signal" \notin strayed' /\ Throwing => ~IsErr(result)
  BY <1>3, <1>4
<1>16. CASE BodyEnds
  BY <1>1, <1>14, <1>15, <1>16 DEF BodyEnds, InPhase
<1>17. CASE BodyRaised
  <2>1. signal = None /\ (signal' = signal \/ signal' = None)
    BY <1>17 DEF BodyRaised, Conclude, Handle, LeaveBegin, Answer, Signal
  <2> QED
    BY <2>1 DEF ThrowInv, Throwing, IsJump
<1>18. CASE MatchEnds
  <2>1. When(signal # None, "signal") \subseteq strayed'
    BY <1>18 DEF MatchEnds, Conclude, Handle, LeaveBegin, Stray
  <2>2. signal' = signal \/ signal' = None
    BY <1>18 DEF MatchEnds, Conclude, Handle, LeaveBegin, Answer, Signal
  <2> QED
    BY <2>1, <2>2 DEF ThrowInv, Throwing, IsJump, When
<1>19. CASE MatchRaised
  BY <1>1, <1>13, <1>15, <1>19 DEF MatchRaised, InPhase
<1>20. CASE RescueEnds
  <2>1. Over("begin") /\ Top.prev \in MaybeException /\ Conclude(result, pending_exc, Top.prev, {})
    BY <1>20, <1>2 DEF RescueEnds, InPhase, BeginFrame
  <2> QED
    BY <2>1, <1>1, <1>14, <1>15
<1>21. CASE RescueRetries
  <2>1. signal' = None
    BY <1>21 DEF RescueRetries, Signal
  <2> QED
    BY <2>1 DEF ThrowInv, Throwing, IsJump
<1>22. CASE EnsureEnds
  <2>1. Over("begin") /\ Top.phase = "ensure" /\ Top \in BeginFrame /\ Top.kind = "begin" /\ stack # <<>>
    BY <1>22, <1>2 DEF EnsureEnds, InPhase
  <2>2. Top.saved \in Result
    BY <2>1 DEF BeginFrame
  <2>3. "signal" \notin strayed' /\ Throwing => ~IsErr(Top.saved)
    <3> SUFFICES ASSUME "signal" \notin strayed', Throwing PROVE ~IsErr(Top.saved)
      OBVIOUS
    <3>1. CatchBelow(stack, goal, signal) /\ goal # Len(stack)
      BY <1>3, <1>4, <1>5, <2>1
    <3>2. Len(stack) \in DOMAIN stack /\ DOMAIN stack = 1..Len(stack) /\ Len(stack) \in Nat
      BY <1>1, <2>1, BelowIs DEF Grounded
    <3>3. Len(stack) > goal
      BY <3>1, <3>2 DEF CatchBelow
    <3>4. ~InEnsure(stack[Len(stack)])
      BY <3>1, <3>2, <3>3 DEF CatchBelow
    <3> QED
      BY <3>4, <2>1 DEF InEnsure, Top
  <2>4. CASE IsErr(result)
    BY <2>1, <2>4, <1>1, <1>13, <1>15, <1>22 DEF EnsureEnds
  <2>5. CASE ~IsErr(result)
    <3>1. LeaveBegin(Top.saved, {})
      BY <2>5, <1>22 DEF EnsureEnds
    <3> QED
      BY <2>1, <2>2, <2>3, <3>1, <1>13
  <2> QED
    BY <2>4, <2>5
<1>23. CASE MainEnds
  <2>1. signal' = None
    BY <1>23 DEF MainEnds, Signal
  <2> QED
    BY <2>1 DEF ThrowInv, Throwing, IsJump
\* At the end of the program no throw is on its way.
<1>24. CASE HandlerRuns \/ HandlerEnds \/ Finish
  <2>1. stack # <<>> /\ Top.kind = "ending"
    BY <1>24 DEF HandlerRuns, HandlerEnds, Finish, Over
  <2>2. (signal' = signal \/ signal' = None) /\ strayed' = strayed
    BY <1>24 DEF HandlerRuns, HandlerEnds, Finish, Signal
  <2>3. DOMAIN stack = {1} /\ stack[1].kind = "ending"
    BY <1>1, <2>1, BottomIsAlone
  <2>4. ASSUME "signal" \notin strayed', Throwing'
        PROVE  FALSE
    <3>1. "signal" \notin strayed /\ Throwing
      BY <2>2, <2>4 DEF Throwing, IsJump
    <3>2. CatchBelow(stack, goal, signal)
      BY <3>1, <1>4
    <3> QED
      BY <3>2, <2>3 DEF CatchBelow
  <2> QED
    BY <2>4 DEF ThrowInv
<1> QED
  BY <1>8, <1>9, <1>10, <1>11, <1>12, <1>16, <1>17, <1>18, <1>19, <1>20, <1>21, <1>22,
     <1>23, <1>24 DEF Epilogue

LEMMA StepThrow == TypeInv /\ ThrowInv /\ [Next]_vars => ThrowInv'
<1> SUFFICES ASSUME TypeInv, ThrowInv, [Next]_vars PROVE ThrowInv'
  OBVIOUS
<1>1. CASE ProgramStep
  BY <1>1, ProgramThrow
<1>2. CASE Epilogue
  BY <1>2, EpilogueThrow
<1>3. CASE Terminated \/ UNCHANGED vars
  BY <1>3 DEF Terminated, vars, control, ThrowInv, Throwing
<1> QED
  BY <1>1, <1>2, <1>3 DEF Next

LEMMA AlwaysThrow == Spec => []ThrowInv
<1>1. Init => ThrowInv
  BY DEF Init, ThrowInv, Throwing, IsJump
<1> QED
  BY <1>1, StepThrow, AlwaysTyped, PTL DEF Spec

\* A throw on its way always has a catch of its tag to reach, through every
\* clause, call and jump in between, barring the mark "signal".
THEOREM ThrowsAreCaught == Spec => []ThrowHasCatch
<1>1. TypeInv /\ ThrowInv => ThrowHasCatch
  <2> SUFFICES ASSUME TypeInv, ThrowInv, "signal" \notin strayed, Throwing
               PROVE  CatchIndex(signal.to) # 0
    BY DEF ThrowHasCatch, Throwing
  <2>1. CatchBelow(stack, goal, signal)
    BY DEF ThrowInv
  <2>2. stack \in Seq(Frame) /\ Len(stack) \in Nat /\ DOMAIN stack = 1..Len(stack)
    BY DEF TypeInv, TypeOK
  <2> DEFINE S == {i \in DOMAIN stack : stack[i].kind = "catch" /\ stack[i].tag = signal.to}
  <2>3. goal \in S /\ S \subseteq 1..Len(stack) /\ CatchIndex(signal.to) = Largest(S)
    BY <2>1, <2>2 DEF CatchBelow, CatchIndex
  <2>4. Largest(S) \in S
    <3> HIDE DEF S
    <3> QED
      BY <2>2, <2>3, LargestIsIn
  <2> QED
    BY <2>2, <2>3, <2>4
<1> QED
  BY <1>1, AlwaysTyped, AlwaysThrow, PTL

-----------------------------------------------------------------------------
(* The exit status                                                          *)

Code(v) == IF v # None /\ v.kind = "error" THEN 1 ELSE 0
Barred == strayed \cap {"object", "signal"} # {}

ExitInv ==
  /\ stack # <<>> /\ stack[1].kind = "main" => status = None
  /\ ~Barred /\ stack # <<>> /\ stack[1].kind = "ending"
     => (IF status = None THEN stack[1].out ELSE status) = Code(verdict)
  /\ ~Barred /\ stack = <<>> => status = Code(verdict)

\* The code of an exception that reached the top, from its object.
LEMMA CodeOfErr ==
  ASSUME TypeInv, ObjectInv, "object" \notin strayed, IsErr(result)
  PROVE  ExitCode(pending_exc) = Code(result.exc)
<1>1. result.exc \in Exception /\ Holds(pending_exc, result.exc)
  BY ResultsAreTyped DEF TypeInv, TypeOK, ObjectInv
<1>2. result.exc # None /\ result.exc.kind \in {"error", "exit"}
  BY <1>1, NoneAssumption DEF Exception
<1>3. pending_exc = None => result.exc.kind = "error"
  BY <1>1, <1>2 DEF Holds, Inferred
<1>4. pending_exc # None => pending_exc = result.exc
  BY <1>1 DEF Holds
<1> QED
  BY <1>2, <1>3, <1>4 DEF ExitCode, Code

\* A step above the bottom of the stack changes nothing of this.
LEMMA ExitStays ==
  ASSUME TypeInv, ExitInv, strayed \subseteq strayed', UNCHANGED <<status, verdict>>,
         stack = <<>> <=> stack' = <<>>, stack # <<>> => stack'[1] = stack[1]
  PROVE  ExitInv'
<1>1. Barred => Barred'
  BY DEF Barred
<1> QED
  BY <1>1 DEF ExitInv

LEMMA ProgramExit ==
  ASSUME TypeInv, ExitInv, ProgramStep
  PROVE  ExitInv'
<1>1. ProgramMove
  BY ProgramStepIsMove
<1>2. strayed \subseteq strayed'
  BY MarksStay DEF Next
<1>3. ASSUME NEW fs, Callee(fs) \/ fs \in BeginFrames, Enter(fs)
      PROVE  ExitInv'
  <2>1. stack' = stack \o fs /\ UNCHANGED <<status, verdict>> /\ stack # <<>>
    BY <1>3 DEF Enter, CanAct, CanRun
  <2>2. stack \in Seq(Frame) /\ fs \in Seq(Frame)
    BY <1>3, NewFrames DEF TypeInv, TypeOK
  <2>3. Len(stack) \in Nat \ {0} /\ Len(fs) \in Nat
    BY <2>1, <2>2, BelowIs
  <2>4. (stack \o fs)[1] = stack[1] /\ Len(stack \o fs) = Len(stack) + Len(fs)
    BY <2>2, <2>3, OnTopIs
  <2>5. stack \o fs # <<>>
    BY <2>2, <2>3
  <2> QED
    BY <2>1, <2>4, <2>5, <1>2, ExitStays
<1>4. CASE Returns \/ Leaps \/ Fails \/ End
  <2>1. UNCHANGED <<stack, status, verdict>>
    BY <1>4 DEF Returns, Leaps, Leap, Fails, Fail, End
  <2> QED
    BY <2>1, <1>2, ExitStays
<1> QED
  BY <1>1, <1>3, <1>4 DEF ProgramMove

LEMMA EpilogueExit ==
  ASSUME TypeInv, ObjectInv, ThrowInv, ExitInv, Epilogue
  PROVE  ExitInv'
<1>1. stack # <<>> /\ EndMove
  BY EpilogueIsEndMove
<1>2. strayed \subseteq strayed'
  BY MarksStay DEF Next
<1>3. /\ Grounded(stack) /\ result \in Result /\ status \in {None, 0, 1}
      /\ signal \in MaybeSignal
  BY DEF TypeInv, TypeOK, MaybeSignal
<1>4. Len(stack) \in Nat \ {0} /\ DOMAIN stack = 1..Len(stack)
  BY <1>1, <1>3, BelowIs DEF Grounded
\* Above the bottom.
<1>5. ASSUME Top.kind \notin {"main", "ending"}
      PROVE  ExitInv'
  <2>1. UNCHANGED <<status, verdict>>
    <3>1. CASE \/ MethodEnds \/ BlockEnds \/ BlockEndsOrphan
               \/ SiteEnds \/ BuiltinEnds \/ CatchEnds
      BY <3>1 DEF MethodEnds, BlockEnds, BlockEndsOrphan, SiteEnds, BuiltinEnds, CatchEnds, rest
    <3>2. CASE \/ BodyEnds \/ BodyRaised \/ MatchEnds \/ MatchRaised
               \/ RescueEnds \/ RescueRetries \/ EnsureEnds
      BY <3>2 DEF BodyEnds, BodyRaised, MatchEnds, MatchRaised, RescueEnds, RescueRetries,
                  EnsureEnds, Conclude, Handle, rest
    <3>3. CASE MainEnds \/ HandlerRuns \/ HandlerEnds \/ Finish
      BY <3>3, <1>5 DEF MainEnds, HandlerRuns, HandlerEnds, Finish, Over
    <3> QED
      BY <3>1, <3>2, <3>3 DEF Epilogue
  <2>2. Len(stack) - 1 \in Nat \ {0} /\ 1 \in 1..(Len(stack) - 1)
    BY <1>1, <1>3, <1>4, <1>5 DEF Grounded, Top
  <2>3. CASE stack' = Below
    <3>1. Below \in Seq(Frame) /\ Len(Below) = Len(stack) - 1 /\ Below[1] = stack[1]
      BY <1>1, <1>3, <2>2, BelowIs DEF Grounded
    <3> HIDE DEF Below
    <3>2. Below # <<>>
      BY <3>1, <2>2
    <3> QED
      BY <1>1, <1>2, <2>1, <2>3, <3>1, <3>2, ExitStays
  <2>4. ASSUME NEW f \in BeginFrame, stack' = WithTop(f)
        PROVE  ExitInv'
    <3>1. f \in Frame
      BY BeginIsFrame
    <3>2. WithTop(f) \in Seq(Frame) /\ Len(WithTop(f)) = Len(stack) /\ WithTop(f)[1] = stack[1]
      BY <3>1, <1>1, <1>3, <2>2, WithTopIs DEF Grounded
    <3>3. WithTop(f) # <<>>
      BY <3>2, <1>4
    <3> QED
      BY <1>1, <1>2, <2>1, <2>4, <3>2, <3>3, ExitStays
  <2> QED
    BY <1>1, <1>5, <2>3, <2>4 DEF EndMove
<1>6. CASE Top.kind \in {"main", "ending"}
  <2>1. Len(stack) = 1 /\ DOMAIN stack = {1} /\ stack[1] = Top
    BY <1>1, <1>3, <1>6, BottomIsAlone
  <2>2. MainEnds \/ HandlerRuns \/ HandlerEnds \/ Finish
    BY <1>1, <1>6 DEF EndMove
  <2>3. ~Barred' => ~Barred /\ "object" \notin strayed /\ "signal" \notin strayed
    BY <1>2 DEF Barred
  <2>4. ~Barred' => ~IsJump(signal, {"throw"})
    BY <2>1, <2>3, <1>6 DEF ThrowInv, Throwing, CatchBelow
  <2>5. CASE MainEnds
    <3> DEFINE out == IF IsJump(signal, {"throw"}) THEN 1
                      ELSE IF IsErr(result) THEN ExitCode(pending_exc) ELSE 0
    <3>1. /\ stack' = <<Ending(out)>> /\ status' = status
          /\ verdict' = IF IsErr(result) THEN result.exc ELSE None
          /\ Top.kind = "main"
      BY <2>5 DEF MainEnds, Over
    <3>2. status = None
      BY <1>1, <2>1, <3>1 DEF ExitInv
    <3>3. ~Barred' => out = Code(verdict')
      <4> SUFFICES ASSUME ~Barred' PROVE out = Code(verdict')
        OBVIOUS
      <4>1. CASE IsErr(result)
        BY <4>1, <2>3, <2>4, <3>1, CodeOfErr
      <4>2. CASE ~IsErr(result)
        BY <4>2, <2>4, <3>1 DEF Code
      <4> QED
        BY <4>1, <4>2
    <3> HIDE DEF out
    <3>4. stack' # <<>> /\ stack'[1].kind = "ending" /\ stack'[1].out = out
      BY <3>1 DEF Ending
    <3> QED
      BY <3>1, <3>2, <3>3, <3>4 DEF ExitInv, Code
  <2>6. CASE HandlerRuns
    <3>1. PICK f : stack' = Append(stack, f) /\ UNCHANGED <<status, verdict>>
      BY <2>6 DEF HandlerRuns
    <3>2. stack' # <<>> /\ stack'[1] = stack[1]
      BY <3>1, <1>3, <1>4 DEF Grounded
    <3> QED
      BY <1>1, <1>2, <3>1, <3>2, ExitStays
  <2>7. CASE HandlerEnds
    <3>1. stack' = stack /\ Top.kind = "ending"
      BY <2>7 DEF HandlerEnds, Over
    <3>2. CASE ~IsErr(result)
      <4>1. UNCHANGED <<status, verdict>>
        BY <3>2, <2>7 DEF HandlerEnds
      <4> QED
        BY <3>1, <4>1, <1>2, ExitStays
    <3>3. CASE IsErr(result)
      <4>1. status' = ExitCode(pending_exc) /\ verdict' = result.exc
        BY <3>3, <2>7 DEF HandlerEnds
      <4>2. status' # None
        BY <4>1, NoneAssumption DEF ExitCode
      <4>3. ~Barred' => status' = Code(verdict')
        BY <4>1, <2>3, <3>3, CodeOfErr
      <4> QED
        BY <1>1, <2>1, <3>1, <4>2, <4>3 DEF ExitInv
    <3> QED
      BY <3>2, <3>3
  <2>8. CASE Finish
    <3>1. /\ stack' = <<>> /\ status' = FinalStatus /\ verdict' = verdict
          /\ Top.kind = "ending"
      BY <2>8 DEF Finish
    <3>2. ~Barred' => status' = Code(verdict')
      BY <1>1, <2>1, <2>3, <3>1 DEF ExitInv, FinalStatus
    <3> QED
      BY <3>1, <3>2 DEF ExitInv
  <2> QED
    BY <2>2, <2>5, <2>6, <2>7, <2>8
<1> QED
  BY <1>5, <1>6

LEMMA StepExit == TypeInv /\ ObjectInv /\ ThrowInv /\ ExitInv /\ [Next]_vars => ExitInv'
<1> SUFFICES ASSUME TypeInv, ObjectInv, ThrowInv, ExitInv, [Next]_vars PROVE ExitInv'
  OBVIOUS
<1>1. CASE ProgramStep
  BY <1>1, ProgramExit
<1>2. CASE Epilogue
  BY <1>2, EpilogueExit
<1>3. CASE Terminated \/ UNCHANGED vars
  BY <1>3 DEF Terminated, vars, control, ExitInv, Barred
<1> QED
  BY <1>1, <1>2, <1>3 DEF Next

\* The exit status tells of the last exception that reached the top, from the
\* program or from an at_exit handler, with the status that exception carries,
\* barring the marks "object" and "signal".
THEOREM StatusIsTheLast == Spec => []ExitStatusIsLast
<1>1. Init => ExitInv
  BY DEF Init, ExitInv, Main
<1>2. ExitInv => ExitStatusIsLast
  BY DEF ExitInv, ExitStatusIsLast, Barred, Code
<1> QED
  BY <1>1, <1>2, StepExit, AlwaysTyped, AlwaysObject, AlwaysThrow, PTL DEF Spec

-----------------------------------------------------------------------------
(* Identities: they grow along the stack, and a block knows the method it   *)
(* was written in and the lambda or method that a return of its leaves.     *)

IsLambda(f) == f.kind = "block" /\ f.blk.lambda
PlainBlock(f) == f.kind = "block" /\ ~f.blk.lambda

Ordered(s, n) ==
  /\ \A i \in DOMAIN s : IsUnit(s[i]) => s[i].id < n
  /\ \A i, j \in DOMAIN s : IsUnit(s[i]) /\ IsUnit(s[j]) /\ i < j => s[i].id < s[j].id
  /\ \A i \in DOMAIN s : s[i].kind = "block" => s[i].blk.home < s[i].id

Right(p, s, n) ==
  /\ p.home <= p.ret /\ p.ret < n
  /\ \A i \in DOMAIN s : IsUnit(s[i]) =>
       /\ s[i].id = p.home => s[i].kind # "block"
       /\ s[i].id = p.ret => p.ret = p.home \/ IsLambda(s[i])

Has(f, p) == f.kind \in {"method", "block"} /\ f.blk = p
Held(p) ==
  \/ p = kept
  \/ \E i \in DOMAIN stack : Has(stack[i], p)
  \/ \E i \in DOMAIN at_exit_procs : at_exit_procs[i] = p

IdInv ==
  /\ next # 0
  /\ Ordered(stack, next)
  /\ \A p \in Proc : Held(p) => Right(p, stack, next)

LEMMA UnitFields ==
  ASSUME NEW f \in Frame, IsUnit(f)
  PROVE  /\ f.id \in Nat
         /\ f.kind = "block" => /\ f.blk \in Proc /\ f.blk.home \in Nat
                                /\ f.blk.ret \in Nat /\ f.blk.lambda \in BOOLEAN
<1>1. f.id \in Nat /\ (f.kind = "block" => f.blk \in Proc)
  BY FrameFields DEF IsUnit, Main
<1> QED
  BY <1>1 DEF Proc

\* The method, block or main program a step adds to those of s, on top.
NewUnit(f, n, m) ==
  /\ f.kind \in {"method", "block"} /\ f.id = n /\ n < m
  /\ f.kind = "block" => f.blk.home < n

Extends(s, t, n, m) ==
  \A i \in DOMAIN t : IsUnit(t[i]) =>
    \/ i \in DOMAIN s /\ t[i] = s[i]
    \/ i = Len(t) /\ i \notin DOMAIN s /\ NewUnit(t[i], n, m)

LEMMA ExtendsOrdered ==
  ASSUME NEW s \in Seq(Frame), NEW t \in Seq(Frame), NEW n \in Nat, NEW m \in Nat,
         n <= m, Extends(s, t, n, m), Ordered(s, n)
  PROVE  Ordered(t, m)
<1>1. DOMAIN t = 1..Len(t) /\ Len(t) \in Nat /\ DOMAIN s = 1..Len(s) /\ Len(s) \in Nat
  OBVIOUS
<1>2. ASSUME NEW i \in DOMAIN t, IsUnit(t[i]) PROVE t[i].id \in Nat
  BY <1>2, UnitFields
<1>3. ASSUME NEW i \in DOMAIN t, IsUnit(t[i]) PROVE t[i].id < m
  <2>1. CASE i \in DOMAIN s /\ t[i] = s[i]
    <3>1. t[i].id < n
      BY <2>1, <1>3 DEF Ordered
    <3> QED
      BY <3>1, <1>2, <1>3
  <2>2. CASE NewUnit(t[i], n, m)
    BY <2>2 DEF NewUnit
  <2> QED
    BY <2>1, <2>2, <1>3 DEF Extends
<1>4. ASSUME NEW i \in DOMAIN t, NEW j \in DOMAIN t, IsUnit(t[i]), IsUnit(t[j]), i < j
      PROVE  t[i].id < t[j].id
  <2>1. i # Len(t)
    BY <1>1, <1>4
  <2>2. i \in DOMAIN s /\ t[i] = s[i]
    BY <2>1, <1>4 DEF Extends
  <2>3. t[i].id < n
    BY <2>2, <1>4 DEF Ordered
  <2>4. CASE j \in DOMAIN s /\ t[j] = s[j]
    BY <2>2, <2>4, <1>4 DEF Ordered
  <2>5. CASE NewUnit(t[j], n, m)
    BY <2>3, <2>5 DEF NewUnit
  <2> QED
    BY <2>4, <2>5, <1>4 DEF Extends
<1>5. ASSUME NEW i \in DOMAIN t, t[i].kind = "block" PROVE t[i].blk.home < t[i].id
  <2>1. IsUnit(t[i])
    BY <1>5 DEF IsUnit
  <2>2. CASE i \in DOMAIN s /\ t[i] = s[i]
    BY <2>2, <1>5 DEF Ordered
  <2>3. CASE NewUnit(t[i], n, m)
    BY <2>3, <1>5 DEF NewUnit
  <2> QED
    BY <2>1, <2>2, <2>3 DEF Extends
<1> QED
  BY <1>3, <1>4, <1>5 DEF Ordered

LEMMA ExtendsRight ==
  ASSUME NEW s \in Seq(Frame), NEW t \in Seq(Frame), NEW n \in Nat, NEW m \in Nat,
         n <= m, Extends(s, t, n, m), NEW p \in Proc, Right(p, s, n)
  PROVE  Right(p, t, m)
<1>1. p.home \in Nat /\ p.ret \in Nat /\ p.home <= p.ret /\ p.ret < n
  BY DEF Proc, Right
<1>2. ASSUME NEW i \in DOMAIN t, IsUnit(t[i])
      PROVE  /\ t[i].id = p.home => t[i].kind # "block"
             /\ t[i].id = p.ret => p.ret = p.home \/ IsLambda(t[i])
  <2>1. CASE i \in DOMAIN s /\ t[i] = s[i]
    BY <2>1, <1>2 DEF Right
  <2>2. CASE NewUnit(t[i], n, m)
    BY <2>2, <1>1 DEF NewUnit
  <2> QED
    BY <2>1, <2>2, <1>2 DEF Extends
<1> QED
  BY <1>1, <1>2 DEF Right

\* The unit with the identity of another one is that one.
LEMMA OneOfEach ==
  ASSUME TypeInv, Ordered(stack, next), NEW i \in DOMAIN stack, NEW j \in DOMAIN stack,
         IsUnit(stack[i]), IsUnit(stack[j]), stack[i].id = stack[j].id
  PROVE  i = j
<1>1. i \in Nat /\ j \in Nat /\ stack[i] \in Frame /\ stack[j] \in Frame
  BY DEF TypeInv, TypeOK
<1>2. stack[i].id \in Nat /\ stack[j].id \in Nat
  BY <1>1, UnitFields
<1>3. ~(i < j) /\ ~(j < i)
  BY <1>2 DEF Ordered
<1> QED
  BY <1>1, <1>3

\* The block literals of the code that runs.
LEMMA LiteralsAreRight ==
  ASSUME TypeInv, IdInv, CanRun, NEW b \in BOOLEAN
  PROVE  Literal(b) \in Proc /\ Right(Literal(b), stack, next) /\ Literal(b).home < next
<1> DEFINE p == Literal(b)
           u == UnitIndex
<1>1. /\ u \in DOMAIN stack /\ Unit = stack[u] /\ Unit \in Frame /\ IsUnit(Unit)
      /\ p \in Proc /\ next \in Nat
  BY IndicesAreNat, ProcsAreTyped DEF TypeInv, TypeOK, Unit
<1>2. p.home = Home(Unit) /\ p.ret = ReturnsFrom(Unit)
  BY DEF Literal
<1>3. p.home \in Nat /\ p.ret \in Nat
  BY <1>1 DEF Proc
<1>4. Unit.id \in Nat /\ Unit.id < next
  BY <1>1, UnitFields DEF IdInv, Ordered
<1>5. ASSUME Unit.kind = "block"
      PROVE  /\ Right(Unit.blk, stack, next) /\ Unit.blk \in Proc /\ Unit.blk.home < Unit.id
             /\ Unit.blk.home \in Nat /\ Unit.blk.ret \in Nat /\ Unit.blk.lambda \in BOOLEAN
  <2>1. Unit.blk \in Proc
    BY <1>1, <1>5, UnitFields
  <2>2. Held(Unit.blk)
    BY <1>1, <1>5 DEF Held, Has
  <2>3. Unit.blk.home < Unit.id
    BY <1>1, <1>5 DEF IdInv, Ordered
  <2> QED
    BY <2>1, <2>2, <2>3 DEF IdInv, Proc
<1> HIDE DEF p, u
<1>6. p.home <= p.ret /\ p.ret < next /\ p.home < next
  <2>1. CASE Unit.kind # "block"
    BY <2>1, <1>1, <1>2, <1>3, <1>4 DEF Home, ReturnsFrom
  <2>2. CASE Unit.kind = "block" /\ Unit.blk.lambda
    BY <2>2, <1>1, <1>2, <1>3, <1>4, <1>5 DEF Home, ReturnsFrom
  <2>3. CASE Unit.kind = "block" /\ ~Unit.blk.lambda
    <3>1. Unit.blk.home <= Unit.blk.ret /\ Unit.blk.ret < next
      BY <2>3, <1>5 DEF Right
    <3> QED
      BY <3>1, <2>3, <1>1, <1>2, <1>3 DEF Home, ReturnsFrom
  <2> QED
    BY <2>1, <2>2, <2>3
<1>7. ASSUME NEW i \in DOMAIN stack, IsUnit(stack[i])
      PROVE  /\ stack[i].id = p.home => stack[i].kind # "block"
             /\ stack[i].id = p.ret => p.ret = p.home \/ IsLambda(stack[i])
  <2>1. ASSUME stack[i].id = Unit.id PROVE stack[i] = Unit
    BY <2>1, <1>1, <1>7, OneOfEach DEF IdInv
  <2>2. CASE Unit.kind # "block"
    BY <2>1, <2>2, <1>1, <1>2 DEF Home, ReturnsFrom
  <2>3. CASE Unit.kind = "block" /\ Unit.blk.lambda
    BY <2>1, <2>3, <1>2, <1>5, <1>7 DEF Home, ReturnsFrom, Right, IsLambda
  <2>4. CASE Unit.kind = "block" /\ ~Unit.blk.lambda
    BY <2>4, <1>2, <1>5, <1>7 DEF Home, ReturnsFrom, Right
  <2> QED
    BY <2>2, <2>3, <2>4
<1> QED
  BY <1>1, <1>6, <1>7 DEF Right, p


Literals == {Literal(b) : b \in BOOLEAN}
Known(p) == Held(p) \/ (CanRun /\ p \in Literals)

LEMMA KnownAreRight ==
  ASSUME TypeInv, IdInv, NEW p \in Proc, Known(p)
  PROVE  Right(p, stack, next) /\ p.home < next
<1>1. next \in Nat /\ p.home \in Nat /\ p.ret \in Nat
  BY DEF TypeInv, TypeOK, Proc
<1>2. Right(p, stack, next)
  BY LiteralsAreRight DEF Known, IdInv, Literals
<1> QED
  BY <1>1, <1>2 DEF Right

LEMMA IdsStep ==
  ASSUME TypeInv, TypeInv', IdInv, next <= next', Extends(stack, stack', next, next'),
         \A p \in Proc : Held(p)' => Known(p)
  PROVE  IdInv'
<1>1. /\ next \in Nat /\ next' \in Nat /\ stack \in Seq(Frame) /\ stack' \in Seq(Frame)
  BY DEF TypeInv, TypeOK
<1> PICK t \in Seq(Frame), m \in Nat : t = stack' /\ m = next'
  BY <1>1
<1>2. next <= m /\ Extends(stack, t, next, m)
  OBVIOUS
<1>3. Ordered(t, m)
  BY <1>1, <1>2, ExtendsOrdered DEF IdInv
<1>4. ASSUME NEW p \in Proc, Held(p)' PROVE Right(p, t, m)
  <2>1. Right(p, stack, next)
    BY <1>4, KnownAreRight
  <2> QED
    BY <2>1, <1>1, <1>2, ExtendsRight
<1>5. next' # 0
  BY <1>1 DEF IdInv
<1> QED
  BY <1>3, <1>4, <1>5 DEF IdInv

\* What a call puts on top: one method or block, of a new identity.
NewTop(f) ==
  /\ NewUnit(f, next, next + 1)
  /\ f.blk \in Proc => Known(f.blk)
NewCallee(fs) ==
  /\ fs \in Seq(Frame)
  /\ \A i \in 1..Len(fs) : IsUnit(fs[i]) => i = Len(fs) /\ NewTop(fs[i])

LEMMA NewCalleeIs ==
  ASSUME NEW a \in Frame, NEW b \in Frame, NEW c \in Frame,
         ~IsUnit(a), ~IsUnit(b), NewTop(c)
  PROVE  NewCallee(<<c>>) /\ NewCallee(<<b, c>>) /\ NewCallee(<<a, b, c>>)
<1> HIDE DEF NewTop
<1>1. NewCallee(<<c>>)
  <2>1. <<c>> \in Seq(Frame) /\ Len(<<c>>) = 1 /\ \A i \in 1..1 : i = 1
    OBVIOUS
  <2> QED
    BY <2>1 DEF NewCallee
<1>2. NewCallee(<<b, c>>)
  <2>1. <<b, c>> \in Seq(Frame) /\ Len(<<b, c>>) = 2 /\ \A i \in 1..2 : i = 1 \/ i = 2
    OBVIOUS
  <2> QED
    BY <2>1 DEF NewCallee
<1>3. NewCallee(<<a, b, c>>)
  <2>1. /\ <<a, b, c>> \in Seq(Frame) /\ Len(<<a, b, c>>) = 3
        /\ \A i \in 1..3 : i = 1 \/ i = 2 \/ i = 3
    OBVIOUS
  <2> QED
    BY <2>1 DEF NewCallee
<1> QED
  BY <1>1, <1>2, <1>3

LEMMA NewMethod ==
  ASSUME TypeInv, NEW p \in MaybeProc, p \in Proc => Known(p)
  PROVE  Method(p) \in Frame /\ NewTop(Method(p))
<1>1. next \in Nat
  BY DEF TypeInv, TypeOK
<1>2. Method(p) \in Frame /\ Method(p).kind = "method" /\ Method(p).id = next /\ Method(p).blk = p
  BY <1>1 DEF Method, Frame
<1> QED
  BY <1>1, <1>2 DEF NewTop, NewUnit

LEMMA NewBlock ==
  ASSUME TypeInv, IdInv, NEW p \in Proc, Known(p)
  PROVE  Block(p) \in Frame /\ NewTop(Block(p))
<1>1. next \in Nat /\ p.home < next
  BY KnownAreRight DEF TypeInv, TypeOK
<1>2. Block(p) \in Frame /\ Block(p).kind = "block" /\ Block(p).id = next /\ Block(p).blk = p
  BY <1>1 DEF Block, Frame
<1> QED
  BY <1>1, <1>2 DEF NewTop, NewUnit

\* The frames in between are no units.
LEMMA BetweenIs ==
  ASSUME TypeInv
  PROVE  /\ Site \in Frame /\ ~IsUnit(Site)
         /\ \A b \in BOOLEAN : Builtin(b) \in Frame /\ ~IsUnit(Builtin(b))
         /\ \A t \in Tags : CatchCall(t) \in Frame /\ ~IsUnit(CatchCall(t))
<1>1. next \in Nat
  BY DEF TypeInv, TypeOK
<1> QED
  BY <1>1 DEF Site, Builtin, CatchCall, Frame, IsUnit

LEMMA CallsAreNew ==
  ASSUME TypeInv, IdInv,
         \/ Call \/ CallWithBlock \/ Yield \/ CallKept
         \/ \E b \in BOOLEAN : Iterate(b) \/ Forward(b)
         \/ \E t \in Tags : Catch(t)
  PROVE  \E fs : NewCallee(fs) /\ Enter(fs)
<1>1. next \in Nat /\ kept \in MaybeProc
  BY DEF TypeInv, TypeOK
<1>2. CanRun
  BY DEF Call, CallWithBlock, Yield, CallKept, Iterate, Forward, Catch, Enter, CanAct
<1> DEFINE l == Literal(FALSE)
           cb == CurrentBlock
<1>3. l \in Proc /\ l \in MaybeProc /\ Known(l) /\ cb \in MaybeProc
  BY <1>2, ProcsAreTyped DEF MaybeProc, Known, Literals
<1>4. cb # None => cb \in Proc /\ Known(cb)
  <2> SUFFICES ASSUME cb # None PROVE cb \in Proc /\ Known(cb)
    OBVIOUS
  <2>1. cb \in Proc
    BY <1>3 DEF MaybeProc
  <2> DEFINE m == Activation(Home(Unit))
  <2>2. m \in 0..Len(stack) /\ m # 0 /\ stack[m].kind = "method" /\ cb = stack[m].blk
    BY <1>2, IndicesAreNat DEF CurrentBlock
  <2> HIDE DEF m, cb
  <2>3. m \in DOMAIN stack
    BY <2>2 DEF TypeInv, TypeOK
  <2>4. Held(cb)
    BY <2>2, <2>3 DEF Held, Has
  <2> QED
    BY <2>1, <2>4 DEF Known
<1>5. None \in MaybeProc /\ None \notin Proc
  <2>1. None \in MaybeProc
    BY DEF MaybeProc
  <2> QED
    BY <2>1, NoneAssumption
<1> HIDE DEF l, cb
<1>6. CASE Call
  BY <1>5, <1>6, NewMethod, NewCalleeIs, BetweenIs DEF Call
<1>7. CASE CallWithBlock
  <2>1. Method(l) \in Frame /\ NewTop(Method(l))
    BY <1>3, NewMethod
  <2>2. NewCallee(<<Site, Method(l)>>)
    BY <2>1, NewCalleeIs, BetweenIs
  <2> QED
    BY <2>2, <1>7 DEF CallWithBlock, l
<1>8. CASE Yield
  <2>1. Block(cb) \in Frame /\ NewTop(Block(cb))
    BY <1>4, <1>8, NewBlock DEF Yield, cb
  <2>2. NewCallee(<<Block(cb)>>)
    BY <2>1, NewCalleeIs, BetweenIs
  <2> QED
    BY <2>2, <1>8 DEF Yield, cb
<1>9. CASE CallKept
  <2>1. kept \in Proc /\ Known(kept)
    BY <1>1, <1>9 DEF CallKept, MaybeProc, Known, Held
  <2>2. Block(kept) \in Frame /\ NewTop(Block(kept))
    BY <2>1, NewBlock
  <2>3. NewCallee(<<Builtin(FALSE), Block(kept)>>)
    BY <2>2, NewCalleeIs, BetweenIs
  <2> QED
    BY <2>3, <1>9 DEF CallKept
<1>10. Block(l) \in Frame /\ NewTop(Block(l))
  BY <1>3, NewBlock
<1>11. ASSUME NEW b \in BOOLEAN, Iterate(b)
       PROVE  \E fs : NewCallee(fs) /\ Enter(fs)
  <2>1. NewCallee(<<Site, Builtin(b), Block(l)>>)
    BY <1>10, NewCalleeIs, BetweenIs
  <2> QED
    BY <2>1, <1>11 DEF Iterate, l
<1>12. ASSUME NEW b \in BOOLEAN, Forward(b)
       PROVE  \E fs : NewCallee(fs) /\ Enter(fs)
  <2>1. Block(cb) \in Frame /\ NewTop(Block(cb))
    BY <1>4, <1>12, NewBlock DEF Forward, cb
  <2>2. NewCallee(<<Builtin(b), Block(cb)>>)
    BY <2>1, NewCalleeIs, BetweenIs
  <2> QED
    BY <2>2, <1>12 DEF Forward, cb
<1>13. ASSUME NEW t \in Tags, Catch(t)
       PROVE  \E fs : NewCallee(fs) /\ Enter(fs)
  <2>1. NewCallee(<<Site, CatchCall(t), Block(l)>>)
    BY <1>10, NewCalleeIs, BetweenIs
  <2> QED
    BY <2>1, <1>13 DEF Catch, l
<1> QED
  BY <1>6, <1>7, <1>8, <1>9, <1>11, <1>12, <1>13


LEMMA ProgramIds ==
  ASSUME TypeInv, TypeInv', IdInv, ProgramStep
  PROVE  IdInv'
<1>1. /\ next \in Nat /\ stack \in Seq(Frame) /\ DOMAIN stack = 1..Len(stack) /\ Len(stack) \in Nat
      /\ at_exit_procs \in Seq(Proc)
  BY DEF TypeInv, TypeOK
\* A call, or a begin.
<1>2. ASSUME NEW fs, NewCallee(fs), Enter(fs)
      PROVE  IdInv'
  <2> DEFINE t == stack \o fs
  <2>1. fs \in Seq(Frame) /\ next' = next + 1 /\ stack' = t
        /\ kept' = kept /\ at_exit_procs' = at_exit_procs
    BY <1>2 DEF NewCallee, Enter, CanAct
  <2>2. /\ Len(t) = Len(stack) + Len(fs) /\ DOMAIN t = 1..(Len(stack) + Len(fs)) /\ Len(fs) \in Nat
        /\ \A i \in 1..Len(stack) : t[i] = stack[i]
        /\ \A i \in 1..Len(fs) : t[Len(stack) + i] = fs[i]
    BY <1>1, <2>1, OnTopIs
  <2> HIDE DEF t
  <2>3. ASSUME NEW i \in DOMAIN t, IsUnit(t[i])
        PROVE  \/ i \in DOMAIN stack /\ t[i] = stack[i]
               \/ i = Len(t) /\ i \notin DOMAIN stack /\ NewTop(t[i])
    <3>1. CASE i <= Len(stack)
      BY <3>1, <2>2, <2>3, <1>1
    <3>2. CASE ~(i <= Len(stack))
      <4> DEFINE k == i - Len(stack)
      <4>1. k \in 1..Len(fs) /\ i = Len(stack) + k /\ i \notin DOMAIN stack
        BY <3>2, <2>2, <1>1
      <4> HIDE DEF k
      <4>2. t[i] = fs[k]
        BY <4>1, <2>2
      <4>3. k = Len(fs) /\ NewTop(fs[k])
        BY <4>1, <4>2, <2>3, <1>2 DEF NewCallee
      <4> QED
        BY <4>1, <4>2, <4>3, <2>2
    <3> QED
      BY <3>1, <3>2
  <2>4. Extends(stack, t, next, next + 1)
    BY <2>3 DEF Extends, NewTop
  <2>5. ASSUME NEW p \in Proc, NEW i \in DOMAIN t, Has(t[i], p)
        PROVE  Known(p)
    <3>1. IsUnit(t[i]) /\ t[i].blk = p
      BY <2>5 DEF Has, IsUnit
    <3> QED
      BY <3>1, <2>3, <2>5 DEF NewTop, Known, Held
  <2>6. \A p \in Proc : Held(p)' => Known(p)
    BY <2>1, <2>5 DEF Held, Known
  <2>7. next <= next' /\ Extends(stack, stack', next, next')
    BY <2>1, <2>4, <1>1
  <2> QED
    BY <2>6, <2>7, IdsStep
\* The stack stays, and a new proc is a literal.
<1>3. ASSUME stack' = stack, next' \in {next, next + 1}, \A p \in Proc : Held(p)' => Known(p)
      PROVE  IdInv'
  <2>1. next <= next' /\ Extends(stack, stack', next, next')
    BY <1>1, <1>3 DEF Extends
  <2> QED
    BY <1>3, <2>1, IdsStep
<1>4. ASSUME stack' = stack, next' \in {next, next + 1}, kept' = kept, at_exit_procs' = at_exit_procs
      PROVE  IdInv'
  <2>1. \A p \in Proc : Held(p)' => Known(p)
    BY <1>4 DEF Held, Known
  <2> QED
    BY <1>3, <1>4, <2>1
<1>5. CASE \/ Call \/ CallWithBlock \/ Yield \/ CallKept
           \/ \E b \in BOOLEAN : Iterate(b) \/ Forward(b)
           \/ \E t \in Tags : Catch(t)
  BY <1>2, <1>5, CallsAreNew
<1>6. CASE \E c \in {"none", "classes", "list"}, e, l \in BOOLEAN : Begin(c, e, l)
  <2> PICK c \in {"none", "classes", "list"}, e \in BOOLEAN, l \in BOOLEAN : Begin(c, e, l)
    BY <1>6
  <2> DEFINE f == BeginBlock(c, e, l)
  <2>1. f \in BeginFrame
    BY ResultsAreTyped DEF BeginBlock, BeginFrame, MaybeException
  <2>2. f \in Frame /\ ~IsUnit(f)
    BY <2>1, BeginIsFrame DEF IsUnit
  <2>3. Enter(<<f>>)
    BY DEF Begin
  <2> HIDE DEF f
  <2>4. NewCallee(<<f>>)
    <3>1. <<f>> \in Seq(Frame) /\ \A i \in 1..Len(<<f>>) : <<f>>[i] = f
      BY <2>2
    <3> QED
      BY <2>2, <3>1 DEF NewCallee
  <2> QED
    BY <2>3, <2>4, <1>2
<1>7. ASSUME NEW b \in BOOLEAN, Keep(b)
      PROVE  IdInv'
  <2>1. /\ CanRun /\ stack' = stack /\ next' = next + 1 /\ kept' = Literal(b)
        /\ at_exit_procs' = at_exit_procs
    BY <1>7 DEF Keep, Returns, CanAct
  <2>2. \A p \in Proc : Held(p)' => Known(p)
    BY <2>1 DEF Held, Known, Literals
  <2> QED
    BY <2>1, <2>2, <1>3
<1>8. CASE AtExit
  <2> DEFINE l == Literal(FALSE)
  <2>1. /\ CanRun /\ stack' = stack /\ next' = next + 1 /\ kept' = kept
        /\ at_exit_procs' = Append(at_exit_procs, l)
    BY <1>8 DEF AtExit, Returns, CanAct
  <2>2. l \in Proc /\ l \in Literals
    BY <2>1, ProcsAreTyped DEF Literals
  <2> HIDE DEF l
  <2>3. \A i \in DOMAIN at_exit_procs' : 
           at_exit_procs'[i] = l \/ (i \in DOMAIN at_exit_procs /\ at_exit_procs'[i] = at_exit_procs[i])
    BY <2>1, <2>2, <1>1
  <2>4. \A p \in Proc : Held(p)' => Known(p)
    BY <2>1, <2>2, <2>3 DEF Held, Known
  <2> QED
    BY <2>1, <2>4, <1>3
<1>9. CASE \/ Return \/ Break \/ NextIteration \/ Retry
           \/ \E t \in Tags : Throw(t)
  <2>1. Leaps
    BY <1>9, JumpsAreMoves
  <2> QED
    BY <2>1, <1>4 DEF Leaps, Leap, CanAct
<1>10. CASE \/ Raise \/ Reraise \/ Exit
            \/ \E t \in Tags : ThrowUncaught(t)
            \/ \E b \in BOOLEAN : RaiseBare(b)
  <2>1. Fails
    BY <1>10, ErrorsAreMoves
  <2> QED
    BY <2>1, <1>4 DEF Fails, Fail, CanAct
<1>11. CASE End
  BY <1>4, <1>11 DEF End
<1> QED
  BY <1>5, <1>6, <1>7, <1>8, <1>9, <1>10, <1>11 DEF ProgramStep

\* The end of a call or a clause makes no proc.
LEMMA EpilogueKeepsProcs ==
  ASSUME Epilogue
  PROVE  /\ next' \in {next, next + 1} /\ kept' = kept
         /\ HandlerRuns \/ at_exit_procs' = at_exit_procs
<1>1. \A r, pe, b, marks : Conclude(r, pe, b, marks) => UNCHANGED <<kept, at_exit_procs, next>>
  BY DEF Conclude, rest
<1>2. \A r, x, marks : Handle(r, x, marks) => UNCHANGED <<kept, at_exit_procs, next>>
  BY DEF Handle, rest
<1>3. CASE \/ MethodEnds \/ BlockEnds \/ BlockEndsOrphan
           \/ SiteEnds \/ BuiltinEnds \/ CatchEnds
  BY <1>3 DEF MethodEnds, BlockEnds, BlockEndsOrphan, SiteEnds, BuiltinEnds, CatchEnds, rest
<1>4. CASE BodyEnds \/ BodyRaised \/ MatchEnds \/ MatchRaised
  BY <1>1, <1>2, <1>4 DEF BodyEnds, BodyRaised, MatchEnds, MatchRaised, rest
<1>5. CASE RescueEnds \/ RescueRetries \/ EnsureEnds
  BY <1>1, <1>5 DEF RescueEnds, RescueRetries, EnsureEnds, rest
<1>6. CASE MainEnds \/ HandlerRuns \/ HandlerEnds \/ Finish
  BY <1>6 DEF MainEnds, HandlerRuns, HandlerEnds, Finish
<1> QED
  BY <1>3, <1>4, <1>5, <1>6 DEF Epilogue

LEMMA EpilogueIds ==
  ASSUME TypeInv, TypeInv', IdInv, Epilogue
  PROVE  IdInv'
<1> DEFINE n == Len(stack)
<1>1. /\ next \in Nat /\ stack \in Seq(Frame) /\ stack # <<>> /\ EndMove
      /\ n \in Nat \ {0} /\ DOMAIN stack = 1..n /\ Top = stack[n]
      /\ at_exit_procs \in Seq(Proc)
  BY EpilogueIsEndMove, BelowIs DEF TypeInv, TypeOK, Top
<1>2. /\ next' \in {next, next + 1} /\ kept' = kept
      /\ HandlerRuns \/ at_exit_procs' = at_exit_procs
  BY EpilogueKeepsProcs
\* The units that are left were there before.
<1>3. ASSUME NEW t, stack' = t, at_exit_procs' = at_exit_procs,
             \A i \in DOMAIN t : IsUnit(t[i]) => i \in DOMAIN stack /\ t[i] = stack[i]
      PROVE  IdInv'
  <2>1. next <= next' /\ Extends(stack, stack', next, next')
    BY <1>1, <1>2, <1>3 DEF Extends
  <2>2. \A p \in Proc : Held(p)' => Known(p)
    BY <1>2, <1>3 DEF Held, Known, Has, IsUnit
  <2> QED
    BY <2>1, <2>2, IdsStep
<1>4. CASE HandlerRuns
  <2> DEFINE k == Len(at_exit_procs)
             p == at_exit_procs[k]
             t == Append(stack, Block(p))
  <2>1. k \in Nat \ {0} /\ DOMAIN at_exit_procs = 1..k /\ p \in Proc
    BY <1>1, <1>4 DEF HandlerRuns
  <2>2. /\ next' = next + 1 /\ stack' = t /\ kept' = kept
        /\ at_exit_procs' = SubSeq(at_exit_procs, 1, k - 1)
    BY <1>4 DEF HandlerRuns
  <2>3. Known(p)
    BY <2>1 DEF Known, Held
  <2>4. /\ DOMAIN at_exit_procs' \subseteq DOMAIN at_exit_procs
        /\ \A i \in DOMAIN at_exit_procs' : at_exit_procs'[i] = at_exit_procs[i]
    BY <2>1, <2>2, <1>1
  <2> HIDE DEF k, p
  <2>5. Block(p) \in Frame /\ NewTop(Block(p)) /\ Block(p).kind = "block" /\ Block(p).blk = p
    BY <2>1, <2>3, NewBlock DEF Block
  <2>6. /\ Len(t) = n + 1 /\ DOMAIN t = 1..(n + 1)
        /\ \A i \in 1..n : t[i] = stack[i]
        /\ t[n + 1] = Block(p)
    BY <1>1, <2>5, AppendIs
  <2> HIDE DEF t, n
  <2>7. \A i \in DOMAIN t : \/ i \in DOMAIN stack /\ t[i] = stack[i]
                            \/ i = Len(t) /\ i \notin DOMAIN stack /\ t[i] = Block(p)
    BY <2>6, <1>1
  <2>8. next <= next' /\ Extends(stack, stack', next, next')
    BY <2>2, <2>5, <2>7, <1>1 DEF Extends, NewTop
  <2>9. ASSUME NEW q \in Proc, Held(q)' PROVE Known(q)
    <3>1. CASE \E i \in DOMAIN t : Has(t[i], q)
      BY <3>1, <2>3, <2>5, <2>7 DEF Has, Known, Held
    <3>2. CASE q = kept \/ \E i \in DOMAIN at_exit_procs' : at_exit_procs'[i] = q
      BY <3>2, <2>4 DEF Known, Held
    <3> QED
      BY <3>1, <3>2, <2>2, <2>9 DEF Held
  <2> QED
    BY <2>8, <2>9, IdsStep
<1>5. CASE ~HandlerRuns
  <2> HIDE DEF n
  <2>0. at_exit_procs' = at_exit_procs
    BY <1>2, <1>5
  <2>1. CASE stack' = Below
    <3>1. DOMAIN Below = 1..(n - 1) /\ \A i \in 1..(n - 1) : Below[i] = stack[i]
      BY <1>1, BelowIs DEF n
    <3>2. \A i \in DOMAIN Below : i \in DOMAIN stack /\ Below[i] = stack[i]
      BY <3>1, <1>1
    <3> QED
      BY <2>0, <2>1, <3>2, <1>3
  <2>2. CASE \E f \in BeginFrame : stack' = WithTop(f)
    <3> PICK f \in BeginFrame : stack' = WithTop(f)
      BY <2>2
    <3>1. f \in Frame /\ ~IsUnit(f)
      BY BeginIsFrame DEF IsUnit
    <3>2. /\ DOMAIN WithTop(f) = 1..n /\ WithTop(f)[n] = f
          /\ \A i \in 1..(n - 1) : WithTop(f)[i] = stack[i]
      BY <1>1, <3>1, WithTopIs DEF n
    <3>3. \A i \in DOMAIN WithTop(f) : IsUnit(WithTop(f)[i]) =>
              i \in DOMAIN stack /\ WithTop(f)[i] = stack[i]
      BY <3>1, <3>2, <1>1
    <3> QED
      BY <2>0, <3>3, <1>3
  <2>3. CASE MainEnds
    <3>1. PICK o : stack' = <<Ending(o)>>
      BY <2>3 DEF MainEnds
    <3>2. \A i \in DOMAIN <<Ending(o)>> : ~IsUnit(<<Ending(o)>>[i])
      BY DEF Ending, IsUnit
    <3> QED
      BY <2>0, <3>1, <3>2, <1>3
  <2>4. CASE HandlerEnds
    BY <2>0, <2>4, <1>3 DEF HandlerEnds
  <2>5. CASE Finish
    <3>1. stack' = <<>> /\ DOMAIN <<>> = {}
      BY <2>5 DEF Finish
    <3> QED
      BY <2>0, <3>1, <1>3
  <2> QED
    BY <2>1, <2>2, <2>3, <2>4, <2>5, <1>1, <1>5 DEF EndMove
<1> QED
  BY <1>4, <1>5

LEMMA AlwaysIds == Spec => []IdInv
<1>1. Init => IdInv
  <2> SUFFICES ASSUME Init PROVE IdInv
    OBVIOUS
  <2>1. next = 1 /\ stack = <<Main>> /\ kept = None /\ at_exit_procs = <<>>
    BY DEF Init
  <2>2. DOMAIN stack = {1} /\ stack[1] = Main
    BY <2>1
  <2>3. Ordered(stack, next)
    BY <2>1, <2>2 DEF Ordered, Main
  <2>4. \A p \in Proc : ~Held(p)
    BY <2>1, <2>2, NoneAssumption DEF Held, Has, Main
  <2> QED
    BY <2>1, <2>3, <2>4 DEF IdInv
<1>2. TypeInv /\ TypeInv' /\ IdInv /\ [Next]_vars => IdInv'
  <2> SUFFICES ASSUME TypeInv, TypeInv', IdInv, [Next]_vars PROVE IdInv'
    OBVIOUS
  <2>1. CASE ProgramStep
    BY <2>1, ProgramIds
  <2>2. CASE Epilogue
    BY <2>2, EpilogueIds
  <2>3. CASE Terminated \/ UNCHANGED vars
    BY <2>3 DEF Terminated, vars, control, IdInv, Held
  <2> QED
    BY <2>1, <2>2, <2>3 DEF Next
<1> QED
  BY <1>1, <1>2, AlwaysTyped, PTL DEF Spec


\* A begin is part of the chunk below it.
PartOf(s) == \A i \in DOMAIN s : s[i].kind = "begin" => i - 1 \in DOMAIN s /\ IsChunk(s[i - 1])
PartInv == PartOf(stack)

LEMMA StepParts == TypeInv /\ PartInv /\ [Next]_vars => PartInv'
<1> SUFFICES ASSUME TypeInv, PartInv, [Next]_vars PROVE PartInv'
  OBVIOUS
<1> DEFINE n == Len(stack)
<1>1. /\ n \in Nat /\ stack \in Seq(Frame) /\ DOMAIN stack = 1..n
      /\ stack # <<>> => n \in Nat \ {0} /\ Top = stack[n]
  BY DEF TypeInv, TypeOK, Top
\* What is pushed has a begin at the bottom at most, and then a chunk below.
<1>2. ASSUME NEW fs \in Seq(Frame), stack' = stack \o fs, stack # <<>>,
             \A i \in 1..Len(fs) : fs[i].kind = "begin" => i = 1 /\ IsChunk(Top)
      PROVE  PartInv'
  <2> DEFINE t == stack \o fs
  <2>1. /\ DOMAIN t = 1..(n + Len(fs)) /\ Len(fs) \in Nat
        /\ \A i \in 1..n : t[i] = stack[i]
        /\ \A i \in 1..Len(fs) : t[n + i] = fs[i]
    BY <1>1, OnTopIs
  <2> HIDE DEF t
  <2>2. ASSUME NEW i \in DOMAIN t, t[i].kind = "begin"
        PROVE  i - 1 \in DOMAIN t /\ IsChunk(t[i - 1])
    <3>1. CASE i <= n
      <4>1. i \in DOMAIN stack /\ stack[i].kind = "begin"
        BY <3>1, <2>1, <2>2, <1>1
      <4>2. i - 1 \in DOMAIN stack /\ IsChunk(stack[i - 1])
        BY <4>1 DEF PartInv, PartOf
      <4> QED
        BY <4>2, <2>1, <1>1
    <3>2. CASE ~(i <= n)
      <4> DEFINE k == i - n
      <4>1. k \in 1..Len(fs) /\ i = n + k
        BY <3>2, <2>1, <1>1
      <4> HIDE DEF k
      <4>2. t[i] = fs[k]
        BY <4>1, <2>1
      <4>3. k = 1 /\ IsChunk(Top)
        BY <4>1, <4>2, <2>2, <1>2
      <4>4. i - 1 = n /\ n \in 1..n /\ t[n] = Top
        BY <4>1, <4>3, <2>1, <1>1, <1>2
      <4> QED
        BY <4>1, <4>3, <4>4, <2>1, <1>1
    <3> QED
      BY <3>1, <3>2
  <2> QED
    BY <2>2, <1>2 DEF PartInv, PartOf, t
<1>3. CASE UNCHANGED stack
  BY <1>3 DEF PartInv, PartOf
<1>4. CASE ProgramStep
  <2>1. ProgramMove
    BY <1>4, ProgramStepIsMove
  <2>2. ASSUME NEW fs, Callee(fs), Enter(fs) PROVE PartInv'
    BY <2>2, <1>2 DEF Callee, Enter, CanAct, CanRun
  <2>3. ASSUME NEW fs \in BeginFrames, Enter(fs) PROVE PartInv'
    <3>1. PICK f : fs = <<f>>
      BY DEF BeginFrames
    <3>2. fs \in Seq(Frame)
      BY <2>3, NewFrames
    <3>3. \A i \in 1..Len(fs) : i = 1
      BY <3>1
    <3>4. stack' = stack \o fs /\ stack # <<>> /\ IsChunk(Top)
      BY <2>3 DEF Enter, CanAct, CanRun
    <3> QED
      BY <3>2, <3>3, <3>4, <1>2
  <2>4. CASE Returns \/ Leaps \/ Fails \/ End
    BY <2>4, <1>3 DEF Returns, Leaps, Leap, Fails, Fail, End
  <2> QED
    BY <2>1, <2>2, <2>3, <2>4 DEF ProgramMove
<1>5. CASE Epilogue
  <2>1. stack # <<>> /\ EndMove
    BY <1>5, EpilogueIsEndMove
  <2>2. CASE stack' = Below
    <3>1. DOMAIN Below = 1..(n - 1) /\ \A i \in 1..(n - 1) : Below[i] = stack[i]
      BY <1>1, <2>1, BelowIs
    <3> HIDE DEF Below
    <3>2. PartOf(Below)
      BY <3>1, <1>1 DEF PartInv, PartOf
    <3> QED
      BY <2>2, <3>2 DEF PartInv
  <2>3. CASE Top.kind = "begin" /\ \E f \in BeginFrame : stack' = WithTop(f)
    <3> PICK f \in BeginFrame : stack' = WithTop(f)
      BY <2>3
    <3>1. f \in Frame /\ f.kind = "begin"
      BY BeginIsFrame
    <3>2. /\ DOMAIN WithTop(f) = 1..n /\ WithTop(f)[n] = f
          /\ \A i \in 1..(n - 1) : WithTop(f)[i] = stack[i]
      BY <1>1, <2>1, <3>1, WithTopIs
    <3> HIDE DEF WithTop
    <3>3. \A i \in 1..n : WithTop(f)[i].kind = "begin" => stack[i].kind = "begin"
      BY <3>2, <2>1, <2>3, <1>1
    <3>4. PartOf(WithTop(f))
      BY <3>2, <3>3, <1>1 DEF PartInv, PartOf
    <3> QED
      BY <3>4 DEF PartInv
  <2>4. CASE MainEnds
    <3>1. PICK o : stack' = <<Ending(o)>>
      BY <2>4 DEF MainEnds
    <3>2. \A i \in DOMAIN <<Ending(o)>> : <<Ending(o)>>[i].kind # "begin"
      BY DEF Ending
    <3> QED
      BY <3>1, <3>2 DEF PartInv, PartOf
  <2>5. CASE HandlerRuns
    <3> DEFINE k == Len(at_exit_procs)
               b == at_exit_procs[k]
    <3>1. b \in Proc /\ next \in Nat
      BY <2>5 DEF HandlerRuns, TypeInv, TypeOK
    <3>2. stack' = Append(stack, Block(b))
      BY <2>5 DEF HandlerRuns
    <3> HIDE DEF b
    <3>3. Block(b) \in Frame /\ Block(b).kind = "block"
      BY <3>1 DEF Block, Frame
    <3>4. stack' = stack \o <<Block(b)>>
      BY <3>2, <3>3, <1>1
    <3>5. \A i \in 1..Len(<<Block(b)>>) : <<Block(b)>>[i].kind # "begin"
      BY <3>3
    <3>6. <<Block(b)>> \in Seq(Frame)
      BY <3>3
    <3> QED
      BY <3>4, <3>5, <3>6, <2>1, <1>2
  <2>6. CASE HandlerEnds
    BY <2>6, <1>3 DEF HandlerEnds
  <2>7. CASE Finish
    <3>1. stack' = <<>> /\ DOMAIN <<>> = {}
      BY <2>7 DEF Finish
    <3> QED
      BY <3>1 DEF PartInv, PartOf
  <2> QED
    BY <2>1, <2>2, <2>3, <2>4, <2>5, <2>6, <2>7 DEF EndMove
<1>6. CASE Terminated \/ UNCHANGED vars
  BY <1>6, <1>3 DEF Terminated, vars, control
<1> QED
  BY <1>4, <1>5, <1>6 DEF Next

LEMMA AlwaysParts == Spec => []PartInv
<1>1. Init => PartInv
  <2> SUFFICES ASSUME Init PROVE PartInv
    OBVIOUS
  <2>1. stack = <<Main>>
    BY DEF Init
  <2>2. \A i \in DOMAIN stack : stack[i].kind # "begin"
    BY <2>1 DEF Main
  <2> QED
    BY <2>2 DEF PartInv, PartOf
<1> QED
  BY <1>1, StepParts, AlwaysTyped, PTL DEF Spec

OnlyBegins(s, g) == \A i \in DOMAIN s : i > g => s[i].kind = "begin"

\* Above the unit whose text runs there are only the begins that it is in.
LEMMA UnitIsNear ==
  ASSUME TypeInv, PartInv, CanRun
  PROVE  OnlyBegins(stack, UnitIndex)
<1> DEFINE n == Len(stack)
           S == {i \in DOMAIN stack : i > UnitIndex /\ stack[i].kind # "begin"}
           j == Largest(S)
<1>1. /\ n \in Nat \ {0} /\ DOMAIN stack = 1..n /\ Top = stack[n] /\ IsChunk(Top)
  BY BelowIs DEF CanRun, TypeInv, Grounded, Top
<1>2. UnitIndex \in DOMAIN stack /\ \A i \in DOMAIN stack : i > UnitIndex => ~IsUnit(stack[i])
  BY IndicesAreNat
<1> SUFFICES ASSUME S # {} PROVE FALSE
  BY DEF OnlyBegins
<1>3. S \subseteq 1..n
  BY <1>1
<1>4. j \in S /\ \A i \in S : i <= j
  <2> HIDE DEF S
  <2> QED
    BY <1>1, <1>3, LargestIsIn
<1>5. j \in 1..n /\ j > UnitIndex /\ stack[j].kind # "begin" /\ ~IsUnit(stack[j])
  BY <1>1, <1>2, <1>4
<1>6. \A i \in DOMAIN stack : i > j => stack[i].kind = "begin"
  <2> SUFFICES ASSUME NEW i \in DOMAIN stack, i > j, stack[i].kind # "begin" PROVE FALSE
    OBVIOUS
  <2>1. i > UnitIndex
    BY <1>1, <1>2, <1>5
  <2>2. i \in S
    BY <2>1
  <2>3. i <= j
    BY <1>4, <2>2
  <2> QED
    BY <2>3, <1>1, <1>5
<1> HIDE DEF j, S, n
<1>7. ~IsChunk(stack[j])
  BY <1>5 DEF IsChunk, IsUnit
<1>8. j # n
  BY <1>1, <1>7
<1>9. j + 1 \in DOMAIN stack /\ j + 1 > j /\ (j + 1) - 1 = j
  BY <1>1, <1>5, <1>8
<1>10. stack[j + 1].kind = "begin"
  BY <1>6, <1>9
<1>11. IsChunk(stack[(j + 1) - 1])
  BY <1>9, <1>10 DEF PartInv, PartOf
<1> QED
  BY <1>7, <1>9, <1>11


-----------------------------------------------------------------------------
(* Where a jump on its way is to land, and that nothing above that place    *)
(* stops it first.                                                          *)

NoneHeld(s, g) == \A i \in DOMAIN s : i > g => ~InEnsure(s[i])

IsMethod(f, h) == f.kind = "method" /\ f.id = h
IsSite(f, k) == f.kind = "site" /\ f.id = k
IsLoop(f) == f.kind = "begin" /\ f.loop

\* A return that has been told its method, h, lands there, at a lambda, or at
\* the main program.
ReturnsTo(s, g, h) ==
  /\ g \in DOMAIN s /\ (g = 1 \/ IsMethod(s[g], h) \/ IsLambda(s[g]))
  /\ \A i \in DOMAIN s : i > g => ~IsMethod(s[i], h)

\* Before that it is in the text of the unit it was written in.
ReturnsFromUnit(s, g, u) ==
  /\ u \in DOMAIN s /\ IsUnit(s[u]) /\ OnlyBegins(s, u)
  /\ IF PlainBlock(s[u]) THEN ReturnsTo(s, g, s[u].blk.home) ELSE g = u

ReturnAims(s, g, to) ==
  IF to # None THEN ReturnsTo(s, g, to) ELSE \E u \in DOMAIN s : ReturnsFromUnit(s, g, u)

\* A break lands at its loop or lambda, if it has one; else at the call site
\* that is named k, if that is still there.
BreaksHere(s, g) ==
  g \in DOMAIN s /\ OnlyBegins(s, g) /\ (IsLambda(s[g]) \/ IsLoop(s[g]))
BreaksTo(s, g, k) ==
  /\ g = 0 \/ (g \in DOMAIN s /\ IsSite(s[g], k) /\ NoneHeld(s, g))
  /\ \A i \in DOMAIN s : i > g => ~IsSite(s[i], k)
BreaksFromBlock(s, g, u, r) ==
  /\ u \in DOMAIN s /\ PlainBlock(s[u]) /\ OnlyBegins(s, u)
  /\ BreaksTo(s, g, s[u].blk.adopt)
  /\ g # 0 => ~IsErr(r)
BreaksOut(s, g, r) ==
  g \in DOMAIN s /\ s[g].kind = "site" /\ NoneHeld(s, g) /\ ~IsErr(r)

BreakAims(s, g, lex, r) ==
  \/ BreaksHere(s, g)
  \/ lex /\ \E u \in DOMAIN s : BreaksFromBlock(s, g, u, r)
  \/ ~lex /\ BreaksOut(s, g, r)

NextAims(s, g) ==
  g \in DOMAIN s /\ OnlyBegins(s, g) /\ (s[g].kind = "block" \/ IsLoop(s[g]))

RetryAims(s, g) ==
  /\ g \in DOMAIN s /\ OnlyBegins(s, g) /\ s[g].kind = "begin" /\ s[g].phase = "rescue"
  /\ \A i \in DOMAIN s : i > g => s[i].phase # "rescue"

ThrowAims(s, g, t) ==
  \A i \in DOMAIN s : i > g => ~(s[i].kind = "catch" /\ s[i].tag = t)

Aims(s, g, sg, lex, r) ==
  /\ sg.kind = "return" => ReturnAims(s, g, sg.to)
  /\ sg.kind = "break" => BreakAims(s, g, lex, r)
  /\ sg.kind = "next" => NextAims(s, g)
  /\ sg.kind = "retry" => RetryAims(s, g)
  /\ sg.kind = "throw" => ThrowAims(s, g, sg.to)

Clear == strayed \cap {"signal", "taken"} = {}

AimInv == Clear /\ signal # None /\ stack # <<>> => Aims(stack, goal, signal, lexical, result)

-----------------------------------------------------------------------------
(* A jump sets out.                                                         *)

LEMMA SignalFields ==
  /\ \A k \in {"break", "next", "retry", "return"} :
        Jump(k, None).kind = k /\ Jump(k, None).to = None
  /\ \A t : Jump("throw", t).kind = "throw" /\ Jump("throw", t).to = t
  /\ \A h : Jump("return", h).kind = "return" /\ Jump("return", h).to = h
BY DEF Jump

LEMMA ReturnSetsOut ==
  ASSUME TypeInv, IdInv, PartInv, Return
  PROVE  Aims(stack', goal', signal', lexical', result')
<1> DEFINE n == Len(stack)
           u == UnitIndex
           lam == Activation(ReturnsFrom(Unit))
           met == Activation(Home(Unit))
<1>1. /\ CanRun /\ stack' = stack /\ signal' = Jump("return", None)
      /\ goal' = IF lam # 0 THEN lam ELSE IF met # 0 THEN met ELSE 1
  BY DEF Return, Leap, CanAct
<1>2. /\ n \in Nat \ {0} /\ DOMAIN stack = 1..n /\ stack \in Seq(Frame)
  BY <1>1, BelowIs DEF CanRun, TypeInv, Grounded
<1>3. /\ u \in DOMAIN stack /\ Unit = stack[u] /\ IsUnit(Unit) /\ Unit \in Frame
      /\ \A i \in DOMAIN stack : i > u => ~IsUnit(stack[i])
      /\ OnlyBegins(stack, u)
  BY <1>1, IndicesAreNat, UnitIsNear DEF Unit
<1> HIDE DEF n, u
\* The activation with an identity.
<1>4. ASSUME NEW id
      PROVE  LET a == Activation(id) IN
             /\ a # 0 => a \in DOMAIN stack /\ IsUnit(stack[a]) /\ stack[a].id = id
             /\ \A i \in DOMAIN stack : IsUnit(stack[i]) /\ stack[i].id = id => a # 0 /\ i <= a
  <2> DEFINE S == {i \in DOMAIN stack : IsUnit(stack[i]) /\ stack[i].id = id}
  <2>1. S \subseteq 1..n /\ Activation(id) = Largest(S)
    BY <1>2 DEF Activation
  <2>2. /\ Largest(S) # 0 => Largest(S) \in S
        /\ \A i \in S : Largest(S) \in S /\ i <= Largest(S)
    <3> HIDE DEF S
    <3> QED
      BY <1>2, <2>1, LargestIsIn, LargestBound
  <2>3. 0 \notin S
    BY <1>2
  <2> QED
    BY <2>1, <2>2, <2>3
<1>5. CASE ~PlainBlock(Unit)
  <2>1. ReturnsFrom(Unit) = Unit.id
    BY <1>3, <1>5 DEF ReturnsFrom, PlainBlock
  <2>2. lam # 0 /\ u <= lam /\ lam \in DOMAIN stack /\ IsUnit(stack[lam])
    BY <1>3, <1>4, <2>1
  <2> HIDE DEF lam
  <2>3. ~(lam > u)
    BY <1>3, <2>2
  <2>4. lam = u
    BY <1>2, <1>3, <2>2, <2>3
  <2>5. ReturnsFromUnit(stack, lam, u)
    BY <1>3, <1>5, <2>4 DEF ReturnsFromUnit
  <2>6. ReturnAims(stack, lam, None)
    BY <1>3, <2>5 DEF ReturnAims
  <2> QED
    BY <1>1, <2>2, <2>6, SignalFields DEF Aims
<1>6. CASE PlainBlock(Unit)
  <2> DEFINE p == Unit.blk
             g == IF lam # 0 THEN lam ELSE IF met # 0 THEN met ELSE 1
  <2>1. ReturnsFrom(Unit) = p.ret /\ Home(Unit) = p.home
    BY <1>6 DEF ReturnsFrom, Home, PlainBlock
  <2>2. p \in Proc /\ p.home \in Nat /\ p.ret \in Nat
    BY <1>3, <1>6, UnitFields DEF PlainBlock
  <2>3. Held(p)
    BY <1>3, <1>6 DEF Held, Has, PlainBlock
  <2>4. Right(p, stack, next) /\ Ordered(stack, next)
    BY <2>2, <2>3 DEF IdInv
  <2>5. /\ lam # 0 => lam \in DOMAIN stack /\ IsUnit(stack[lam]) /\ stack[lam].id = p.ret
        /\ met # 0 => met \in DOMAIN stack /\ IsUnit(stack[met]) /\ stack[met].id = p.home
        /\ \A i \in DOMAIN stack : IsUnit(stack[i]) /\ stack[i].id = p.home => met # 0
    BY <1>4, <2>1
  <2> HIDE DEF lam, met, p
  \* A unit that is no block and has the identity of the method.
  <2>6. ASSUME NEW a \in DOMAIN stack, IsUnit(stack[a]), stack[a].id = p.home
        PROVE  a = 1 \/ IsMethod(stack[a], p.home)
    <3>1. stack[a].kind # "block"
      BY <2>4, <2>6 DEF Right
    <3>2. stack[a].kind = "method" \/ stack[a].kind = "main"
      BY <2>6, <3>1 DEF IsUnit
    <3>3. stack[a].kind = "main" => a = 1
      BY <2>6 DEF TypeInv, Grounded
    <3> QED
      BY <2>6, <3>2, <3>3 DEF IsMethod
  \* No such method is above a unit with that identity or a later one.
  <2>7. ASSUME NEW a \in DOMAIN stack, IsUnit(stack[a]), p.home <= stack[a].id,
               NEW i \in DOMAIN stack, i > a, IsMethod(stack[i], p.home)
        PROVE  FALSE
    <3>1. IsUnit(stack[i]) /\ stack[i].id = p.home
      BY <2>7 DEF IsMethod, IsUnit
    <3>2. stack[a].id < stack[i].id
      BY <2>4, <2>7, <3>1, <1>2 DEF Ordered
    <3>3. stack[a].id \in Nat
      BY <2>7, <1>2, UnitFields
    <3> QED
      BY <3>1, <3>2, <3>3, <2>2, <2>7
  <2>8. ReturnsTo(stack, g, p.home)
    <3>1. CASE lam # 0
      <4>1. p.ret = p.home \/ IsLambda(stack[lam])
        BY <2>4, <2>5, <3>1 DEF Right
      <4>2. lam = 1 \/ IsMethod(stack[lam], p.home) \/ IsLambda(stack[lam])
        BY <4>1, <2>5, <2>6, <3>1
      <4>3. p.home <= stack[lam].id
        BY <2>4, <2>5, <3>1 DEF Right
      <4> QED
        BY <2>5, <2>7, <3>1, <4>2, <4>3 DEF ReturnsTo
    <3>2. CASE lam = 0 /\ met # 0
      <4>1. p.home <= stack[met].id
        BY <2>2, <2>5, <3>2
      <4> QED
        BY <2>5, <2>6, <2>7, <3>2, <4>1 DEF ReturnsTo
    <3>3. CASE lam = 0 /\ met = 0
      <4>1. \A i \in DOMAIN stack : ~IsMethod(stack[i], p.home)
        BY <2>5, <3>3 DEF IsMethod, IsUnit
      <4> QED
        BY <1>2, <3>3, <4>1 DEF ReturnsTo
    <3> QED
      BY <3>1, <3>2, <3>3
  <2>9. goal' = g
    BY <1>1
  <2> HIDE DEF g
  <2>10. ReturnsFromUnit(stack, g, u)
    BY <1>3, <1>6, <2>8 DEF ReturnsFromUnit, p
  <2>11. ReturnAims(stack, g, None)
    BY <1>3, <2>10 DEF ReturnAims
  <2> QED
    BY <1>1, <2>9, <2>11, SignalFields DEF Aims
<1> QED
  BY <1>5, <1>6

\* The innermost loop around the begin that runs.
LEMMA LoopIs ==
  ASSUME TypeInv, PartInv, CanRun, LoopIndex # 0
  PROVE  /\ LoopIndex \in DOMAIN stack /\ OnlyBegins(stack, LoopIndex)
         /\ IsLoop(stack[LoopIndex])
<1> DEFINE n == Len(stack)
           u == UnitIndex
           S == {i \in u + 1 .. n : stack[i].loop}
<1>1. n \in Nat \ {0} /\ DOMAIN stack = 1..n
  BY BelowIs DEF CanRun, TypeInv, Grounded
<1>2. u \in DOMAIN stack /\ OnlyBegins(stack, u)
  BY IndicesAreNat, UnitIsNear
<1> HIDE DEF u, n
<1>3. S \subseteq 1..n
  BY <1>1, <1>2
<1>4. LoopIndex = Largest(S)
  BY DEF LoopIndex, u, n
<1>5. LoopIndex \in S
  <2> HIDE DEF S
  <2> QED
    BY <1>1, <1>3, <1>4, LargestBound
<1>6. LoopIndex \in 1..n /\ LoopIndex > u /\ stack[LoopIndex].loop
  BY <1>1, <1>2, <1>5
<1> HIDE DEF S
<1>7. OnlyBegins(stack, LoopIndex)
  BY <1>1, <1>2, <1>6 DEF OnlyBegins
<1> QED
  BY <1>1, <1>2, <1>6, <1>7 DEF OnlyBegins, IsLoop

LEMMA BreakSetsOut ==
  ASSUME TypeInv, PartInv, Break, Clear'
  PROVE  Aims(stack', goal', signal', lexical', result')
<1> DEFINE n == Len(stack)
           u == UnitIndex
           k == Unit.blk.adopt
           g == SiteIndex(k)
<1>1. /\ CanRun /\ stack' = stack /\ signal' = Jump("break", None) /\ result' = Ok
      /\ lexical' = TRUE /\ (LoopIndex # 0 \/ Unit.kind = "block")
      /\ goal' = IF LoopIndex # 0 THEN LoopIndex ELSE IF Unit.blk.lambda THEN u ELSE g
      /\ LoopIndex = 0 /\ ~Unit.blk.lambda /\ Superseded(goal') # {} => "signal" \in strayed'
  BY DEF Break, Leap, CanAct, Stray, When
<1>2. /\ n \in Nat \ {0} /\ DOMAIN stack = 1..n
  BY <1>1, BelowIs DEF CanRun, TypeInv, Grounded
<1>3. u \in DOMAIN stack /\ Unit = stack[u] /\ OnlyBegins(stack, u)
  BY <1>1, IndicesAreNat, UnitIsNear DEF Unit
<1> HIDE DEF n, u, g
<1>4. CASE LoopIndex # 0
  <2>1. BreaksHere(stack, LoopIndex)
    BY <1>1, <1>4, LoopIs DEF BreaksHere
  <2> QED
    BY <1>1, <1>4, <2>1, SignalFields DEF Aims, BreakAims
<1>5. CASE LoopIndex = 0 /\ Unit.blk.lambda
  <2>1. BreaksHere(stack, u)
    BY <1>1, <1>3, <1>5 DEF BreaksHere, IsLambda
  <2> QED
    BY <1>1, <1>5, <2>1, SignalFields DEF Aims, BreakAims
<1>6. CASE LoopIndex = 0 /\ ~Unit.blk.lambda
  <2> DEFINE S == {i \in DOMAIN stack : stack[i].kind = "site" /\ stack[i].id = k}
  <2>1. S \subseteq 1..n /\ g = Largest(S) /\ 0 \notin S
    BY <1>2 DEF SiteIndex, g
  <2>2. /\ g # 0 => g \in S
        /\ \A i \in S : i <= g
        /\ g \in 0..n
    <3> HIDE DEF S
    <3> QED
      BY <1>2, <2>1, LargestIsIn, LargestBound
  <2>3. Superseded(g) = {} /\ goal' = g
    BY <1>1, <1>6 DEF Clear
  <2>4. NoneHeld(stack, g)
    <3> SUFFICES ASSUME NEW i \in DOMAIN stack, i > g, InEnsure(stack[i]) PROVE FALSE
      BY DEF NoneHeld
    <3>1. i \in g + 1 .. Len(stack)
      BY <1>2, <2>2 DEF n
    <3> QED
      BY <3>1, <2>3 DEF Superseded, InEnsure
  <2>5. \A i \in DOMAIN stack : i > g => ~IsSite(stack[i], k)
    <3> SUFFICES ASSUME NEW i \in DOMAIN stack, i > g, IsSite(stack[i], k) PROVE FALSE
      OBVIOUS
    <3>1. i <= g
      BY <2>2 DEF IsSite
    <3> QED
      BY <3>1, <1>2, <2>2
  <2>6. BreaksTo(stack, g, k)
    BY <2>2, <2>4, <2>5 DEF BreaksTo, IsSite
  <2>7. BreaksFromBlock(stack, g, u, Ok)
    BY <1>1, <1>3, <1>6, <2>6, ResultsAreTyped DEF BreaksFromBlock, PlainBlock
  <2>8. BreakAims(stack, g, TRUE, Ok)
    BY <1>3, <2>7 DEF BreakAims
  <2> QED
    BY <1>1, <2>3, <2>8, SignalFields DEF Aims
<1> QED
  BY <1>4, <1>5, <1>6

LEMMA NextSetsOut ==
  ASSUME TypeInv, PartInv, NextIteration
  PROVE  Aims(stack', goal', signal', lexical', result')
<1>1. /\ CanRun /\ stack' = stack /\ signal' = Jump("next", None)
      /\ LoopIndex # 0 \/ Unit.kind = "block"
      /\ goal' = IF LoopIndex # 0 THEN LoopIndex ELSE UnitIndex
  BY DEF NextIteration, Leap, CanAct
<1>2. UnitIndex \in DOMAIN stack /\ Unit = stack[UnitIndex] /\ OnlyBegins(stack, UnitIndex)
  BY <1>1, IndicesAreNat, UnitIsNear DEF Unit
<1>3. NextAims(stack, goal')
  BY <1>1, <1>2, LoopIs DEF NextAims
<1> QED
  BY <1>1, <1>3, SignalFields DEF Aims

LEMMA RetrySetsOut ==
  ASSUME TypeInv, PartInv, Retry
  PROVE  Aims(stack', goal', signal', lexical', result')
<1> DEFINE n == Len(stack)
           u == UnitIndex
           S == Enclosing({"rescue"})
           g == Largest(S)
<1>1. /\ CanRun /\ stack' = stack /\ signal' = Jump("retry", None)
      /\ S # {} /\ goal' = g
  BY DEF Retry, Leap, CanAct
<1>2. /\ n \in Nat \ {0} /\ DOMAIN stack = 1..n
  BY <1>1, BelowIs DEF CanRun, TypeInv, Grounded
<1>3. u \in DOMAIN stack /\ OnlyBegins(stack, u)
  BY <1>1, IndicesAreNat, UnitIsNear
<1>4. S = {i \in u + 1 .. n : stack[i].phase = "rescue"}
  BY DEF Enclosing
<1> HIDE DEF n, u
<1>5. S \subseteq 1..n
  BY <1>2, <1>3, <1>4
<1>6. g \in S /\ \A i \in S : i <= g
  <2> HIDE DEF S
  <2> QED
    BY <1>1, <1>2, <1>5, LargestIsIn
<1>7. g \in 1..n /\ g > u /\ stack[g].phase = "rescue"
  BY <1>2, <1>3, <1>4, <1>6
<1> HIDE DEF S, g
<1>8. \A i \in DOMAIN stack : i > g => stack[i].phase # "rescue"
  <2> SUFFICES ASSUME NEW i \in DOMAIN stack, i > g, stack[i].phase = "rescue" PROVE FALSE
    OBVIOUS
  <2>1. i \in u + 1 .. n
    BY <1>2, <1>3, <1>7
  <2>2. i <= g
    BY <2>1, <1>4, <1>6
  <2> QED
    BY <2>2, <1>2, <1>7
<1>9. OnlyBegins(stack, g) /\ stack[g].kind = "begin" /\ g \in DOMAIN stack
  BY <1>2, <1>3, <1>7 DEF OnlyBegins
<1>10. RetryAims(stack, g)
  BY <1>7, <1>8, <1>9 DEF RetryAims
<1> QED
  BY <1>1, <1>10, SignalFields DEF Aims

LEMMA ThrowSetsOut ==
  ASSUME TypeInv, NEW t \in Tags, Throw(t)
  PROVE  Aims(stack', goal', signal', lexical', result')
<1> DEFINE n == Len(stack)
           S == {i \in DOMAIN stack : stack[i].kind = "catch" /\ stack[i].tag = t}
           g == Largest(S)
<1>1. stack' = stack /\ signal' = Jump("throw", t) /\ goal' = g
  BY DEF Throw, Leap, CatchIndex
<1>2. /\ n \in Nat /\ DOMAIN stack = 1..n /\ S \subseteq 1..n
  BY DEF TypeInv, TypeOK
<1>3. /\ \A i \in S : i <= g
      /\ g \in 0..n
  <2> HIDE DEF S
  <2> QED
    BY <1>2, LargestIsIn, LargestBound
<1>4. \A i \in DOMAIN stack : i > g => i \notin S
  <2> HIDE DEF S, g
  <2> QED
    BY <1>2, <1>3
<1>5. ThrowAims(stack, g, t)
  BY <1>4 DEF ThrowAims
<1> QED
  BY <1>1, <1>5, SignalFields DEF Aims

LEMMA ProgramAims ==
  ASSUME TypeInv, IdInv, PartInv, AimInv, ProgramStep
  PROVE  AimInv'
<1> SUFFICES ASSUME Clear', signal' # None, stack' # <<>>
             PROVE  Aims(stack', goal', signal', lexical', result')
  BY DEF AimInv
<1>1. CASE \/ Return \/ Break \/ NextIteration \/ Retry
           \/ \E t \in Tags : Throw(t)
  BY <1>1, ReturnSetsOut, BreakSetsOut, NextSetsOut, RetrySetsOut, ThrowSetsOut
\* A call, or an error, while a jump is on its way.
<1>2. CASE (\E fs : Enter(fs)) \/ Returns \/ Fails
  <2>1. signal' = signal /\ When(signal # None, "signal") \subseteq strayed'
    BY <1>2 DEF Enter, Returns, Fails, Fail, Stray
  <2> QED
    BY <2>1 DEF When, Clear
<1>3. CASE End
  <2>1. UNCHANGED <<stack, goal, signal, lexical, strayed>> /\ result' = Ok /\ ~IsErr(Ok)
    BY <1>3, ResultsAreTyped DEF End
  <2>2. Aims(stack, goal, signal, lexical, result)
    BY <2>1 DEF AimInv, Clear
  <2>3. Aims(stack, goal, signal, lexical, Ok)
    BY <2>1, <2>2 DEF Aims, BreakAims, BreaksFromBlock, BreaksOut
  <2> QED
    BY <2>1, <2>3
<1>4. CASE \/ Call \/ CallWithBlock \/ Yield \/ CallKept
           \/ \E b \in BOOLEAN : Iterate(b) \/ Forward(b)
           \/ \E t \in Tags : Catch(t)
  BY <1>2, <1>4, CallsAreMoves
<1>5. CASE \E c \in {"none", "classes", "list"}, e, l \in BOOLEAN : Begin(c, e, l)
  BY <1>2, <1>5 DEF Begin
<1>6. CASE AtExit \/ \E b \in BOOLEAN : Keep(b)
  BY <1>2, <1>6 DEF AtExit, Keep
<1>7. CASE \/ Raise \/ Reraise \/ Exit
           \/ \E t \in Tags : ThrowUncaught(t)
           \/ \E b \in BOOLEAN : RaiseBare(b)
  BY <1>2, <1>7, ErrorsAreMoves
<1> QED
  BY <1>1, <1>3, <1>4, <1>5, <1>6, <1>7 DEF ProgramStep


-----------------------------------------------------------------------------
(* A jump passes a call or a clause.                                        *)

\* What the top of the stack has to do with a jump that reaches it, if it is
\* no begin.
LEMMA AtTop ==
  ASSUME TypeInv, stack # <<>>, Top.kind # "begin",
         NEW g, NEW sg, NEW lex, NEW r, Aims(stack, g, sg, lex, r)
  PROVE  /\ sg.kind = "next" => g = Len(stack) /\ Top.kind = "block"
         /\ sg.kind # "retry"
         /\ sg.kind = "return" /\ sg.to = None =>
              IsUnit(Top) /\ IF PlainBlock(Top) THEN ReturnsTo(stack, g, Top.blk.home)
                             ELSE g = Len(stack)
         /\ sg.kind = "return" /\ sg.to # None => ReturnsTo(stack, g, sg.to)
         /\ sg.kind = "break" =>
              \/ g = Len(stack) /\ IsLambda(Top)
              \/ lex /\ BreaksFromBlock(stack, g, Len(stack), r)
              \/ ~lex /\ BreaksOut(stack, g, r)
<1> DEFINE n == Len(stack)
<1>1. n \in Nat \ {0} /\ DOMAIN stack = 1..n /\ Top = stack[n]
  BY BelowIs DEF TypeInv, Grounded, Top
<1> HIDE DEF n
<1>2. ASSUME NEW i \in DOMAIN stack, OnlyBegins(stack, i) PROVE i = n
  BY <1>1, <1>2 DEF OnlyBegins
<1>3. sg.kind = "next" => g = n /\ Top.kind = "block"
  BY <1>1, <1>2 DEF Aims, NextAims, IsLoop
<1>4. sg.kind # "retry"
  BY <1>1, <1>2 DEF Aims, RetryAims
<1>5. ASSUME sg.kind = "return", sg.to = None
      PROVE  IsUnit(Top) /\ IF PlainBlock(Top) THEN ReturnsTo(stack, g, Top.blk.home)
                            ELSE g = n
  <2>1. PICK u \in DOMAIN stack : ReturnsFromUnit(stack, g, u)
    BY <1>5 DEF Aims, ReturnAims
  <2>2. u = n
    BY <2>1, <1>2 DEF ReturnsFromUnit
  <2> QED
    BY <2>1, <2>2, <1>1 DEF ReturnsFromUnit
<1>6. sg.kind = "return" /\ sg.to # None => ReturnsTo(stack, g, sg.to)
  BY DEF Aims, ReturnAims
<1>7. ASSUME sg.kind = "break"
      PROVE  \/ g = n /\ IsLambda(Top)
             \/ lex /\ BreaksFromBlock(stack, g, n, r)
             \/ ~lex /\ BreaksOut(stack, g, r)
  <2>1. BreakAims(stack, g, lex, r)
    BY <1>7 DEF Aims
  <2>2. CASE BreaksHere(stack, g)
    BY <2>2, <1>1, <1>2 DEF BreaksHere, IsLoop
  <2>3. ASSUME NEW u \in DOMAIN stack, BreaksFromBlock(stack, g, u, r)
        PROVE  BreaksFromBlock(stack, g, n, r)
    BY <2>3, <1>2 DEF BreaksFromBlock
  <2> QED
    BY <2>1, <2>2, <2>3 DEF BreakAims
<1> QED
  BY <1>3, <1>4, <1>5, <1>6, <1>7 DEF n

LEMMA PopReturn ==
  ASSUME TypeInv, stack # <<>>, Top.kind \notin {"main", "ending"},
         NEW g, NEW h, ReturnsTo(stack, g, h), ~IsMethod(Top, h), ~IsLambda(Top)
  PROVE  ReturnsTo(Below, g, h)
<1> DEFINE n == Len(stack)
<1>1. /\ n \in Nat \ {0} /\ DOMAIN stack = 1..n /\ Top = stack[n]
      /\ DOMAIN Below = 1..(n - 1) /\ \A i \in 1..(n - 1) : Below[i] = stack[i]
  BY BelowIs DEF TypeInv, Grounded, Top
<1>2. stack[1].kind \in {"main", "ending"}
  BY DEF TypeInv, Grounded
<1> HIDE DEF n, Below
<1>3. g \in 1..(n - 1)
  BY <1>1, <1>2 DEF ReturnsTo
<1> QED
  BY <1>1, <1>3 DEF ReturnsTo

LEMMA PopBreak ==
  ASSUME TypeInv, stack # <<>>, NEW g, NEW r, BreaksOut(stack, g, r), g # Len(stack)
  PROVE  BreaksOut(Below, g, r)
<1> DEFINE n == Len(stack)
<1>1. /\ n \in Nat \ {0} /\ DOMAIN stack = 1..n
      /\ DOMAIN Below = 1..(n - 1) /\ \A i \in 1..(n - 1) : Below[i] = stack[i]
  BY BelowIs DEF TypeInv, Grounded
<1> HIDE DEF Below
<1> QED
  BY <1>1 DEF BreaksOut, NoneHeld

LEMMA PopThrowAims ==
  ASSUME TypeInv, stack # <<>>, NEW g, NEW t, ThrowAims(stack, g, t)
  PROVE  ThrowAims(Below, g, t)
<1> DEFINE n == Len(stack)
<1>1. /\ n \in Nat \ {0} /\ DOMAIN stack = 1..n
      /\ DOMAIN Below = 1..(n - 1) /\ \A i \in 1..(n - 1) : Below[i] = stack[i]
  BY BelowIs DEF TypeInv, Grounded
<1> HIDE DEF Below
<1> QED
  BY <1>1 DEF ThrowAims

\* A call without a block of its own to end, that keeps nothing.
LEMMA PassCall ==
  ASSUME TypeInv, stack # <<>>, Top.kind \in {"method", "site", "builtin", "catch"},
         NEW g, NEW sg, NEW lex, NEW r, Aims(stack, g, sg, lex, r),
         Top.kind = "method" /\ sg.kind = "return" => sg.to \notin {None, Top.id},
         Top.kind = "site" /\ sg.kind = "break" => IsErr(r)
  PROVE  /\ Aims(Below, g, sg, lex, r)
         /\ sg.kind \notin {"next", "retry"}
<1>1. ~IsLambda(Top) /\ ~PlainBlock(Top) /\ Top.kind # "begin"
  BY DEF IsLambda, PlainBlock
<1>2. /\ sg.kind \notin {"next", "retry"}
      /\ sg.kind = "return" /\ sg.to = None => IsUnit(Top)
      /\ sg.kind = "return" /\ sg.to # None => ReturnsTo(stack, g, sg.to)
      /\ sg.kind = "break" => \/ lex /\ BreaksFromBlock(stack, g, Len(stack), r)
                              \/ ~lex /\ BreaksOut(stack, g, r)
  BY <1>1, AtTop
<1>3. ASSUME sg.kind = "return" PROVE ReturnAims(Below, g, sg.to)
  <2>1. sg.to # None
    BY <1>2, <1>3 DEF IsUnit
  <2>2. ~IsMethod(Top, sg.to)
    BY <1>3 DEF IsMethod
  <2>3. ReturnsTo(Below, g, sg.to)
    BY <2>1, <2>2, <1>1, <1>2, <1>3, PopReturn
  <2> QED
    BY <2>1, <2>3 DEF ReturnAims
<1>4. ASSUME sg.kind = "break" PROVE BreakAims(Below, g, lex, r)
  <2>1. ~lex /\ BreaksOut(stack, g, r)
    BY <1>1, <1>2, <1>4 DEF BreaksFromBlock, Top
  <2>2. g # Len(stack)
    BY <1>4, <2>1 DEF BreaksOut, Top
  <2>3. BreaksOut(Below, g, r)
    BY <2>1, <2>2, PopBreak
  <2> QED
    BY <2>1, <2>3 DEF BreakAims
<1>5. sg.kind = "throw" => ThrowAims(Below, g, sg.to)
  BY PopThrowAims DEF Aims
<1> QED
  BY <1>2, <1>3, <1>4, <1>5 DEF Aims

\* A begin that is left.
LEMMA PassBegin ==
  ASSUME TypeInv, stack # <<>>, Top.kind = "begin",
         NEW g, NEW sg, NEW lex, NEW r, NEW r2, Aims(stack, g, sg, lex, r),
         sg.kind \in {"break", "next", "retry"} => g # Len(stack),
         ~IsErr(r) /\ ~InEnsure(Top) => ~IsErr(r2)
  PROVE  Aims(Below, g, sg, lex, r2)
<1> DEFINE n == Len(stack)
<1>1. /\ n \in Nat \ {0} /\ DOMAIN stack = 1..n /\ Top = stack[n]
      /\ DOMAIN Below = 1..(n - 1) /\ \A i \in 1..(n - 1) : Below[i] = stack[i]
  BY BelowIs DEF TypeInv, Grounded, Top
<1>2. ~IsUnit(Top) /\ ~IsLambda(Top) /\ ~PlainBlock(Top) /\ \A h : ~IsMethod(Top, h)
  BY DEF IsUnit, IsLambda, PlainBlock, IsMethod
<1>3. \A h : ReturnsTo(stack, g, h) => ReturnsTo(Below, g, h)
  BY <1>2, PopReturn
<1> HIDE DEF Below, n
<1>4. \A i : OnlyBegins(stack, i) => OnlyBegins(Below, i)
  BY <1>1 DEF OnlyBegins
<1>5. ASSUME sg.kind = "return" PROVE ReturnAims(Below, g, sg.to)
  <2>1. CASE sg.to # None
    BY <2>1, <1>3, <1>5 DEF Aims, ReturnAims
  <2>2. CASE sg.to = None
    <3>1. PICK u \in DOMAIN stack : ReturnsFromUnit(stack, g, u)
      BY <1>5, <2>2 DEF Aims, ReturnAims
    <3>2. u # n
      BY <3>1, <1>1, <1>2 DEF ReturnsFromUnit
    <3>3. u \in 1..(n - 1) /\ Below[u] = stack[u]
      BY <3>2, <1>1
    <3>4. ReturnsFromUnit(Below, g, u)
      BY <3>1, <3>3, <1>1, <1>3, <1>4 DEF ReturnsFromUnit
    <3> QED
      BY <3>3, <3>4, <2>2, <1>1 DEF ReturnAims
  <2> QED
    BY <2>1, <2>2
<1>6. ASSUME sg.kind = "break" PROVE BreakAims(Below, g, lex, r2)
  <2>0. g # n
    BY <1>6 DEF n
  <2>1. BreakAims(stack, g, lex, r)
    BY <1>6 DEF Aims
  <2>2. CASE BreaksHere(stack, g)
    <3>1. BreaksHere(Below, g)
      BY <2>0, <2>2, <1>1, <1>4 DEF BreaksHere
    <3> QED
      BY <3>1 DEF BreakAims
  <2>3. ASSUME lex, NEW u \in DOMAIN stack, BreaksFromBlock(stack, g, u, r)
        PROVE  BreakAims(Below, g, lex, r2)
    <3>1. u # n
      BY <2>3, <1>1, <1>2 DEF BreaksFromBlock
    <3>2. u \in 1..(n - 1) /\ Below[u] = stack[u]
      BY <3>1, <1>1
    <3> DEFINE k == stack[u].blk.adopt
    <3> HIDE DEF k
    <3>3. BreaksTo(stack, g, k)
      BY <2>3 DEF BreaksFromBlock, k
    <3>4. BreaksTo(Below, g, k)
      BY <2>0, <3>3, <1>1 DEF BreaksTo, NoneHeld
    <3>5. g # 0 => ~IsErr(r2)
      <4> SUFFICES ASSUME g # 0 PROVE ~IsErr(r2)
        OBVIOUS
      <4>1. ~IsErr(r) /\ NoneHeld(stack, g) /\ g \in DOMAIN stack
        BY <2>3, <3>3 DEF BreaksFromBlock, BreaksTo
      <4>2. ~InEnsure(stack[n])
        BY <2>0, <4>1, <1>1 DEF NoneHeld
      <4> QED
        BY <4>1, <4>2, <1>1
    <3>6. BreaksFromBlock(Below, g, u, r2)
      BY <2>3, <3>2, <3>4, <3>5, <1>1, <1>4 DEF BreaksFromBlock, k
    <3> QED
      BY <2>3, <3>2, <3>6, <1>1 DEF BreakAims
  <2>4. ASSUME ~lex, BreaksOut(stack, g, r)
        PROVE  BreakAims(Below, g, lex, r2)
    <3>1. ~IsErr(r) /\ ~InEnsure(stack[n])
      BY <2>0, <2>4, <1>1 DEF BreaksOut, NoneHeld
    <3>2. ~IsErr(r2)
      BY <3>1, <1>1
    <3>3. BreaksOut(stack, g, r2)
      BY <3>2, <2>4 DEF BreaksOut
    <3>4. BreaksOut(Below, g, r2)
      BY <2>0, <3>3, PopBreak DEF n
    <3> QED
      BY <2>4, <3>4 DEF BreakAims
  <2> QED
    BY <2>1, <2>2, <2>3, <2>4 DEF BreakAims
<1>7. ASSUME sg.kind = "next" PROVE NextAims(Below, g)
  <2>1. g # n /\ NextAims(stack, g)
    BY <1>7 DEF Aims, n
  <2> QED
    BY <2>1, <1>1, <1>4 DEF NextAims
<1>8. ASSUME sg.kind = "retry" PROVE RetryAims(Below, g)
  <2>1. g # n /\ RetryAims(stack, g)
    BY <1>8 DEF Aims, n
  <2> QED
    BY <2>1, <1>1, <1>4 DEF RetryAims
<1>9. sg.kind = "throw" => ThrowAims(Below, g, sg.to)
  BY PopThrowAims DEF Aims
<1> QED
  BY <1>5, <1>6, <1>7, <1>8, <1>9 DEF Aims

\* A begin that turns to its ensure clause.
LEMMA PassClause ==
  ASSUME TypeInv, stack # <<>>, Top.kind = "begin",
         NEW g, NEW sg, NEW lex, NEW r, NEW r2, Aims(stack, g, sg, lex, r),
         NEW f \in BeginFrame, f.phase # "rescue", f.loop = Top.loop,
         sg.kind = "retry" => g # Len(stack),
         ~IsErr(r) => ~InEnsure(f), ~IsErr(r2)
  PROVE  Aims(WithTop(f), g, sg, lex, r2)
<1> DEFINE n == Len(stack)
           t == WithTop(f)
<1>0. f \in Frame /\ f.kind = "begin"
  BY BeginIsFrame
<1>1. /\ n \in Nat \ {0} /\ DOMAIN stack = 1..n /\ Top = stack[n]
      /\ DOMAIN t = 1..n /\ \A i \in 1..(n - 1) : t[i] = stack[i]
      /\ t[n] = f
  BY <1>0, BelowIs, WithTopIs DEF TypeInv, Grounded, Top
<1> HIDE DEF t, n
<1>2. /\ \A i \in DOMAIN stack : i \in DOMAIN t /\ (i = n \/ t[i] = stack[i])
      /\ \A i \in DOMAIN t : i \in DOMAIN stack /\ (i = n \/ t[i] = stack[i])
      /\ n \in DOMAIN stack /\ n \in DOMAIN t
  BY <1>1
<1>3. /\ ~IsUnit(Top) /\ ~IsLambda(Top) /\ ~PlainBlock(Top)
      /\ \A h : ~IsMethod(Top, h) /\ ~IsSite(Top, h)
      /\ ~IsUnit(f) /\ ~IsLambda(f) /\ ~PlainBlock(f)
      /\ \A h : ~IsMethod(f, h) /\ ~IsSite(f, h)
  BY <1>0 DEF IsUnit, IsLambda, PlainBlock, IsMethod, IsSite
<1>4. \A i : OnlyBegins(stack, i) => OnlyBegins(t, i)
  BY <1>0, <1>1, <1>2 DEF OnlyBegins
<1>5. \A h : ReturnsTo(stack, g, h) => ReturnsTo(t, g, h)
  BY <1>1, <1>2, <1>3 DEF ReturnsTo
<1>6. ASSUME sg.kind = "return" PROVE ReturnAims(t, g, sg.to)
  <2>1. CASE sg.to # None
    BY <2>1, <1>5, <1>6 DEF Aims, ReturnAims
  <2>2. CASE sg.to = None
    <3>1. PICK u \in DOMAIN stack : ReturnsFromUnit(stack, g, u)
      BY <1>6, <2>2 DEF Aims, ReturnAims
    <3>2. u # n
      BY <3>1, <1>1, <1>3 DEF ReturnsFromUnit
    <3>3. u \in DOMAIN t /\ t[u] = stack[u]
      BY <3>2, <1>2
    <3>4. ReturnsFromUnit(t, g, u)
      BY <3>1, <3>3, <1>4, <1>5 DEF ReturnsFromUnit
    <3> QED
      BY <3>3, <3>4, <2>2 DEF ReturnAims
  <2> QED
    BY <2>1, <2>2
<1>7. ASSUME NoneHeld(stack, g), ~IsErr(r) PROVE NoneHeld(t, g)
  BY <1>2, <1>7, <1>1 DEF NoneHeld
<1>8. ASSUME sg.kind = "break" PROVE BreakAims(t, g, lex, r2)
  <2>1. BreakAims(stack, g, lex, r)
    BY <1>8 DEF Aims
  <2>2. CASE BreaksHere(stack, g)
    <3>1. g \in DOMAIN t /\ (IsLambda(t[g]) \/ IsLoop(t[g]))
      BY <2>2, <1>0, <1>1, <1>2, <1>3 DEF BreaksHere, IsLoop
    <3> QED
      BY <2>2, <3>1, <1>4 DEF BreakAims, BreaksHere
  <2>3. ASSUME lex, NEW u \in DOMAIN stack, BreaksFromBlock(stack, g, u, r)
        PROVE  BreakAims(t, g, lex, r2)
    <3>1. u # n
      BY <2>3, <1>1, <1>3 DEF BreaksFromBlock
    <3>2. u \in DOMAIN t /\ t[u] = stack[u]
      BY <3>1, <1>2
    <3> DEFINE k == stack[u].blk.adopt
    <3> HIDE DEF k
    <3>3. BreaksTo(stack, g, k) /\ (g # 0 => ~IsErr(r))
      BY <2>3 DEF BreaksFromBlock, k
    <3>4. g = 0 \/ (g \in DOMAIN t /\ IsSite(t[g], k) /\ NoneHeld(t, g))
      <4>1. ASSUME g # 0 PROVE g \in DOMAIN t /\ IsSite(t[g], k) /\ NoneHeld(t, g)
        <5>1. g \in DOMAIN stack /\ IsSite(stack[g], k) /\ NoneHeld(stack, g) /\ ~IsErr(r)
          BY <3>3, <4>1 DEF BreaksTo
        <5>2. g # n
          BY <5>1, <1>1, <1>3
        <5> QED
          BY <5>1, <5>2, <1>2, <1>7
      <4> QED
        BY <4>1
    <3>5. \A i \in DOMAIN t : i > g => ~IsSite(t[i], k)
      BY <3>3, <1>1, <1>2, <1>3 DEF BreaksTo
    <3>6. BreaksTo(t, g, k)
      BY <3>4, <3>5 DEF BreaksTo
    <3>7. BreaksFromBlock(t, g, u, r2)
      BY <2>3, <3>2, <3>6, <1>4 DEF BreaksFromBlock, k
    <3> QED
      BY <2>3, <3>2, <3>7 DEF BreakAims
  <2>4. ASSUME ~lex, BreaksOut(stack, g, r)
        PROVE  BreakAims(t, g, lex, r2)
    <3>1. g # n
      BY <2>4, <1>1 DEF BreaksOut
    <3>2. BreaksOut(t, g, r2)
      BY <2>4, <3>1, <1>2, <1>7 DEF BreaksOut
    <3> QED
      BY <2>4, <3>2 DEF BreakAims
  <2> QED
    BY <2>1, <2>2, <2>3, <2>4 DEF BreakAims
<1>9. ASSUME sg.kind = "next" PROVE NextAims(t, g)
  <2>1. NextAims(stack, g)
    BY <1>9 DEF Aims
  <2>2. g \in DOMAIN t /\ (t[g].kind = "block" \/ IsLoop(t[g]))
    BY <2>1, <1>0, <1>1, <1>2 DEF NextAims, IsLoop
  <2> QED
    BY <2>1, <2>2, <1>4 DEF NextAims
<1>10. ASSUME sg.kind = "retry" PROVE RetryAims(t, g)
  <2>1. g # n /\ RetryAims(stack, g)
    BY <1>10 DEF Aims, n
  <2>2. \A i \in DOMAIN t : i > g => t[i].phase # "rescue"
    BY <2>1, <1>1, <1>2 DEF RetryAims
  <2> QED
    BY <2>1, <2>2, <1>2, <1>4 DEF RetryAims
<1>11. sg.kind = "throw" => ThrowAims(t, g, sg.to)
  BY <1>0, <1>1, <1>2 DEF Aims, ThrowAims
<1> QED
  BY <1>6, <1>8, <1>9, <1>10, <1>11 DEF Aims, t


\* Where the jump on its way is after the step.
Arrives ==
  /\ signal' # None /\ stack' # <<>> => Aims(stack', goal', signal', lexical', result')
  /\ signal' = None => AtGoal

LEMMA AnswerIs ==
  ASSUME NEW r, NEW sg, Answer(r, sg) \/ AnswerCall(r, sg)
  PROVE  /\ stack' = Below /\ signal' = sg
         /\ sg # None => goal' = goal /\ result' = r
BY DEF AnswerCall, Answer, Signal, Settled

LEMMA AtLen ==
  ASSUME goal = Len(stack)
  PROVE  AtGoal
BY DEF AtGoal

LEMMA MethodLands ==
  ASSUME TypeInv, signal # None, Aims(stack, goal, signal, lexical, result), MethodEnds
  PROVE  Arrives
<1> DEFINE own == IsJump(signal, {"return"}) /\ signal.to \in {None, Top.id}
           passes == ~own /\ IsJump(signal, MethodPasses)
<1>1. /\ stack # <<>> /\ Top.kind = "method"
      /\ AnswerCall(IF own THEN Ok ELSE result, IF passes THEN signal ELSE None)
      /\ lexical' = lexical
  BY DEF MethodEnds, Over
<1>2. ~PlainBlock(Top) /\ ~IsLambda(Top)
  BY <1>1 DEF PlainBlock, IsLambda
<1>3. /\ signal \in Signals /\ Len(stack) \in Nat \ {0} /\ DOMAIN stack = 1..Len(stack)
      /\ Top = stack[Len(stack)]
  BY <1>1, BelowIs DEF TypeInv, TypeOK, Top
<1>4. CASE own
  <2>1. signal.kind = "return" /\ (signal.to = None \/ signal.to = Top.id)
    BY <1>4 DEF IsJump
  <2>2. CASE signal.to = None
    <3>1. goal = Len(stack)
      BY <2>1, <2>2, <1>1, <1>2, AtTop
    <3>2. signal' = None
      BY <1>1, <1>4, AnswerIs
    <3> QED
      BY <3>1, <3>2, AtLen DEF Arrives
  <2>3. CASE signal.to # None
    <3>1. ReturnsTo(stack, goal, Top.id)
      BY <2>1, <2>3, <1>1, AtTop
    <3>2. IsMethod(stack[Len(stack)], Top.id)
      BY <1>1, <1>3 DEF IsMethod
    <3>3. goal = Len(stack)
      BY <3>1, <3>2, <1>3 DEF ReturnsTo
    <3>4. signal' = None
      BY <1>1, <1>4, AnswerIs
    <3> QED
      BY <3>3, <3>4, AtLen DEF Arrives
  <2> QED
    BY <2>2, <2>3
<1>5. CASE ~own
  <2>1. signal.kind = "return" => signal.to \notin {None, Top.id}
    BY <1>5 DEF IsJump
  <2>2. Aims(Below, goal, signal, lexical, result) /\ signal.kind \notin {"next", "retry"}
    BY <2>1, <1>1, PassCall
  <2>3. passes
    BY <2>2, <1>3, <1>5, SignalsAreTyped DEF IsJump, MethodPasses
  <2>4. AnswerCall(result, signal)
    BY <2>3, <1>1, <1>5
  <2> QED
    BY <2>2, <2>4, <1>1, AnswerIs DEF Arrives
<1> QED
  BY <1>4, <1>5

\* A call site that is live is on the stack.
LEMMA SiteIs ==
  ASSUME TypeInv, NEW k
  PROVE  BlockHomeIsLive(k) <=> \E i \in DOMAIN stack : IsSite(stack[i], k)
<1> DEFINE n == Len(stack)
           S == {i \in DOMAIN stack : stack[i].kind = "site" /\ stack[i].id = k}
<1>1. /\ n \in Nat /\ DOMAIN stack = 1..n /\ S \subseteq 1..n /\ 0 \notin S
  BY DEF TypeInv, TypeOK
<1>2. Largest(S) # 0 <=> S # {}
  <2> HIDE DEF S
  <2> QED
    BY <1>1, LargestIsIn, LargestBound
<1> QED
  BY <1>2 DEF BlockHomeIsLive, SiteIndex, IsSite

LEMMA BlockLands ==
  ASSUME TypeInv, signal # None, Aims(stack, goal, signal, lexical, result), BlockEnds, Clear'
  PROVE  Arrives
<1>1. /\ stack # <<>> /\ Top.kind = "block" /\ ~OrphanBreak
      /\ IF BlockTakes THEN Answer(Ok, None)
         ELSE IF IsJump(signal, {"return"}) /\ signal.to = None
         THEN Answer(result, Jump("return", Top.blk.home))
         ELSE Answer(result, signal)
      /\ lexical' = IF IsJump(signal, {"break"}) /\ ~Top.blk.lambda THEN FALSE ELSE lexical
      /\ IsJump(signal, {"return", "break"}) /\ Top.blk.lambda => goal = Len(stack)
  BY DEF BlockEnds, Over, Stray, When, Clear
<1>2. /\ signal \in Signals /\ Len(stack) \in Nat \ {0} /\ DOMAIN stack = 1..Len(stack)
      /\ Top = stack[Len(stack)] /\ Top \in Frame
  BY <1>1, BelowIs DEF TypeInv, TypeOK, Top
<1>3. /\ Top.blk.lambda \in BOOLEAN /\ Top.blk.home \in Nat
      /\ \A h : ~IsMethod(Top, h)
  BY <1>1, <1>2, UnitFields DEF IsUnit, IsMethod
<1>4. CASE BlockTakes
  <2>1. goal = Len(stack)
    BY <1>1, <1>4, AtTop DEF BlockTakes, IsJump
  <2>2. signal' = None
    BY <1>1, <1>4, AnswerIs
  <2> QED
    BY <2>1, <2>2, AtLen DEF Arrives
<1>5. CASE ~BlockTakes /\ signal.kind = "return"
  <2>1. PlainBlock(Top) /\ ~IsLambda(Top)
    BY <1>1, <1>5 DEF BlockTakes, IsJump, PlainBlock, IsLambda
  <2> DEFINE h == IF signal.to = None THEN Top.blk.home ELSE signal.to
  <2>2. ReturnsTo(stack, goal, h)
    BY <2>1, <1>1, <1>5, AtTop
  <2>3. h # None
    BY <1>3, NoneAssumption
  <2> HIDE DEF h
  <2>4. ReturnsTo(Below, goal, h)
    BY <2>1, <2>2, <1>1, <1>3, PopReturn
  <2>5. \E sg : Answer(result, sg) /\ sg # None /\ sg.kind = "return" /\ sg.to = h
    <3>1. CASE signal.to = None
      <4> DEFINE sg == Jump("return", Top.blk.home)
      <4>1. Answer(result, sg) /\ sg.kind = "return" /\ sg.to = h
        BY <3>1, <1>1, <1>5, SignalFields DEF IsJump, h
      <4>2. sg \in Signals
        BY <1>3 DEF Jump, Signals
      <4>3. sg # None
        BY <4>2, NoneAssumption
      <4> QED
        BY <4>1, <4>3
    <3>2. CASE signal.to # None
      BY <3>2, <1>1, <1>5 DEF h
    <3> QED
      BY <3>1, <3>2
  <2> PICK sg : Answer(result, sg) /\ sg # None /\ sg.kind = "return" /\ sg.to = h
    BY <2>5
  <2>6. stack' = Below /\ signal' = sg /\ goal' = goal
    BY AnswerIs
  <2>7. ReturnAims(Below, goal, sg.to)
    BY <2>3, <2>4 DEF ReturnAims
  <2>8. Aims(Below, goal, sg, lexical', result')
    BY <2>7 DEF Aims
  <2> QED
    BY <2>6, <2>8 DEF Arrives
<1>6. CASE ~BlockTakes /\ signal.kind # "return"
  <2>1. /\ stack' = Below /\ signal' = signal /\ goal' = goal /\ result' = result
    BY <1>1, <1>6, AnswerIs DEF IsJump
  <2>2. signal.kind # "next" /\ signal.kind # "retry"
    BY <1>1, <1>6, AtTop DEF BlockTakes, IsJump
  <2>3. ASSUME signal.kind = "break" PROVE BreakAims(Below, goal, lexical', result)
    <3>1. ~Top.blk.lambda /\ ~IsLambda(Top) /\ lexical' = FALSE
      BY <2>3, <1>1, <1>6 DEF BlockTakes, IsJump, IsLambda
    <3>2. \/ lexical /\ BreaksFromBlock(stack, goal, Len(stack), result)
          \/ BreaksOut(stack, goal, result)
      BY <2>3, <3>1, <1>1, AtTop
    <3>3. ASSUME lexical, BreaksFromBlock(stack, goal, Len(stack), result)
          PROVE  BreaksOut(stack, goal, result)
      <4> DEFINE k == Top.blk.adopt
      <4>1. BlockHomeIsLive(k)
        BY <2>3, <3>1, <3>3, <1>1 DEF OrphanBreak, IsJump
      <4>2. PICK i \in DOMAIN stack : IsSite(stack[i], k)
        BY <4>1, SiteIs
      <4>3. BreaksTo(stack, goal, k)
        BY <3>3, <1>2 DEF BreaksFromBlock
      <4>4. goal # 0
        BY <4>2, <4>3, <1>2 DEF BreaksTo
      <4> QED
        BY <4>3, <4>4, <3>3 DEF BreaksTo, BreaksFromBlock, BreaksOut, IsSite
    <3>4. BreaksOut(stack, goal, result)
      BY <3>2, <3>3
    <3>5. goal # Len(stack)
      BY <3>4, <1>1, <1>2 DEF BreaksOut
    <3>6. BreaksOut(Below, goal, result)
      BY <3>4, <3>5, <1>1, PopBreak
    <3> QED
      BY <3>1, <3>6 DEF BreakAims
  <2>4. signal.kind = "throw" => ThrowAims(Below, goal, signal.to)
    BY <1>1, PopThrowAims DEF Aims
  <2>5. Aims(Below, goal, signal, lexical', result)
    BY <2>2, <2>3, <2>4, <1>6 DEF Aims
  <2> QED
    BY <2>1, <2>5 DEF Arrives
<1> QED
  BY <1>4, <1>5, <1>6

LEMMA OrphanLands ==
  ASSUME TypeInv, signal # None, Aims(stack, goal, signal, lexical, result), BlockEndsOrphan
  PROVE  Arrives
<1> DEFINE e == Raised(next, "error")
           k == Top.blk.adopt
<1>1. /\ stack # <<>> /\ Top.kind = "block" /\ signal.kind = "break" /\ ~Top.blk.lambda
      /\ lexical /\ ~BlockHomeIsLive(k) /\ Answer(Err(e), None)
  BY DEF BlockEndsOrphan, Over, OrphanBreak, IsJump
<1>2. IsErr(result') /\ signal' = None
  <2>1. IsErr(Err(e))
    BY DEF IsErr, Err
  <2> HIDE DEF e
  <2> QED
    BY <2>1, <1>1 DEF Answer, Settled, Signal
<1>3. BreaksFromBlock(stack, goal, Len(stack), result)
  BY <1>1, AtTop DEF IsLambda
<1>4. BreaksTo(stack, goal, k)
  BY <1>3 DEF BreaksFromBlock, Top
<1>5. \A i \in DOMAIN stack : ~IsSite(stack[i], k)
  BY <1>1, SiteIs
<1>6. goal = 0
  BY <1>4, <1>5 DEF BreaksTo
<1> QED
  BY <1>1, <1>2, <1>6 DEF Arrives, AtGoal

LEMMA CallLands ==
  ASSUME TypeInv, ThrowInv, signal # None, Aims(stack, goal, signal, lexical, result),
         SiteEnds \/ BuiltinEnds \/ CatchEnds, Clear', Clear
  PROVE  Arrives
<1>1. /\ stack # <<>> /\ Top.kind \in {"site", "builtin", "catch"}
      /\ lexical' = lexical
  BY DEF SiteEnds, BuiltinEnds, CatchEnds, Over
<1>2. ASSUME AnswerCall(result, signal), Top.kind = "site" /\ signal.kind = "break" => IsErr(result)
      PROVE  Arrives
  <2>1. Aims(Below, goal, signal, lexical, result)
    BY <1>1, <1>2, PassCall
  <2> QED
    BY <2>1, <1>1, <1>2, AnswerIs DEF Arrives
<1>3. \A r : AnswerCall(r, None) => signal' = None
  BY AnswerIs
<1>4. CASE SiteEnds
  <2> DEFINE takes == ~IsErr(result) /\ IsJump(signal, {"break"})
  <2>1. /\ IF takes THEN AnswerCall(Ok, None) ELSE AnswerCall(result, signal)
        /\ takes => goal = Len(stack)
    BY <1>4 DEF SiteEnds, Stray, When, Clear
  <2>2. CASE takes
    BY <2>1, <2>2, <1>3, AtLen DEF Arrives
  <2>3. CASE ~takes
    BY <2>1, <2>3, <1>2 DEF IsJump
  <2> QED
    BY <2>2, <2>3
<1>5. CASE BuiltinEnds
  <2> DEFINE takes == Top.takes /\ ~IsErr(result) /\ IsJump(signal, {"break"})
  <2>1. /\ IF takes THEN AnswerCall(Ok, None) ELSE AnswerCall(result, signal)
        /\ takes => goal = Len(stack) - 1 /\ stack[goal].kind = "site"
        /\ Top.kind = "builtin"
    BY <1>5 DEF BuiltinEnds, Stray, When, Clear, Over
  <2>2. CASE takes
    <3>1. AtGoal
      BY <2>1, <2>2 DEF AtGoal
    <3> QED
      BY <2>1, <2>2, <3>1, <1>3 DEF Arrives
  <2>3. CASE ~takes
    BY <2>1, <2>3, <1>2
  <2> QED
    BY <2>2, <2>3
<1>6. CASE CatchEnds
  <2>1. /\ Top.kind = "catch"
        /\ IF ~IsErr(result) /\ signal = Jump("throw", Top.tag)
           THEN AnswerCall(Ok, None) ELSE AnswerCall(result, signal)
    BY <1>6 DEF CatchEnds, Over
  <2>2. CASE ~IsErr(result) /\ signal = Jump("throw", Top.tag)
    <3>1. signal.kind = "throw" /\ signal.to = Top.tag
      BY <2>2, SignalFields
    <3>2. CatchBelow(stack, goal, signal)
      BY <3>1 DEF ThrowInv, Throwing, IsJump, Clear
    <3>3. ThrowAims(stack, goal, Top.tag)
      BY <3>1 DEF Aims
    <3>4. /\ Len(stack) \in Nat \ {0} /\ DOMAIN stack = 1..Len(stack)
          /\ Top = stack[Len(stack)]
      BY <1>1, BelowIs DEF TypeInv, Grounded, Top
    <3>5. goal = Len(stack)
      BY <2>1, <3>2, <3>3, <3>4 DEF CatchBelow, ThrowAims
    <3> QED
      BY <2>1, <2>2, <3>5, <1>3, AtLen DEF Arrives
  <2>3. CASE ~(~IsErr(result) /\ signal = Jump("throw", Top.tag))
    BY <2>1, <2>3, <1>2
  <2> QED
    BY <2>2, <2>3
<1> QED
  BY <1>4, <1>5, <1>6

\* A begin is left: a loop keeps its own break or next, all else goes on.
LEMMA LeaveLands ==
  ASSUME TypeInv, signal # None, Aims(stack, goal, signal, lexical, result), Clear',
         Over("begin"), NEW r, NEW marks, LeaveBegin(r, marks), lexical' = lexical,
         signal.kind = "retry" => goal # Len(stack),
         ~IsErr(result) /\ ~InEnsure(Top) => ~IsErr(r)
  PROVE  Arrives
<1>1. stack # <<>> /\ Top.kind = "begin"
  BY DEF Over
<1>2. CASE LoopKeeps
  <2>1. signal' = None /\ goal = Len(stack)
    BY <1>2 DEF LeaveBegin, Signal, Stray, When, Clear
  <2> QED
    BY <2>1, AtLen DEF Arrives
<1>3. CASE ~LoopKeeps
  <2>1. Answer(r, signal)
    BY <1>3 DEF LeaveBegin
  <2>2. stack' = Below /\ signal' = signal /\ goal' = goal /\ result' = r
    BY <2>1, AnswerIs
  <2>3. ASSUME signal.kind \in {"break", "next"}, goal = Len(stack) PROVE FALSE
    <3>1. stack[goal] = Top /\ ~IsLoop(Top)
      BY <2>3, <1>1, <1>3 DEF LoopKeeps, IsJump, IsLoop, Top
    <3>2. ~IsLambda(Top) /\ Top.kind # "site" /\ \A k : ~IsSite(Top, k)
      BY <1>1 DEF IsLambda, IsSite
    <3>3. goal # 0
      BY <2>3, <1>1, BelowIs DEF TypeInv, Grounded
    <3>4. CASE signal.kind = "next"
      BY <3>1, <3>4, <1>1 DEF Aims, NextAims
    <3>5. CASE signal.kind = "break"
      BY <3>1, <3>2, <3>3, <3>5 DEF Aims, BreakAims, BreaksHere, BreaksFromBlock, BreaksTo, BreaksOut
    <3> QED
      BY <2>3, <3>4, <3>5
  <2>4. Aims(Below, goal, signal, lexical, r)
    BY <2>3, <1>1, PassBegin
  <2> QED
    BY <2>2, <2>4 DEF Arrives
<1> QED
  BY <1>2, <1>3

LEMMA ConcludeLands ==
  ASSUME TypeInv, signal # None, Aims(stack, goal, signal, lexical, result), Clear',
         Over("begin"), NEW pe, NEW b \in MaybeException, NEW marks,
         Conclude(result, pe, b, marks),
         signal.kind = "retry" => goal # Len(stack)
  PROVE  Arrives
<1>1. stack # <<>> /\ Top.kind = "begin" /\ lexical' = lexical
  BY DEF Over, Conclude
<1>2. Top \in BeginFrame /\ result \in Result
  BY <1>1, BelowIs, FrameFields DEF TypeInv, TypeOK, Grounded
<1>3. CASE Top.ensure
  <2> DEFINE f == [Top EXCEPT !.phase = "ensure", !.saved = result, !.exc = None, !.prev = b]
  <2>1. /\ stack' = WithTop(f) /\ result' = Running /\ signal' = signal /\ goal' = goal
    BY <1>3 DEF Conclude
  <2>2. f \in BeginFrame /\ f.phase = "ensure" /\ f.loop = Top.loop /\ f.saved = result
    BY <1>2 DEF BeginFrame, MaybeException
  <2> HIDE DEF f
  <2>3. ~IsErr(result) => ~InEnsure(f)
    BY <2>2 DEF InEnsure
  <2>4. ~IsErr(Running)
    BY ResultsAreTyped
  <2>5. Aims(WithTop(f), goal, signal, lexical, Running)
    BY <2>2, <2>3, <2>4, <1>1, PassClause
  <2> QED
    BY <2>1, <2>5, <1>1 DEF Arrives
<1>4. CASE ~Top.ensure
  <2>1. LeaveBegin(result, marks)
    BY <1>4 DEF Conclude
  <2> QED
    BY <2>1, <1>1, LeaveLands
<1> QED
  BY <1>3, <1>4

\* At the bottom of the stack only a return can be on its way.
LEMMA AtBottom ==
  ASSUME TypeInv, ThrowInv, Clear, signal # None, stack # <<>>, Top.kind \in {"main", "ending"},
         Aims(stack, goal, signal, lexical, result)
  PROVE  /\ goal = 1 /\ Len(stack) = 1 /\ signal.kind = "return"
         /\ Top.kind = "ending" => signal.to # None
<1>1. Len(stack) = 1 /\ DOMAIN stack = {1} /\ stack[1] = Top
  BY BottomIsAlone DEF TypeInv
<1>2. ~PlainBlock(Top) /\ ~IsLambda(Top) /\ Top.kind \notin {"begin", "site", "catch", "block"}
  BY DEF PlainBlock, IsLambda
<1>3. signal \in Signals
  BY DEF TypeInv, TypeOK
<1>4. signal.kind # "throw"
  <2> SUFFICES ASSUME signal.kind = "throw" PROVE FALSE
    OBVIOUS
  <2>1. CatchBelow(stack, goal, signal)
    BY DEF ThrowInv, Throwing, IsJump, Clear
  <2> QED
    BY <2>1, <1>1, <1>2 DEF CatchBelow
<1>5. signal.kind # "break" /\ signal.kind # "next" /\ signal.kind # "retry"
  BY <1>1, <1>2, AtTop DEF BreaksFromBlock, BreaksOut
<1>6. signal.kind = "return"
  BY <1>3, <1>4, <1>5, SignalsAreTyped
<1>7. CASE signal.to = None
  <2>1. IsUnit(Top) /\ goal = Len(stack)
    BY <1>2, <1>6, <1>7, AtTop
  <2> QED
    BY <2>1, <1>1, <1>6 DEF IsUnit
<1>8. CASE signal.to # None
  <2>1. ReturnsTo(stack, goal, signal.to)
    BY <1>2, <1>6, <1>8, AtTop
  <2> QED
    BY <2>1, <1>1, <1>6, <1>8 DEF ReturnsTo
<1> QED
  BY <1>7, <1>8

LEMMA BottomLands ==
  ASSUME TypeInv, ThrowInv, signal # None, Aims(stack, goal, signal, lexical, result), Clear,
         MainEnds \/ HandlerRuns \/ HandlerEnds \/ Finish
  PROVE  Arrives
<1>1. stack # <<>> /\ Top.kind \in {"main", "ending"}
  BY DEF MainEnds, HandlerRuns, HandlerEnds, Finish, Over
<1>2. /\ goal = 1 /\ Len(stack) = 1 /\ signal.kind = "return"
      /\ Top.kind = "ending" => signal.to # None
  BY <1>1, AtBottom
<1>3. AtGoal
  BY <1>2, AtLen
<1>4. CASE MainEnds
  <2>1. signal' = None
    BY <1>4 DEF MainEnds, Signal
  <2> QED
    BY <2>1, <1>3 DEF Arrives
<1>5. CASE HandlerEnds
  <2>1. CASE IsErr(result)
    <3>1. signal' = None
      BY <1>5, <2>1 DEF HandlerEnds, Signal
    <3> QED
      BY <3>1, <1>3 DEF Arrives
  <2>2. CASE ~IsErr(result)
    <3>1. UNCHANGED <<stack, goal, signal, lexical>>
      BY <1>5, <2>2 DEF HandlerEnds
    <3>2. Aims(stack, goal, signal, lexical, result')
      BY <1>2 DEF Aims
    <3> QED
      BY <3>1, <3>2, <1>3 DEF Arrives
  <2> QED
    BY <2>1, <2>2
<1>6. CASE HandlerRuns
  <2> DEFINE b == at_exit_procs[Len(at_exit_procs)]
             t == Append(stack, Block(b))
  <2>1. stack' = t /\ signal' = signal /\ goal' = goal /\ Top.kind = "ending"
    BY <1>6 DEF HandlerRuns
  <2>2. b \in Proc /\ next \in Nat /\ stack \in Seq(Frame)
    BY <1>6 DEF HandlerRuns, TypeInv, TypeOK
  <2> HIDE DEF b
  <2>3. Block(b) \in Frame /\ Block(b).kind = "block"
    BY <2>2 DEF Block, Frame
  <2>4. DOMAIN t = 1..2 /\ t[2] = Block(b)
    <3>1. DOMAIN t = 1..(Len(stack) + 1) /\ t[Len(stack) + 1] = Block(b)
      BY <2>2, <2>3, AppendIs
    <3> QED
      BY <3>1, <1>2
  <2> HIDE DEF t
  <2>5. \A i \in 1..2 : i > 1 => i = 2
    OBVIOUS
  <2>6. ReturnsTo(t, 1, signal.to)
    BY <2>3, <2>4, <2>5 DEF ReturnsTo, IsMethod
  <2>7. Aims(t, 1, signal, lexical', result')
    BY <2>1, <2>6, <1>2 DEF Aims, ReturnAims
  <2> QED
    BY <2>1, <2>7, <1>2, <1>3 DEF Arrives
<1>7. CASE Finish
  BY <1>3, <1>7 DEF Finish, Arrives
<1> QED
  BY <1>4, <1>5, <1>6, <1>7

LEMMA EpilogueLands ==
  ASSUME TypeInv, ThrowInv, AimInv, Epilogue, Clear', signal # None
  PROVE  Arrives
<1>1. Clear
  BY MarksStay DEF Clear, Next
<1>2. stack # <<>> /\ Aims(stack, goal, signal, lexical, result)
  BY <1>1, EpilogueIsEndMove DEF AimInv
<1>3. /\ pending_exc \in MaybeException /\ bang \in MaybeException
  BY DEF TypeInv, TypeOK
<1>4. ASSUME Over("begin") PROVE Top \in BeginFrame
  BY <1>4, BelowIs, FrameFields DEF Over, TypeInv, Grounded
\* A retry that reaches a begin that has not a clause to retry.
<1>5. ASSUME Over("begin"), Top.phase # "rescue", signal.kind = "retry" PROVE goal # Len(stack)
  BY <1>2, <1>5 DEF Aims, RetryAims, Top
<1>6. CASE MethodEnds
  BY <1>2, <1>6, MethodLands
<1>7. CASE BlockEnds
  BY <1>2, <1>7, BlockLands
<1>8. CASE BlockEndsOrphan
  BY <1>2, <1>8, OrphanLands
<1>9. CASE SiteEnds \/ BuiltinEnds \/ CatchEnds
  BY <1>1, <1>2, <1>9, CallLands
<1>10. CASE BodyEnds
  <2>1. Over("begin") /\ Top.phase = "body" /\ Conclude(result, pending_exc, bang, {})
    BY <1>10 DEF BodyEnds, InPhase
  <2>2. signal.kind = "retry" => goal # Len(stack)
    BY <2>1, <1>5
  <2> QED
    BY <2>1, <2>2, <1>2, <1>3, ConcludeLands
<1>11. CASE BodyRaised
  BY <1>11 DEF BodyRaised
<1>12. CASE MatchEnds
  <2>1. When(signal # None, "signal") \subseteq strayed'
    BY <1>12 DEF MatchEnds, Conclude, Handle, LeaveBegin, Stray
  <2> QED
    BY <2>1 DEF When, Clear
<1>13. CASE MatchRaised
  <2>1. /\ Over("begin") /\ Top.phase = "match" /\ lexical' = lexical
        /\ LeaveBegin(result, When(Top.ensure, "clause"))
    BY <1>13 DEF MatchRaised, InPhase
  <2>2. signal.kind = "retry" => goal # Len(stack)
    BY <2>1, <1>5
  <2> QED
    BY <2>1, <2>2, <1>2, LeaveLands
<1>14. CASE RescueEnds
  <2>1. /\ Over("begin") /\ ~IsJump(signal, {"retry"})
        /\ Conclude(result, pending_exc, Top.prev, {})
    BY <1>14 DEF RescueEnds, InPhase
  <2>2. signal.kind # "retry" /\ Top.prev \in MaybeException
    BY <2>1, <1>4 DEF IsJump, BeginFrame
  <2> QED
    BY <2>1, <2>2, <1>2, ConcludeLands
<1>15. CASE RescueRetries
  <2>1. /\ Top.phase = "rescue" /\ signal.kind = "retry" /\ signal' = None
    BY <1>15 DEF RescueRetries, InPhase, IsJump, Signal
  <2>2. RetryAims(stack, goal)
    BY <2>1, <1>2 DEF Aims
  <2>3. Len(stack) \in Nat \ {0} /\ DOMAIN stack = 1..Len(stack) /\ stack[Len(stack)] = Top
    BY <1>2, BelowIs DEF TypeInv, Grounded, Top
  <2>4. goal = Len(stack)
    BY <2>1, <2>2, <2>3 DEF RetryAims
  <2> QED
    BY <2>1, <2>4, AtLen DEF Arrives
<1>16. CASE EnsureEnds
  <2> DEFINE r == IF IsErr(result) THEN result ELSE Top.saved
  <2>1. Over("begin") /\ Top.phase = "ensure" /\ LeaveBegin(r, {}) /\ lexical' = lexical
    BY <1>16 DEF EnsureEnds, InPhase
  <2>2. signal.kind = "retry" => goal # Len(stack)
    BY <2>1, <1>5
  <2>3. ~IsErr(result) /\ ~InEnsure(Top) => ~IsErr(r)
    BY <2>1 DEF InEnsure, Over
  <2> HIDE DEF r
  <2> QED
    BY <2>1, <2>2, <2>3, <1>2, LeaveLands
<1>17. CASE MainEnds \/ HandlerRuns \/ HandlerEnds \/ Finish
  BY <1>1, <1>2, <1>17, BottomLands
<1> QED
  BY <1>6, <1>7, <1>8, <1>9, <1>10, <1>11, <1>12, <1>13, <1>14, <1>15, <1>16, <1>17 DEF Epilogue

\* Without a jump on its way, the end of a call sends none out.
LEMMA QuietEpilogue ==
  ASSUME Epilogue, signal = None
  PROVE  signal' = None
<1>1. \A r : Answer(r, None) \/ AnswerCall(r, None) => signal' = None
  BY DEF AnswerCall, Answer, Signal
<1>2. \A r, marks : LeaveBegin(r, marks) => signal' = None
  BY <1>1 DEF LeaveBegin, Signal
<1>3. \A r, pe, b, marks : Conclude(r, pe, b, marks) => signal' = None
  BY <1>2 DEF Conclude
<1>4. \A r, x, marks : Handle(r, x, marks) => signal' = None
  BY DEF Handle
<1>5. \A ks : ~IsJump(signal, ks)
  BY DEF IsJump
<1>6. CASE \/ MethodEnds \/ BlockEnds \/ BlockEndsOrphan
           \/ SiteEnds \/ BuiltinEnds \/ CatchEnds
  BY <1>1, <1>5, <1>6
  DEF MethodEnds, BlockEnds, BlockEndsOrphan, SiteEnds, BuiltinEnds, CatchEnds
<1>7. CASE BodyEnds \/ BodyRaised \/ MatchEnds \/ MatchRaised
  BY <1>2, <1>3, <1>4, <1>7 DEF BodyEnds, BodyRaised, MatchEnds, MatchRaised
<1>8. CASE RescueEnds \/ RescueRetries \/ EnsureEnds
  BY <1>2, <1>3, <1>8 DEF RescueEnds, RescueRetries, EnsureEnds, Signal
<1>9. CASE MainEnds \/ HandlerRuns \/ HandlerEnds \/ Finish
  BY <1>9 DEF MainEnds, HandlerRuns, HandlerEnds, Finish, Signal
<1> QED
  BY <1>6, <1>7, <1>8, <1>9 DEF Epilogue

LEMMA StepAims ==
  TypeInv /\ IdInv /\ PartInv /\ ThrowInv /\ AimInv /\ [Next]_vars => AimInv'
<1> SUFFICES ASSUME TypeInv, IdInv, PartInv, ThrowInv, AimInv, [Next]_vars PROVE AimInv'
  OBVIOUS
<1>1. CASE ProgramStep
  BY <1>1, ProgramAims
<1>2. CASE Epilogue
  <2>1. CASE signal = None
    BY <1>2, <2>1, QuietEpilogue DEF AimInv
  <2>2. CASE signal # None
    BY <1>2, <2>2, EpilogueLands DEF AimInv, Arrives
  <2> QED
    BY <2>1, <2>2
<1>3. CASE Terminated \/ UNCHANGED vars
  BY <1>3 DEF Terminated, vars, control, AimInv, Clear
<1> QED
  BY <1>1, <1>2, <1>3 DEF Next

LEMMA AlwaysAims == Spec => []AimInv
<1>1. Init => AimInv
  BY DEF Init, AimInv
<1> QED
  BY <1>1, StepAims, AlwaysTyped, AlwaysIds, AlwaysParts, AlwaysThrow, PTL DEF Spec

\* No step of the program ends a jump.
LEMMA ProgramEndsNone ==
  ASSUME TypeInv, ProgramStep, signal # None
  PROVE  signal' # None
<1>1. CASE Leaps
  BY <1>1, NoneAssumption DEF Leaps, Leap
<1>2. CASE (\E fs : Enter(fs)) \/ Returns \/ Fails \/ End
  BY <1>2 DEF Enter, Returns, Fails, Fail, End
<1> QED
  BY <1>1, <1>2, ProgramStepIsMove DEF ProgramMove

\* A return, break, next, retry or throw stops where Ruby says it does, in
\* programs of any length and nesting, whatever clauses and calls it passes,
\* barring the marks "signal" and "taken".
THEOREM JumpsLand == Spec => JumpLands
<1>1. /\ TypeInv /\ ThrowInv /\ AimInv /\ [Next]_vars
      => [signal # None /\ signal' = None /\ strayed' \cap {"signal", "taken"} = {}
          => AtGoal]_vars
  <2> SUFFICES ASSUME TypeInv, ThrowInv, AimInv, Next,
                      signal # None, signal' = None, Clear'
               PROVE  AtGoal
    BY DEF Clear
  <2>1. ~ProgramStep /\ ~Terminated
    BY ProgramEndsNone DEF Terminated, vars, control
  <2>2. Arrives
    BY <2>1, EpilogueLands DEF Next
  <2> QED
    BY <2>2 DEF Arrives
<1> QED
  BY <1>1, AlwaysTyped, AlwaysThrow, AlwaysAims, PTL DEF Spec, JumpLands
=============================================================================
