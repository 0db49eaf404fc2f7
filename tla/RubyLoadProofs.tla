--------------------------- MODULE RubyLoadProofs ---------------------------
(***************************************************************************)
(* Theorems about RubyLoad: a file is required once, who is told that a    *)
(* file is loaded finds it so, a body runs the code that was asked for,    *)
(* in the file it was written in, and the tables hold what their types     *)
(* say.  They hold for any contexts, threads, files and bounds.            *)
(*                                                                         *)
(* The first three need the shapes of the tables only.  The last two need  *)
(* to know how high a file stack is: CountInv counts the bodies that       *)
(* pushed, NestInv says in which order the contexts of a thread wait for   *)
(* each other, and HeightInv where the file of each body is.               *)
(***************************************************************************)
EXTENDS RubyLoad, WellFoundedInduction, FiniteSetTheorems, TLAPS

-----------------------------------------------------------------------------
(* Sequences, whatever they hold.                                           *)

IsSequence(s) == \E S : s \in Seq(S)

LEMMA SequenceDomain ==
  ASSUME NEW s, IsSequence(s)
  PROVE  Len(s) \in Nat /\ DOMAIN s = 1..Len(s)
<1> PICK S : s \in Seq(S)
  BY DEF IsSequence
<1> QED
  OBVIOUS

LEMMA EmptyIsSequence == IsSequence(<<>>) /\ DOMAIN <<>> = {}
<1>1. <<>> \in Seq({})
  OBVIOUS
<1>2. IsSequence(<<>>)
  BY <1>1 DEF IsSequence
<1> QED
  BY <1>2

LEMMA SingletonIsSequence ==
  ASSUME NEW x
  PROVE  IsSequence(<<x>>) /\ DOMAIN <<x>> = {1} /\ <<x>>[1] = x
<1>1. <<x>> \in Seq({x})
  OBVIOUS
<1>2. IsSequence(<<x>>)
  BY <1>1 DEF IsSequence
<1> QED
  BY <1>1, <1>2

LEMMA AppendIsSequence ==
  ASSUME NEW s, NEW x, IsSequence(s)
  PROVE  /\ IsSequence(Append(s, x))
         /\ Len(Append(s, x)) = Len(s) + 1
         /\ DOMAIN Append(s, x) = DOMAIN s \cup {Len(s) + 1}
         /\ \A i \in DOMAIN s : Append(s, x)[i] = s[i]
         /\ Append(s, x)[Len(s) + 1] = x
<1> PICK S : s \in Seq(S)
  BY DEF IsSequence
<1>1. s \in Seq(S \cup {x})
  OBVIOUS
<1>2. Append(s, x) \in Seq(S \cup {x})
  BY <1>1
<1>3. IsSequence(Append(s, x))
  BY <1>2 DEF IsSequence
<1> QED
  BY <1>1, <1>2, <1>3

LEMMA FrontIsSequence ==
  ASSUME NEW s, IsSequence(s), s # <<>>
  PROVE  /\ IsSequence(Front(s))
         /\ DOMAIN s = DOMAIN Front(s) \cup {Len(s)}
         /\ \A i \in DOMAIN Front(s) : Front(s)[i] = s[i]
         /\ Len(s) \in DOMAIN s
<1> PICK S : s \in Seq(S)
  BY DEF IsSequence
<1>1. Front(s) \in Seq(S)
  BY DEF Front
<1>2. IsSequence(Front(s))
  BY <1>1 DEF IsSequence
<1>3. Len(s) \in Nat /\ DOMAIN s = 1..Len(s)
  OBVIOUS
<1>4. Len(s) # 0
  OBVIOUS
<1>5. Len(Front(s)) = Len(s) - 1 /\ DOMAIN Front(s) = 1..Len(s) - 1
  BY <1>3, <1>4 DEF Front
<1>6. \A i \in 1..Len(s) - 1 : Front(s)[i] = s[i]
  BY <1>3, <1>4 DEF Front
<1>7. 1..Len(s) = (1..Len(s) - 1) \cup {Len(s)} /\ Len(s) \in 1..Len(s)
  BY <1>3, <1>4
<1> QED
  BY <1>2, <1>3, <1>5, <1>6, <1>7

LEMMA UpdateIsSequence ==
  ASSUME NEW s, NEW x, IsSequence(s), NEW k \in DOMAIN s
  PROVE  /\ IsSequence([s EXCEPT ![k] = x])
         /\ DOMAIN [s EXCEPT ![k] = x] = DOMAIN s
         /\ [s EXCEPT ![k] = x] # <<>>
<1> PICK S : s \in Seq(S)
  BY DEF IsSequence
<1>1. s \in Seq(S \cup {x})
  OBVIOUS
<1>2. [s EXCEPT ![k] = x] \in Seq(S \cup {x})
  BY <1>1
<1>3. IsSequence([s EXCEPT ![k] = x])
  BY <1>2 DEF IsSequence
<1>4. DOMAIN [s EXCEPT ![k] = x] = DOMAIN s
  OBVIOUS
<1>5. DOMAIN <<>> = {}
  BY EmptyIsSequence
<1> QED
  BY <1>3, <1>4, <1>5

-----------------------------------------------------------------------------
(* The pool.                                                                *)

\* rposition finds one of the VMs filed under the identity, if there is any.
LEMMA LatestIsIn ==
  ASSUME NEW n \in Nat, NEW S, S \subseteq 1..n, S # {}
  PROVE  Latest(S) \in S
<1> DEFINE T == {i \in Nat : n - i \in S}
<1> DEFINE R == {ss \in Nat \X Nat : ss[1] < ss[2]}
<1>1. T # {}
  <2> PICK s \in S : TRUE
    OBVIOUS
  <2>1. n - s \in Nat /\ n - (n - s) = s
    OBVIOUS
  <2> QED
    BY <2>1
<1>2. \E x \in T : \A y \in T : ~(<<y, x>> \in R)
  <2>1. IsWellFoundedOn(R, Nat)
    BY NatLessThanWellFounded DEF OpToRel
  <2>2. T \subseteq Nat
    OBVIOUS
  <2> HIDE DEF T, R
  <2> QED
    BY <2>1, <2>2, <1>1, WFMin
<1>3. PICK x \in T : \A y \in T : ~(y < x)
  BY <1>2
<1>4. n - x \in S /\ \A j \in S : j <= n - x
  <2> SUFFICES ASSUME NEW j \in S PROVE j <= n - x
    OBVIOUS
  <2>1. n - j \in Nat /\ n - (n - j) = j
    OBVIOUS
  <2>2. n - j \in T
    BY <2>1
  <2>3. ~(n - j < x)
    BY <2>2, <1>3
  <2> QED
    BY <2>1, <2>3
<1> QED
  BY <1>4 DEF Latest

\* Taking a VM leaves no other VMs than there were.
LEMMA PoolKeepsOthers ==
  ASSUME NEW id, IsSequence(pool[running])
  PROVE  /\ IsSequence(PoolWithout(id))
         /\ \A i \in DOMAIN PoolWithout(id) :
              \E j \in DOMAIN pool[running] : PoolWithout(id)[i] = pool[running][j]
<1> DEFINE p == pool[running]
<1>1. CASE p = <<>>
  BY <1>1, EmptyIsSequence DEF PoolWithout
<1>2. CASE p # <<>> /\ Holding(id) = {}
  <2>1. PoolWithout(id) = Front(p)
    BY <1>2 DEF PoolWithout
  <2> QED
    BY <2>1, <1>2, FrontIsSequence
<1>3. CASE p # <<>> /\ Holding(id) # {}
  <2> DEFINE k == Latest(Holding(id))
             q == [p EXCEPT ![k] = Last(p)]
  <2>1. PoolWithout(id) = Front(q)
    BY <1>3 DEF PoolWithout
  <2>2. k \in DOMAIN p
    <3>1. Holding(id) \subseteq 1..Len(p) /\ Len(p) \in Nat
      BY SequenceDomain DEF Holding
    <3> QED
      BY <3>1, <1>3, LatestIsIn DEF Holding
  <2>3. IsSequence(q) /\ DOMAIN q = DOMAIN p /\ q # <<>>
    BY <2>2, UpdateIsSequence
  <2>4. /\ IsSequence(Front(q)) /\ DOMAIN Front(q) \subseteq DOMAIN p
        /\ \A i \in DOMAIN Front(q) : Front(q)[i] = q[i]
    BY <2>3, FrontIsSequence
  <2>5. Len(p) \in DOMAIN p
    BY <1>3, FrontIsSequence
  <2>6. \A i \in DOMAIN p : q[i] = p[i] \/ q[i] = p[Len(p)]
    BY DEF Last
  <2> QED
    BY <2>1, <2>4, <2>5, <2>6
<1> QED
  BY <1>1, <1>2, <1>3

-----------------------------------------------------------------------------
(* The steps, by what they do to the tables.                                *)

\* The chain of a thread holds contexts of its own, and what runs is in one.
ChainShape ==
  /\ running \in Threads
  /\ chain \in [Threads -> Seq(Contexts)]
  /\ chain[running] # <<>>
  /\ \A t \in Threads : \A i \in DOMAIN chain[t] : On[chain[t][i]] = t

Shapes ==
  /\ features \subseteq Loadable
  /\ IsSequence(procs)
  /\ DOMAIN pool = Threads
  /\ \A t \in Threads : IsSequence(pool[t])
  /\ DOMAIN stack = Contexts
  /\ \A c \in Contexts : IsSequence(stack[c])
  /\ ChainShape
  /\ programs \in Nat
  /\ started \in [Loadable -> Nat]

\* A file runs that require has just recorded, or that load was asked for.
Runs(f, require) ==
  /\ Run(f, require, IF require THEN Record(f) ELSE features)
  /\ require => f \notin features

\* A call that starts and ends no body.
Talks ==
  /\ Quiet
  /\ UNCHANGED <<features, programs>>
  /\ answer' = NoAnswer \/ answer'.file \in features

LEMMA StepIs ==
  ASSUME Next
  PROVE  \/ Busy /\ \E f \in Loadable, require \in BOOLEAN : Runs(f, require)
         \/ Busy /\ Talks
         \/ Busy /\ \E b \in blocks : Call(b)
         \/ Busy /\ \E raised \in BOOLEAN : End(raised)
         \/ Switch
         \/ StartRun
<1>1. ASSUME NEW f \in Loadable, RequireNew(f)
      PROVE  \E require \in BOOLEAN : Runs(f, require)
  BY <1>1 DEF RequireNew, Runs
<1>2. ASSUME NEW f, NEW says, RequireAgain(f, says) PROVE Talks
  BY <1>2 DEF RequireAgain, Talks, Answer
<1>3. ASSUME NEW f, RequireInvalid(f) PROVE Talks
  BY <1>3 DEF RequireInvalid, Talks
<1>4. ASSUME NEW f \in Files, Load(f)
      PROVE  \E require \in BOOLEAN : Runs(f, require)
  BY <1>4 DEF Load, Runs
<1>5. ASSUME NEW f, Autoload(f) PROVE Talks
  BY <1>5 DEF Autoload, Talks
<1>6. ASSUME Define PROVE Talks
  BY <1>6 DEF Define, Talks
<1>7. Files \subseteq Loadable
  BY DEF Loadable
<1>8. ASSUME NEW f, Require(f) PROVE RequireNew(f) \/ RequireAgain(f, "loaded") \/ RequireInvalid(f)
  BY <1>8 DEF Require
<1>9. ASSUME NEW f, ReadConst(f) PROVE RequireNew(f) \/ RequireAgain(f, "missing") \/ RequireInvalid(f)
  BY <1>9 DEF ReadConst
<1>10. CASE RubyStep
  <2>1. \/ \E f \in Loadable : Require(f)
        \/ \E f \in Files : Load(f) \/ Autoload(f) \/ ReadConst(f)
        \/ Define
        \/ \E b \in blocks : Call(b)
        \/ \E raised \in BOOLEAN : End(raised)
    BY <1>10 DEF RubyStep
  <2>2. Busy
    BY <1>10 DEF RubyStep
  <2>3. CASE \E f \in Loadable : Require(f)
    BY <2>2, <2>3, <1>8, <1>1, <1>2, <1>3
  <2>4. CASE \E f \in Files : Load(f) \/ Autoload(f) \/ ReadConst(f)
    BY <2>2, <2>4, <1>9, <1>1, <1>2, <1>3, <1>4, <1>5, <1>7
  <2>5. CASE Define
    BY <2>2, <2>5, <1>6
  <2> QED
    BY <2>1, <2>2, <2>3, <2>4, <2>5
<1> QED
  BY <1>10 DEF Next

\* What Enter does to the stack and the pool.
LEMMA EnterShapes ==
  ASSUME Shapes, NEW c \in Contexts,
         NEW id, NEW fetched, NEW wanted, NEW file, NEW pushed, NEW loads, NEW require,
         Enter(c, id, fetched, wanted, file, pushed, loads, require)
  PROVE  /\ DOMAIN pool' = Threads /\ \A t \in Threads : IsSequence(pool'[t])
         /\ DOMAIN stack' = Contexts /\ \A d \in Contexts : IsSequence(stack'[d])
         /\ \A d \in Contexts \ {c} : stack'[d] = stack[d]
         /\ DOMAIN stack'[c] = DOMAIN stack[c] \cup {Len(stack[c]) + 1}
         /\ \A k \in DOMAIN stack[c] : stack'[c][k] = stack[c][k]
         /\ stack'[c][Len(stack[c]) + 1] =
              [id |-> id, runs |-> ChunkFor(id, fetched), wanted |-> wanted, file |-> file,
               pushed |-> pushed, loads |-> loads, require |-> require]
         /\ \A t \in Threads : \A k \in DOMAIN pool'[t] :
              \E j \in DOMAIN pool[t] : pool'[t][k] = pool[t][j]
<1> DEFINE x == [id |-> id, runs |-> ChunkFor(id, fetched), wanted |-> wanted, file |-> file,
                 pushed |-> pushed, loads |-> loads, require |-> require]
<1>1. stack' = [stack EXCEPT ![c] = Append(@, x)] /\ pool' = [pool EXCEPT ![running] = PoolWithout(id)]
  BY DEF Enter
<1> HIDE DEF x
<1>2. DOMAIN stack' = Contexts /\ DOMAIN pool' = Threads
  BY <1>1 DEF Shapes
<1>3. stack'[c] = Append(stack[c], x) /\ \A d \in Contexts \ {c} : stack'[d] = stack[d]
  BY <1>1 DEF Shapes
<1>4. pool'[running] = PoolWithout(id) /\ \A t \in Threads \ {running} : pool'[t] = pool[t]
  BY <1>1 DEF Shapes, ChainShape
<1>5. /\ IsSequence(PoolWithout(id))
      /\ \A i \in DOMAIN PoolWithout(id) :
           \E j \in DOMAIN pool[running] : PoolWithout(id)[i] = pool[running][j]
  BY PoolKeepsOthers DEF Shapes, ChainShape
<1>6. \A t \in Threads : IsSequence(pool'[t])
  BY <1>4, <1>5 DEF Shapes
<1>7. \A t \in Threads : \A k \in DOMAIN pool'[t] :
        \E j \in DOMAIN pool[t] : pool'[t][k] = pool[t][j]
  BY <1>4, <1>5
<1>8. IsSequence(stack[c])
  BY DEF Shapes
<1>9. \A d \in Contexts : IsSequence(stack'[d])
  <2>1. IsSequence(Append(stack[c], x))
    BY <1>8, AppendIsSequence
  <2>2. \A d \in Contexts \ {c} : IsSequence(stack'[d])
    BY <1>3 DEF Shapes
  <2> QED
    BY <1>3, <2>1, <2>2
<1>10. /\ DOMAIN stack'[c] = DOMAIN stack[c] \cup {Len(stack[c]) + 1}
       /\ \A k \in DOMAIN stack[c] : stack'[c][k] = stack[c][k]
       /\ stack'[c][Len(stack[c]) + 1] = x
  BY <1>3, <1>8, AppendIsSequence
<1> QED
  BY <1>2, <1>3, <1>6, <1>7, <1>9, <1>10 DEF x

-----------------------------------------------------------------------------
(* Shapes is kept.                                                          *)

LEMMA NoneRunsShape ==
  /\ On[Main] \in Threads
  /\ NoneRuns \in [Threads -> Seq(Contexts)]
  /\ NoneRuns[On[Main]] # <<>>
  /\ \A t \in Threads : \A i \in DOMAIN NoneRuns[t] : On[NoneRuns[t][i]] = t
<1>1. On[Main] \in Threads /\ Main \in Contexts
  BY LoadAssumption DEF Threads
<1>2. <<Main>> \in Seq(Contexts) /\ <<>> \in Seq(Contexts)
  BY <1>1
<1>3. \A t \in Threads : NoneRuns[t] = IF t = On[Main] THEN <<Main>> ELSE <<>>
  BY DEF NoneRuns
<1>4. NoneRuns \in [Threads -> Seq(Contexts)]
  BY <1>2 DEF NoneRuns
<1>5. ASSUME NEW t \in Threads, NEW i \in DOMAIN NoneRuns[t]
      PROVE  On[NoneRuns[t][i]] = t
  <2>1. CASE t = On[Main]
    <3>1. NoneRuns[t] = <<Main>>
      BY <1>3, <2>1
    <3> QED
      BY <2>1, <3>1, <1>5, SingletonIsSequence
  <2>2. CASE t # On[Main]
    BY <1>3, <2>2, <1>5, EmptyIsSequence
  <2> QED
    BY <2>1, <2>2
<1>6. NoneRuns[On[Main]] # <<>>
  BY <1>1, <1>3
<1> QED
  BY <1>1, <1>4, <1>5, <1>6

LEMMA ShapesInit == Init => Shapes
<1> SUFFICES ASSUME Init PROVE Shapes
  OBVIOUS
<1>1. ChainShape
  BY NoneRunsShape DEF Init, ChainShape
<1>2. running \in Threads
  BY <1>1 DEF ChainShape
<1>3. IsSequence(<<>>)
  BY EmptyIsSequence
<1> QED
  BY <1>1, <1>2, <1>3 DEF Init, Shapes, NoneStarted

\* The code that runs is that of some context.
LEMMA SelfIsContext ==
  ASSUME Shapes
  PROVE  /\ me \in Contexts /\ On[me] = running
         /\ IsSequence(stack[me]) /\ IsSequence(pool[running])
         /\ running \in Threads
<1>1. chain[running] \in Seq(Contexts) /\ chain[running] # <<>>
  BY DEF Shapes, ChainShape
<1>2. Len(chain[running]) \in DOMAIN chain[running]
  BY <1>1
<1>3. me = chain[running][Len(chain[running])]
  BY DEF me, Active, Last
<1>4. me \in Contexts
  BY <1>1, <1>2, <1>3
<1> QED
  BY <1>2, <1>3, <1>4 DEF Shapes, ChainShape

\* A context of the thread is added to its chain, or its last one removed.
LEMMA ChainGrows ==
  ASSUME ChainShape, NEW c \in Contexts, On[c] = running,
         chain' = [chain EXCEPT ![running] = Append(@, c)], UNCHANGED running
  PROVE  ChainShape'
<1> DEFINE s == chain[running]
           r == Append(s, c)
<1>1. s \in Seq(Contexts)
  BY DEF ChainShape
<1>2. r \in Seq(Contexts)
  BY <1>1
<1>0. IsSequence(s)
  BY <1>1 DEF IsSequence
<1>3. r # <<>> /\ \A i \in DOMAIN r : (i \in DOMAIN s /\ r[i] = s[i]) \/ r[i] = c
  <2>1. /\ DOMAIN r = DOMAIN s \cup {Len(s) + 1}
        /\ \A i \in DOMAIN s : r[i] = s[i]
        /\ r[Len(s) + 1] = c
    BY <1>0, AppendIsSequence
  <2> HIDE DEF r, s
  <2> QED
    BY <2>1, EmptyIsSequence
<1>4. chain'[running] = r /\ \A t \in Threads \ {running} : chain'[t] = chain[t]
  BY DEF ChainShape
<1>5. chain' \in [Threads -> Seq(Contexts)]
  BY <1>2 DEF ChainShape
<1> HIDE DEF r
<1>6. ASSUME NEW t \in Threads, NEW i \in DOMAIN chain'[t]
      PROVE  On[chain'[t][i]] = t
  BY <1>3, <1>4, <1>6 DEF ChainShape
<1> QED
  BY <1>3, <1>4, <1>5, <1>6 DEF ChainShape

LEMMA ChainShrinks ==
  ASSUME ChainShape, Len(chain[running]) > 1,
         chain' = [chain EXCEPT ![running] = Front(@)], UNCHANGED running
  PROVE  ChainShape'
<1> DEFINE s == chain[running]
           r == Front(s)
<1>1. s \in Seq(Contexts)
  BY DEF ChainShape
<1>2. r \in Seq(Contexts)
  BY <1>1 DEF Front
<1>0. IsSequence(s) /\ s # <<>> /\ 1 \in 1..Len(s) - 1
  BY <1>1 DEF IsSequence
<1>3. r # <<>> /\ \A i \in DOMAIN r : i \in DOMAIN s /\ r[i] = s[i]
  <2>1. /\ DOMAIN s = DOMAIN r \cup {Len(s)}
        /\ \A i \in DOMAIN r : r[i] = s[i]
    BY <1>0, FrontIsSequence
  <2>2. 1 \in DOMAIN r
    BY <1>0, <2>1, SequenceDomain
  <2> QED
    BY <2>1, <2>2, EmptyIsSequence
<1>4. chain'[running] = r /\ \A t \in Threads \ {running} : chain'[t] = chain[t]
  BY DEF ChainShape
<1>5. chain' \in [Threads -> Seq(Contexts)]
  BY <1>2 DEF ChainShape
<1> HIDE DEF r
<1>6. ASSUME NEW t \in Threads, NEW i \in DOMAIN chain'[t]
      PROVE  On[chain'[t][i]] = t
  BY <1>3, <1>4, <1>6 DEF ChainShape
<1> QED
  BY <1>3, <1>4, <1>5, <1>6 DEF ChainShape

LEMMA SwitchKeepsChain ==
  ASSUME ChainShape, Switch
  PROVE  ChainShape'
<1>1. ASSUME NEW t \in Threads, SwitchThread(t) PROVE ChainShape'
  BY <1>1 DEF SwitchThread, ChainShape
<1>2. ASSUME NEW c \in Contexts, NEW b \in blocks, StartThread(c, b) PROVE ChainShape'
  <2>1. On[c] \in Threads /\ <<c>> \in Seq(Contexts)
    BY DEF Threads
  <2>2. running' = On[c] /\ chain' = [chain EXCEPT ![On[c]] = <<c>>]
    BY <1>2 DEF StartThread
  <2>3. <<c>> # <<>> /\ DOMAIN <<c>> = {1} /\ <<c>>[1] = c
    BY SingletonIsSequence, EmptyIsSequence
  <2>4. /\ chain' \in [Threads -> Seq(Contexts)] /\ chain'[On[c]] = <<c>>
        /\ \A t \in Threads \ {On[c]} : chain'[t] = chain[t]
    BY <2>1, <2>2 DEF ChainShape
  <2>5. ASSUME NEW t \in Threads, NEW i \in DOMAIN chain'[t]
        PROVE  On[chain'[t][i]] = t
    <3>1. CASE t = On[c]
      BY <3>1, <2>3, <2>4, <2>5
    <3>2. CASE t # On[c]
      BY <3>2, <2>4, <2>5 DEF ChainShape
    <3> QED
      BY <3>1, <3>2
  <2> QED
    BY <2>1, <2>2, <2>3, <2>4, <2>5 DEF ChainShape
<1>3. ASSUME NEW c \in Contexts, NEW b \in blocks, StartFiber(c, b) PROVE ChainShape'
  BY <1>3, ChainGrows DEF StartFiber
<1>4. ASSUME NEW c \in Contexts, Resume(c) PROVE ChainShape'
  <2>1. chain' = [chain EXCEPT ![running] = Append(@, c)] /\ On[c] = running /\ UNCHANGED running
    BY <1>4 DEF Resume, SwitchTo
  <2> QED
    BY <2>1, ChainGrows
<1>5. CASE Yield \/ EndFiber
  <2>1. /\ Len(chain[running]) > 1 /\ UNCHANGED running
        /\ chain' = [chain EXCEPT ![running] = Front(@)]
    BY <1>5 DEF Yield, EndFiber, GivesBack, SwitchTo
  <2> QED
    BY <2>1, ChainShrinks
<1> QED
  BY <1>1, <1>2, <1>3, <1>4, <1>5 DEF Switch

LEMMA ChainStep ==
  ASSUME ChainShape, [Next]_vars
  PROVE  ChainShape'
<1>0. CASE UNCHANGED vars
  BY <1>0 DEF vars, ChainShape
<1>1. ASSUME NEW f \in Loadable, NEW require \in BOOLEAN, Runs(f, require)
      PROVE  ChainShape'
  BY <1>1 DEF Runs, Run, ChainShape
<1>2. CASE Talks
  BY <1>2 DEF Talks, Quiet, ChainShape
<1>3. ASSUME NEW b \in blocks, Call(b) PROVE ChainShape'
  BY <1>3 DEF Call, ChainShape
<1>4. ASSUME NEW raised \in BOOLEAN, End(raised) PROVE ChainShape'
  BY <1>4 DEF End, ChainShape
<1>5. CASE StartRun
  <2>1. running = On[Main] /\ UNCHANGED running /\ chain' = NoneRuns
    BY <1>5 DEF StartRun
  <2>2. running' = On[Main]
    BY <2>1
  <2> QED
    BY <2>1, <2>2, NoneRunsShape DEF ChainShape
<1> QED
  BY <1>0, <1>1, <1>2, <1>3, <1>4, <1>5, SwitchKeepsChain, StepIs

LEMMA ShapesStep ==
  ASSUME Shapes, [Next]_vars
  PROVE  Shapes'
<1>c. ChainShape'
  BY ChainStep DEF Shapes
<1>0. CASE UNCHANGED vars
  BY <1>c, <1>0 DEF vars, host, history, Shapes
<1>1. ASSUME NEW f \in Loadable, NEW require \in BOOLEAN, Runs(f, require)
      PROVE  Shapes'
  <2> DEFINE file == IF f \in Files THEN f ELSE CurrentFile
             p == [code |-> programs', file |-> file]
  <2>1. /\ features' \subseteq Loadable
        /\ programs' \in Nat
        /\ started' \in [Loadable -> Nat]
    BY <1>1 DEF Runs, Run, Record, Compiles, Shapes
  <2>2. procs' = Append(procs, p)
    BY <1>1 DEF Runs, Run, Merge
  <2>3. IsSequence(procs')
    BY <2>2, AppendIsSequence DEF Shapes
  <2>4. PICK pushed : Enter(me, NoId, programs', programs', file, pushed, f, require)
    BY <1>1 DEF Runs, Run
  <2>5. /\ DOMAIN pool' = Threads /\ \A t \in Threads : IsSequence(pool'[t])
        /\ DOMAIN stack' = Contexts /\ \A d \in Contexts : IsSequence(stack'[d])
    BY <2>4, SelfIsContext, EnterShapes
  <2> QED
    BY <1>c, <2>1, <2>3, <2>5 DEF Shapes
<1>2. CASE Talks
  BY <1>c, <1>2 DEF Talks, Quiet, Shapes
<1>3. ASSUME NEW c \in Contexts, NEW b \in blocks, CallBlock(c, b)
      PROVE  Shapes'
  <2>1. PICK file, pushed :
          Enter(c, b.id, procs[b.id].code, b.program, file, pushed, NoFile, FALSE)
    BY <1>3 DEF CallBlock
  <2>2. /\ DOMAIN pool' = Threads /\ \A t \in Threads : IsSequence(pool'[t])
        /\ DOMAIN stack' = Contexts /\ \A d \in Contexts : IsSequence(stack'[d])
    BY <2>1, EnterShapes
  <2>3. UNCHANGED <<features, procs, programs, started>>
    BY <1>3 DEF CallBlock, host
  <2> QED
    BY <1>c, <2>2, <2>3 DEF Shapes
<1>4. ASSUME NEW raised \in BOOLEAN, Busy, End(raised)
      PROVE  Shapes'
  <2>1. UNCHANGED <<features, procs, programs, started>>
    BY <1>4 DEF End, host
  <2>2. IsSequence(Front(stack[me]))
    BY <1>4, SelfIsContext, FrontIsSequence DEF Busy
  <2>3. DOMAIN stack' = Contexts /\ \A c \in Contexts : IsSequence(stack'[c])
    BY <1>4, <2>2 DEF End, Shapes
  <2>4. PICK vm : pool' = [pool EXCEPT ![running] = PutBack(vm)]
    BY <1>4 DEF End
  <2>5. IsSequence(PutBack(vm))
    BY SelfIsContext, AppendIsSequence DEF PutBack
  <2>6. DOMAIN pool' = Threads /\ \A t \in Threads : IsSequence(pool'[t])
    BY <2>4, <2>5, SelfIsContext DEF Shapes
  <2> QED
    BY <1>c, <2>1, <2>3, <2>6 DEF Shapes
<1>5. CASE Switch
  <2>1. ASSUME NEW t \in Threads, SwitchThread(t) PROVE Shapes'
    BY <1>c, <2>1 DEF SwitchThread, host, Shapes
  <2>2. ASSUME NEW c \in Contexts, NEW b \in blocks, StartThread(c, b) PROVE Shapes'
    <3>1. UNCHANGED <<features, procs, programs, started>>
      BY <2>2 DEF StartThread, host
    <3>4. pool' = [pool EXCEPT ![On[c]] = <<>>]
      BY <2>2 DEF StartThread
    <3>5. PICK x : stack' = [stack EXCEPT ![c] = <<x>>]
      BY <2>2 DEF StartThread
    <3>6. IsSequence(<<>>) /\ IsSequence(<<x>>)
      BY EmptyIsSequence, SingletonIsSequence
    <3>7. DOMAIN pool' = Threads /\ \A t \in Threads : IsSequence(pool'[t])
      BY <3>4, <3>6 DEF Shapes
    <3>8. DOMAIN stack' = Contexts /\ \A d \in Contexts : IsSequence(stack'[d])
      BY <3>5, <3>6 DEF Shapes
    <3> QED
      BY <1>c, <3>1, <3>7, <3>8 DEF Shapes
  <2>3. ASSUME NEW c \in Contexts, NEW b \in blocks, StartFiber(c, b) PROVE Shapes'
    BY <2>3, <1>3 DEF StartFiber
  <2>4. ASSUME NEW c \in Contexts, Resume(c) PROVE Shapes'
    BY <1>c, <2>4 DEF Resume, SwitchTo, host, Shapes
  <2>5. CASE Yield \/ EndFiber
    BY <1>c, <2>5 DEF Yield, EndFiber, SwitchTo, host, Shapes
  <2> QED
    BY <1>5, <2>1, <2>2, <2>3, <2>4, <2>5 DEF Switch
<1>6. CASE StartRun
  <2>1. /\ features' = {} /\ pool' = [t \in Threads |-> <<>>]
        /\ UNCHANGED running
        /\ started' = [f \in Loadable |-> 0]
    BY <1>6 DEF StartRun, PoolsReset, NoneStarted
  <2>2. programs' \in Nat
    BY <1>6 DEF StartRun, Compiles, Shapes
  <2>3. PICK x, y : procs' = <<x>>
                    /\ stack' = [c \in Contexts |-> IF c = Main THEN <<y>> ELSE <<>>]
    BY <1>6 DEF StartRun
  <2>4. IsSequence(<<>>) /\ IsSequence(<<x>>) /\ IsSequence(<<y>>)
    BY EmptyIsSequence, SingletonIsSequence
  <2> QED
    BY <1>c, <2>1, <2>2, <2>3, <2>4 DEF Shapes
<1>7. ASSUME NEW b \in blocks, Call(b) PROVE Shapes'
  BY <1>7, <1>3, SelfIsContext DEF Call
<1> QED
  BY <1>0, <1>1, <1>2, <1>4, <1>5, <1>6, <1>7, StepIs

-----------------------------------------------------------------------------
(* A file is required once.                                                 *)

OnceInv ==
  \A f \in Loadable : started[f] <= 1 /\ (f \notin features => started[f] = 0)

LEMMA OnceStep ==
  ASSUME Shapes, OnceInv, [Next]_vars
  PROVE  OnceInv'
<1>0. CASE UNCHANGED vars
  BY <1>0 DEF vars, host, history, OnceInv
<1>1. ASSUME NEW f \in Loadable, NEW require \in BOOLEAN, Runs(f, require)
      PROVE  OnceInv'
  <2>1. CASE require
    <3>1. /\ f \notin features
          /\ features' = features \cup {f}
          /\ started' = [started EXCEPT ![f] = @ + 1]
      BY <1>1, <2>1 DEF Runs, Run, Record
    <3> QED
      BY <3>1 DEF OnceInv, Shapes
  <2>2. CASE ~require
    BY <1>1, <2>2 DEF Runs, Run, OnceInv
  <2> QED
    BY <2>1, <2>2
<1>2. CASE Talks
  BY <1>2 DEF Talks, Quiet, OnceInv
<1>3. ASSUME NEW b \in blocks, Call(b) PROVE OnceInv'
  BY <1>3 DEF Call, CallBlock, host, OnceInv
<1>4. ASSUME NEW raised \in BOOLEAN, End(raised) PROVE OnceInv'
  BY <1>4 DEF End, host, OnceInv
<1>5. CASE Switch
  <2>1. UNCHANGED <<features, started>>
    BY <1>5 DEF Switch, SwitchThread, StartThread, StartFiber, CallBlock, Resume, Yield,
                EndFiber, SwitchTo, host
  <2> QED
    BY <2>1 DEF OnceInv
<1>6. CASE StartRun
  BY <1>6 DEF StartRun, NoneStarted, OnceInv
<1> QED
  BY <1>0, <1>1, <1>2, <1>3, <1>4, <1>5, <1>6, StepIs

\* Through circles, autoloads, failing bodies and any number of threads, no
\* require starts a file a second time.
THEOREM RunsOnce == Spec => []LoadsOnce
<1>1. Init => OnceInv
  BY DEF Init, OnceInv, NoneStarted
<1>2. OnceInv => LoadsOnce
  BY DEF OnceInv, LoadsOnce
<1> QED
  BY <1>1, <1>2, ShapesInit, ShapesStep, OnceStep, PTL DEF Spec

-----------------------------------------------------------------------------
(* Who is told that a file is loaded finds it so.                           *)

AnswerInv ==
  /\ answer # NoAnswer => answer.file \in features
  /\ ~interrupted => features \subseteq ended \cup Loading(me)

LEMMA AnswerStep ==
  ASSUME Shapes, AnswerInv, [Next]_vars
  PROVE  AnswerInv'
<1>m. me \in Contexts /\ IsSequence(stack[me])
  BY SelfIsContext
<1>0. CASE UNCHANGED vars
  BY <1>0 DEF vars, host, history, AnswerInv, Loading, me, Active
<1>1. ASSUME NEW f \in Loadable, NEW require \in BOOLEAN, Runs(f, require)
      PROVE  AnswerInv'
  <2>1. /\ features' \subseteq features \cup {f}
        /\ answer' = NoAnswer
        /\ me' = me
        /\ UNCHANGED <<ended, interrupted>>
    BY <1>1 DEF Runs, Run, Record, me, Active
  <2>2. PICK n, file, pushed : Enter(me, NoId, n, n, file, pushed, f, require)
    BY <1>1 DEF Runs, Run
  <2>3. /\ DOMAIN stack'[me] = DOMAIN stack[me] \cup {Len(stack[me]) + 1}
        /\ \A k \in DOMAIN stack[me] : stack'[me][k] = stack[me][k]
        /\ stack'[me][Len(stack[me]) + 1] =
             [id |-> NoId, runs |-> ChunkFor(NoId, n), wanted |-> n, file |-> file,
              pushed |-> pushed, loads |-> f, require |-> require]
    BY <1>m, <2>2, EnterShapes
  <2>4. f # NoFile
    BY LoadAssumption DEF Loadable
  <2>5. Loading(me) \cup {f} \subseteq Loading(me)'
    BY <2>1, <2>3, <2>4 DEF Loading
  <2> QED
    BY <2>1, <2>5 DEF AnswerInv
<1>2. CASE Talks
  <2>1. /\ features' = features /\ Loading(me)' = Loading(me)
        /\ UNCHANGED <<ended, interrupted>>
    BY <1>2 DEF Talks, Quiet, Loading, me, Active
  <2>2. answer' # NoAnswer => answer'.file \in features
    BY <1>2 DEF Talks
  <2> QED
    BY <2>1, <2>2 DEF AnswerInv, NoAnswer
<1>3. ASSUME NEW b \in blocks, Call(b) PROVE AnswerInv'
  <2>1. /\ features' = features
        /\ answer' = NoAnswer
        /\ me' = me
        /\ UNCHANGED <<ended, interrupted>>
    BY <1>3 DEF Call, CallBlock, host, me, Active
  <2>2. PICK file, pushed :
          Enter(me, b.id, procs[b.id].code, b.program, file, pushed, NoFile, FALSE)
    BY <1>3 DEF Call, CallBlock
  <2>3. /\ DOMAIN stack'[me] = DOMAIN stack[me] \cup {Len(stack[me]) + 1}
        /\ \A k \in DOMAIN stack[me] : stack'[me][k] = stack[me][k]
    BY <1>m, <2>2, EnterShapes
  <2>4. Loading(me) \subseteq Loading(me)'
    BY <2>1, <2>3 DEF Loading
  <2> QED
    BY <2>1, <2>4 DEF AnswerInv
<1>4. ASSUME NEW raised \in BOOLEAN, Busy, End(raised) PROVE AnswerInv'
  <2>1. /\ features' = features
        /\ answer' = NoAnswer
        /\ me' = me
        /\ ended' = ended \cup ({Body.loads} \ {NoFile})
        /\ UNCHANGED interrupted
    BY <1>4 DEF End, host, me, Active
  <2>2. stack'[me] = Front(stack[me])
    BY <1>4, <1>m DEF End, Shapes
  <2>3. /\ DOMAIN stack[me] = DOMAIN Front(stack[me]) \cup {Len(stack[me])}
        /\ \A i \in DOMAIN Front(stack[me]) : Front(stack[me])[i] = stack[me][i]
    BY <1>4, <1>m, FrontIsSequence DEF Busy
  <2>4. Body.loads = stack[me][Len(stack[me])].loads
    BY DEF Body, Last
  <2>5. Loading(me) \subseteq Loading(me)' \cup ({Body.loads} \ {NoFile})
    BY <2>1, <2>2, <2>3, <2>4 DEF Loading
  <2> QED
    BY <2>1, <2>5 DEF AnswerInv
<1>5. CASE Switch
  <2>1. /\ UNCHANGED <<features, ended>>
        /\ answer' = NoAnswer
        /\ interrupted' = (interrupted \/ Loading(me) # {})
    BY <1>5 DEF Switch, SwitchThread, StartThread, StartFiber, CallBlock, Resume, Yield,
                EndFiber, SwitchTo, host, Interrupts
  <2> QED
    BY <2>1 DEF AnswerInv
<1>6. CASE StartRun
  BY <1>6 DEF StartRun, AnswerInv
<1> QED
  BY <1>0, <1>1, <1>2, <1>3, <1>4, <1>5, <1>6, StepIs

\* Unless some thread or fiber lost control in the middle of a file, `false` from
\* require and a constant that stays missing mean that the body has come to its
\* end, if only by an exception, or that its own code asks.
THEOREM LoadedMeansLoaded == Spec => []AnswersLoaded
<1>1. Init => AnswerInv
  BY DEF Init, AnswerInv
<1>2. AnswerInv => AnswersLoaded
  BY DEF AnswerInv, AnswersLoaded
<1> QED
  BY <1>1, <1>2, ShapesInit, ShapesStep, AnswerStep, PTL DEF Spec

-----------------------------------------------------------------------------
(* A body runs the code that was asked for.                                 *)

\* An identity names a template, and who has it holds the template's code.
Filed(id, code) == id = NoId \/ (id \in 1..Len(procs) /\ code = procs[id].code)

BlocksAreFiled ==
  \A b \in blocks : b.id \in 1..Len(procs) /\ b.program = procs[b.id].code

PoolIsFiled ==
  \A t \in Threads : \A k \in DOMAIN pool[t] : Filed(pool[t][k].id, pool[t][k].code)

BodyIsFiled(x) == x.runs = x.wanted /\ Filed(x.id, x.runs)

StackIsFiled == \A c \in Contexts : \A k \in DOMAIN stack[c] : BodyIsFiled(stack[c][k])

CodeInv == BlocksAreFiled /\ PoolIsFiled /\ StackIsFiled

\* A VM out of the pool holds what the host would have fetched.
LEMMA PooledOrFetched ==
  ASSUME Shapes, PoolIsFiled, NEW id, NEW fetched, Filed(id, fetched)
  PROVE  ChunkFor(id, fetched) = fetched
<1>1. CASE Holding(id) = {}
  BY <1>1 DEF ChunkFor
<1>2. CASE Holding(id) # {}
  <2> DEFINE k == Latest(Holding(id))
  <2>1. Holding(id) \subseteq 1..Len(pool[running]) /\ Len(pool[running]) \in Nat
    BY SelfIsContext, SequenceDomain DEF Holding
  <2>2. k \in Holding(id)
    BY <1>2, <2>1, LatestIsIn
  <2>3. k \in DOMAIN pool[running] /\ id # NoId /\ pool[running][k].id = id
    BY <2>2 DEF Holding, Same
  <2>4. pool[running][k].code = procs[id].code
    BY <2>3, SelfIsContext DEF PoolIsFiled, Filed
  <2> QED
    BY <1>2, <2>3, <2>4 DEF ChunkFor, Filed
<1> QED
  BY <1>1, <1>2

\* More templates leave those there were where they are.
LEMMA MergeKeepsFiled ==
  ASSUME Shapes, NEW p, procs' = Append(procs, p), NEW id, NEW code, Filed(id, code)
  PROVE  Filed(id, code)'
<1>1. /\ DOMAIN procs = 1..Len(procs) /\ Len(procs) \in Nat
      /\ Len(procs') = Len(procs) + 1
      /\ \A i \in DOMAIN procs : procs'[i] = procs[i]
  BY SequenceDomain, AppendIsSequence DEF Shapes
<1> QED
  BY <1>1 DEF Filed

\* Entering a body that is filed keeps the code where it belongs.
LEMMA EnterKeepsCode ==
  ASSUME Shapes, PoolIsFiled, StackIsFiled, NEW c \in Contexts, NEW id, NEW code,
         NEW file, NEW pushed, NEW loads, NEW require,
         Enter(c, id, code, code, file, pushed, loads, require),
         ChunkFor(id, code) = code,
         \A i, d : Filed(i, d) => Filed(i, d)', Filed(id, code)'
  PROVE  PoolIsFiled' /\ StackIsFiled'
<1>1. PoolIsFiled'
  <2>1. \A t \in Threads : \A k \in DOMAIN pool'[t] :
          \E j \in DOMAIN pool[t] : pool'[t][k] = pool[t][j]
    BY EnterShapes
  <2> SUFFICES ASSUME NEW t \in Threads, NEW k \in DOMAIN pool'[t]
               PROVE  Filed(pool[t][k].id, pool[t][k].code)'
    BY DEF PoolIsFiled
  <2>2. PICK j \in DOMAIN pool[t] : pool'[t][k] = pool[t][j]
    BY <2>1
  <2>3. Filed(pool[t][j].id, pool[t][j].code)
    BY DEF PoolIsFiled
  <2> QED
    BY <2>2, <2>3 DEF Filed
<1>2. StackIsFiled'
  <2> SUFFICES ASSUME NEW d \in Contexts, NEW k \in DOMAIN stack'[d]
               PROVE  BodyIsFiled(stack[d][k])'
    BY DEF StackIsFiled
  <2>1. /\ \A e \in Contexts \ {c} : stack'[e] = stack[e]
        /\ DOMAIN stack'[c] = DOMAIN stack[c] \cup {Len(stack[c]) + 1}
        /\ \A i \in DOMAIN stack[c] : stack'[c][i] = stack[c][i]
        /\ stack'[c][Len(stack[c]) + 1] =
             [id |-> id, runs |-> code, wanted |-> code, file |-> file,
              pushed |-> pushed, loads |-> loads, require |-> require]
    BY EnterShapes
  <2>2. CASE k \in DOMAIN stack[d] /\ stack'[d][k] = stack[d][k]
    <3>1. BodyIsFiled(stack[d][k])
      BY <2>2 DEF StackIsFiled
    <3> QED
      BY <2>2, <3>1 DEF BodyIsFiled, Filed
  <2>3. CASE d = c /\ k = Len(stack[c]) + 1
    BY <2>1, <2>3 DEF BodyIsFiled, Filed
  <2> QED
    BY <2>1, <2>2, <2>3
<1> QED
  BY <1>1, <1>2

\* Nothing moves between the tables.
LEMMA QuietKeepsCode ==
  ASSUME CodeInv, UNCHANGED <<procs, blocks, pool, stack>>
  PROVE  CodeInv'
BY DEF CodeInv, BlocksAreFiled, PoolIsFiled, StackIsFiled, BodyIsFiled, Filed

LEMMA CallKeepsCode ==
  ASSUME Shapes, CodeInv, NEW c \in Contexts, NEW b \in blocks, CallBlock(c, b)
  PROVE  CodeInv'
<1>1. b.id \in 1..Len(procs) /\ b.program = procs[b.id].code
  BY DEF CodeInv, BlocksAreFiled
<1>2. Filed(b.id, b.program)
  BY <1>1 DEF Filed
<1>3. ChunkFor(b.id, b.program) = b.program
  BY <1>2, PooledOrFetched DEF CodeInv
<1>4. PICK file, pushed :
        Enter(c, b.id, b.program, b.program, file, pushed, NoFile, FALSE)
  BY <1>1 DEF CallBlock
<1>5. UNCHANGED <<procs, blocks>>
  BY DEF CallBlock, host
<1>6. (\A i, d : Filed(i, d) => Filed(i, d)') /\ Filed(b.id, b.program)'
  BY <1>2, <1>5 DEF Filed
<1>7. PoolIsFiled' /\ StackIsFiled'
  BY <1>3, <1>4, <1>6, EnterKeepsCode DEF CodeInv
<1>8. BlocksAreFiled'
  BY <1>5 DEF CodeInv, BlocksAreFiled
<1> QED
  BY <1>7, <1>8 DEF CodeInv

LEMMA RunKeepsCode ==
  ASSUME Shapes, CodeInv, NEW f, NEW require, NEW features_, Run(f, require, features_)
  PROVE  CodeInv'
<1>1. PICK n, file, pushed :
        /\ procs' = Append(procs, [code |-> n, file |-> file])
        /\ blocks' = blocks \cup {[program |-> n, id |-> Len(procs) + 1]}
        /\ Enter(me, NoId, n, n, file, pushed, f, require)
  BY DEF Run, Merge, Offset
<1>2. \A i, d : Filed(i, d) => Filed(i, d)'
  BY <1>1, MergeKeepsFiled
<1>3. Filed(NoId, n)'
  BY DEF Filed
<1>4. ChunkFor(NoId, n) = n
  BY DEF ChunkFor, Holding, Same
<1>5. PoolIsFiled' /\ StackIsFiled'
  BY <1>1, <1>2, <1>3, <1>4, SelfIsContext, EnterKeepsCode DEF CodeInv
<1>6. /\ DOMAIN procs = 1..Len(procs) /\ Len(procs) \in Nat
      /\ Len(procs') = Len(procs) + 1
      /\ \A i \in DOMAIN procs : procs'[i] = procs[i]
      /\ procs'[Len(procs) + 1].code = n
  BY <1>1, SequenceDomain, AppendIsSequence DEF Shapes
<1>7. BlocksAreFiled'
  BY <1>1, <1>6 DEF CodeInv, BlocksAreFiled
<1> QED
  BY <1>5, <1>7 DEF CodeInv

LEMMA EndKeepsCode ==
  ASSUME Shapes, CodeInv, Busy, NEW raised, End(raised)
  PROVE  CodeInv'
<1>m. me \in Contexts /\ IsSequence(stack[me]) /\ IsSequence(pool[running])
  BY SelfIsContext
<1> DEFINE vm == [id |-> Body.id, code |-> Body.runs]
<1>1. /\ stack' = [stack EXCEPT ![me] = Front(@)]
      /\ pool' = [pool EXCEPT ![running] = PutBack(vm)]
      /\ UNCHANGED <<procs, blocks>>
  BY DEF End, host
<1>2. /\ \A i \in DOMAIN Front(stack[me]) :
           i \in DOMAIN stack[me] /\ Front(stack[me])[i] = stack[me][i]
      /\ Len(stack[me]) \in DOMAIN stack[me]
  BY <1>m, FrontIsSequence DEF Busy
<1>3. BodyIsFiled(Body)
  BY <1>m, <1>2 DEF Body, Last, CodeInv, StackIsFiled
<1>4. Filed(vm.id, vm.code)
  BY <1>3 DEF BodyIsFiled
<1> HIDE DEF vm
<1>5. StackIsFiled'
  <2>1. \A c \in Contexts : \A k \in DOMAIN stack'[c] :
          k \in DOMAIN stack[c] /\ stack'[c][k] = stack[c][k]
    BY <1>1, <1>2, <1>m DEF Shapes
  <2> QED
    BY <1>1, <2>1 DEF CodeInv, StackIsFiled, BodyIsFiled, Filed
<1>6. PoolIsFiled'
  <2>1. \A k \in DOMAIN PutBack(vm) :
          \/ k \in DOMAIN pool[running] /\ PutBack(vm)[k] = pool[running][k]
          \/ PutBack(vm)[k] = vm
    BY <1>m, AppendIsSequence DEF PutBack
  <2> SUFFICES ASSUME NEW t \in Threads, NEW k \in DOMAIN pool'[t]
               PROVE  Filed(pool'[t][k].id, pool'[t][k].code)
    BY <1>1 DEF PoolIsFiled, Filed
  <2>2. \/ k \in DOMAIN pool[t] /\ pool'[t][k] = pool[t][k]
        \/ pool'[t][k] = vm
    BY <1>1, <2>1 DEF Shapes
  <2> QED
    BY <2>2, <1>4 DEF CodeInv, PoolIsFiled
<1>7. BlocksAreFiled'
  BY <1>1 DEF CodeInv, BlocksAreFiled
<1> QED
  BY <1>5, <1>6, <1>7 DEF CodeInv

LEMMA ThreadKeepsCode ==
  ASSUME Shapes, CodeInv, NEW c \in Contexts, NEW b \in blocks, StartThread(c, b)
  PROVE  CodeInv'
<1>1. b.id \in 1..Len(procs) /\ b.program = procs[b.id].code
  BY DEF CodeInv, BlocksAreFiled
<1>2. UNCHANGED <<procs, blocks>> /\ pool' = [pool EXCEPT ![On[c]] = <<>>]
  BY DEF StartThread, host
<1>3. PICK file : stack' = [stack EXCEPT ![c] =
        <<[id |-> b.id, runs |-> procs[b.id].code, wanted |-> b.program, file |-> file,
           pushed |-> TRUE, loads |-> NoFile, require |-> FALSE]>>]
  BY DEF StartThread
<1> DEFINE x == [id |-> b.id, runs |-> procs[b.id].code, wanted |-> b.program, file |-> file,
                 pushed |-> TRUE, loads |-> NoFile, require |-> FALSE]
<1>4. BodyIsFiled(x)
  BY <1>1 DEF BodyIsFiled, Filed
<1> HIDE DEF x
<1>5. PoolIsFiled'
  <2>1. \A t \in Threads : pool'[t] = <<>> \/ pool'[t] = pool[t]
    BY <1>2 DEF Shapes
  <2> QED
    BY <1>2, <2>1, EmptyIsSequence DEF CodeInv, PoolIsFiled, Filed
<1>6. StackIsFiled'
  <2>1. \A d \in Contexts : stack'[d] = <<x>> \/ stack'[d] = stack[d]
    BY <1>3 DEF Shapes, x
  <2> QED
    BY <1>2, <1>4, <2>1, SingletonIsSequence DEF CodeInv, StackIsFiled, BodyIsFiled, Filed
<1>7. BlocksAreFiled'
  BY <1>2 DEF CodeInv, BlocksAreFiled
<1> QED
  BY <1>5, <1>6, <1>7 DEF CodeInv

LEMMA StartKeepsCode ==
  ASSUME StartRun
  PROVE  CodeInv'
<1> PICK n : n = programs'
  OBVIOUS
<1> DEFINE p == [code |-> n, file |-> Script]
           x == [id |-> NoId, runs |-> n, wanted |-> n, file |-> Script,
                 pushed |-> FALSE, loads |-> NoFile, require |-> FALSE]
<1>1. /\ procs' = <<p>> /\ blocks' = {[program |-> n, id |-> 1]}
      /\ pool' = [t \in Threads |-> <<>>]
      /\ stack' = [c \in Contexts |-> IF c = Main THEN <<x>> ELSE <<>>]
  BY DEF StartRun, PoolsReset
<1>2. BlocksAreFiled'
  BY <1>1 DEF BlocksAreFiled
<1>3. PoolIsFiled'
  BY <1>1, EmptyIsSequence DEF PoolIsFiled
<1>4. StackIsFiled'
  <2> HIDE DEF x
  <2>1. \A c \in Contexts : \A k \in DOMAIN stack'[c] : stack'[c][k] = x
    BY <1>1, SingletonIsSequence, EmptyIsSequence
  <2>2. BodyIsFiled(x)'
    BY DEF BodyIsFiled, Filed, x
  <2> QED
    BY <2>1, <2>2 DEF StackIsFiled, BodyIsFiled, Filed
<1> QED
  BY <1>2, <1>3, <1>4 DEF CodeInv

LEMMA CodeStep ==
  ASSUME Shapes, CodeInv, [Next]_vars
  PROVE  CodeInv'
<1>0. CASE UNCHANGED vars
  BY <1>0, QuietKeepsCode DEF vars, host
<1>1. ASSUME NEW f \in Loadable, NEW require \in BOOLEAN, Runs(f, require)
      PROVE  CodeInv'
  BY <1>1, RunKeepsCode DEF Runs
<1>2. CASE Talks
  BY <1>2, QuietKeepsCode DEF Talks, Quiet
<1>3. ASSUME NEW b \in blocks, Call(b) PROVE CodeInv'
  BY <1>3, SelfIsContext, CallKeepsCode DEF Call
<1>4. ASSUME NEW raised \in BOOLEAN, Busy, End(raised) PROVE CodeInv'
  BY <1>4, EndKeepsCode
<1>5. CASE Switch
  <2>1. ASSUME NEW t \in Threads, SwitchThread(t) PROVE CodeInv'
    BY <2>1, QuietKeepsCode DEF SwitchThread, host
  <2>2. ASSUME NEW c \in Contexts, NEW b \in blocks, StartFiber(c, b) PROVE CodeInv'
    BY <2>2, CallKeepsCode DEF StartFiber
  <2>3. ASSUME NEW chain_, NEW mixed_, SwitchTo(chain_, mixed_) PROVE CodeInv'
    BY <2>3, QuietKeepsCode DEF SwitchTo, host
  <2>4. CASE (\E c \in Contexts : Resume(c)) \/ Yield \/ EndFiber
    BY <2>3, <2>4 DEF Resume, Yield, EndFiber
  <2> QED
    BY <1>5, <2>1, <2>2, <2>4, ThreadKeepsCode DEF Switch
<1>6. CASE StartRun
  BY <1>6, StartKeepsCode
<1> QED
  BY <1>0, <1>1, <1>2, <1>3, <1>4, <1>5, <1>6, StepIs

\* Whatever VMs are recycled, on whatever thread, in the middle of whatever other
\* body, and whatever files are merged meanwhile.
THEOREM RunsWhatWasAsked == Spec => []RunsItsCode
<1>1. Init => CodeInv
  BY EmptyIsSequence DEF Init, CodeInv, BlocksAreFiled, PoolIsFiled, StackIsFiled
<1>2. CodeInv => RunsItsCode
  BY DEF CodeInv, StackIsFiled, BodyIsFiled, RunsItsCode
<1> QED
  BY <1>1, <1>2, ShapesInit, ShapesStep, CodeStep, PTL DEF Spec

-----------------------------------------------------------------------------
(* The file stacks.                                                         *)

\* The bodies of thread t that pushed their file, by context and place.
Pushed(t) ==
  {a \in Contexts \X Nat :
     On[a[1]] = t /\ a[2] \in DOMAIN stack[a[1]] /\ stack[a[1]][a[2]].pushed}

\* The places up to the k-th body of the i-th context in the chain of t.
Before(t, i, k) ==
  {a \in Contexts \X Nat :
     \E j \in DOMAIN chain[t] : a[1] = chain[t][j] /\ (j < i \/ (j = i /\ a[2] <= k))}

Until(t, i, k) == Pushed(t) \cap Before(t, i, k)

\* The script is in the file stack from the start, and stays.
Kept(t) == IF t = On[Main] /\ programs > 0 THEN 1 ELSE 0

Height(t, i, k) == Kept(t) + Cardinality(Until(t, i, k))

\* A file stack has an entry for each body that pushed, of whatever fiber.
CountInv ==
  /\ DOMAIN files = Threads
  /\ \A t \in Threads :
       /\ IsSequence(files[t]) /\ IsFiniteSet(Pushed(t))
       /\ Len(files[t]) = Kept(t) + Cardinality(Pushed(t))

\* A context is in its chain once, who waits for one that it resumed is in the
\* middle of a body, and a thread begins with a body that pushed.
Nested(t) ==
  /\ \A i, j \in DOMAIN chain[t] : chain[t][i] = chain[t][j] => i = j
  /\ \A i \in DOMAIN chain[t] : i < Len(chain[t]) => stack[chain[t][i]] # <<>>
  /\ t # On[Main] /\ chain[t] # <<>> /\ stack[chain[t][1]] # <<>> =>
       stack[chain[t][1]][1].pushed

\* Nothing runs before the first run starts.
NestInv ==
  /\ programs = 0 => blocks = {} /\ \A c \in Contexts : stack[c] = <<>>
  /\ \A t \in Threads : Nested(t)

\* All that runs is in the chain, and the file of each body is where the bodies
\* before it leave it.
Filing(t) ==
  /\ \A c \in Contexts :
       On[c] = t /\ stack[c] # <<>> => \E i \in DOMAIN chain[t] : chain[t][i] = c
  /\ \A i \in DOMAIN chain[t] : \A k \in DOMAIN stack[chain[t][i]] :
       /\ Height(t, i, k) \in 1..Len(files[t])
       /\ files[t][Height(t, i, k)] = stack[chain[t][i]][k].file

\* So it is where no fiber was left in the middle.
HeightInv == \A t \in Threads \ mixed : Filing(t)

LEMMA ChainIs ==
  ASSUME Shapes, NEW t \in Threads
  PROVE  /\ chain[t] \in Seq(Contexts)
         /\ DOMAIN chain[t] = 1..Len(chain[t]) /\ Len(chain[t]) \in Nat
         /\ \A i \in DOMAIN chain[t] : chain[t][i] \in Contexts /\ On[chain[t][i]] = t
<1>1. chain[t] \in Seq(Contexts)
  BY DEF Shapes, ChainShape
<1>2. \A i \in DOMAIN chain[t] : On[chain[t][i]] = t
  BY DEF Shapes, ChainShape
<1> QED
  BY <1>1, <1>2

LEMMA MeIsLast ==
  ASSUME Shapes
  PROVE  /\ Len(chain[running]) \in DOMAIN chain[running]
         /\ Len(chain[running]) \in Nat /\ Len(chain[running]) >= 1
         /\ chain[running][Len(chain[running])] = me
<1>1. chain[running] \in Seq(Contexts) /\ chain[running] # <<>>
  BY DEF Shapes, ChainShape
<1>2. /\ Len(chain[running]) \in DOMAIN chain[running]
      /\ Len(chain[running]) \in Nat /\ Len(chain[running]) >= 1
  BY <1>1
<1> QED
  BY <1>2 DEF me, Active, Last

LEMMA LenOfNonempty ==
  ASSUME NEW s, IsSequence(s)
  PROVE  /\ Len(s) \in Nat /\ DOMAIN s = 1..Len(s)
         /\ s # <<>> <=> Len(s) >= 1
         /\ s # <<>> => 1 \in DOMAIN s /\ Len(s) \in DOMAIN s
<1> PICK S : s \in Seq(S)
  BY DEF IsSequence
<1> QED
  OBVIOUS

\* In the middle of a body there is a file.
LEMMA BusyHasFile ==
  ASSUME Shapes, CountInv, NestInv, Busy
  PROVE  Len(files[running]) >= 1 /\ files[running] # <<>> /\ programs > 0
<1> DEFINE t == running
           b == chain[t][1]
<1>m. me \in Contexts /\ On[me] = t /\ t \in Threads /\ stack[me] # <<>>
  BY SelfIsContext DEF Busy
<1>1. programs > 0
  BY <1>m DEF Shapes, NestInv, Nested
<1>2. /\ IsFiniteSet(Pushed(t)) /\ Len(files[t]) = Kept(t) + Cardinality(Pushed(t))
      /\ IsSequence(files[t])
  BY <1>m DEF CountInv
<1>3. Cardinality(Pushed(t)) \in Nat
  BY <1>2, FS_CardinalityType
<1>4. Len(files[t]) >= 1
  <2>1. CASE t = On[Main]
    BY <1>1, <1>2, <1>3, <2>1 DEF Kept
  <2>2. CASE t # On[Main]
    <3>1. /\ 1 \in DOMAIN chain[t] /\ chain[t] # <<>> /\ Len(chain[t]) >= 1
          /\ b \in Contexts /\ On[b] = t
      BY <1>m, MeIsLast, ChainIs
    <3>2. stack[b] # <<>>
      <4>1. CASE Len(chain[t]) = 1
        BY <4>1, <1>m, MeIsLast
      <4>2. CASE Len(chain[t]) > 1
        BY <4>2, <3>1, <1>m DEF NestInv, Nested
      <4> DEFINE n == Len(chain[t])
      <4>3. n \in Nat /\ n >= 1
        BY MeIsLast
      <4> HIDE DEF n
      <4>4. n = 1 \/ n > 1
        BY <4>3
      <4> QED
        BY <4>1, <4>2, <4>4 DEF n
    <3>3. stack[b][1].pushed
      BY <2>2, <3>1, <3>2, <1>m DEF NestInv, Nested
    <3>4. 1 \in DOMAIN stack[b]
      BY <3>1, <3>2, LenOfNonempty DEF Shapes
    <3>5. <<b, 1>> \in Pushed(t)
      BY <3>1, <3>3, <3>4 DEF Pushed
    <3>6. Cardinality(Pushed(t)) # 0
      BY <1>2, <3>5, FS_EmptySet
    <3>7. Kept(t) \in Nat
      BY DEF Kept
    <3> QED
      BY <1>2, <1>3, <3>6, <3>7
  <2> QED
    BY <2>1, <2>2
<1> QED
  BY <1>1, <1>2, <1>4, LenOfNonempty

LEMMA FrontDomain ==
  ASSUME NEW s, IsSequence(s), s # <<>>
  PROVE  Len(Front(s)) = Len(s) - 1 /\ DOMAIN Front(s) = 1..Len(s) - 1
<1> PICK S : s \in Seq(S)
  BY DEF IsSequence
<1>1. Len(s) \in Nat /\ DOMAIN s = 1..Len(s)
  OBVIOUS
<1>2. Len(s) # 0
  OBVIOUS
<1> QED
  BY <1>1, <1>2 DEF Front

-----------------------------------------------------------------------------
(* The steps, by what they do to the bodies, the chains and the files.      *)

\* Context c enters body x, and the thread notes the file if another one ran.
Enters(c, x) ==
  /\ \A d \in Contexts \ {c} : stack'[d] = stack[d]
  /\ DOMAIN stack'[c] = DOMAIN stack[c] \cup {Len(stack[c]) + 1}
  /\ \A k \in DOMAIN stack[c] : stack'[c][k] = stack[c][k]
  /\ stack'[c][Len(stack[c]) + 1] = x
  /\ x.pushed \in BOOLEAN
  /\ files' = IF x.pushed THEN [files EXCEPT ![running] = Append(@, x.file)] ELSE files
  /\ ~x.pushed => x.file = CurrentFile
  /\ mixed' = mixed
  /\ programs' \in Nat \ {0}

\* Nothing moves but the GVL.
Still == UNCHANGED <<stack, files, chain, mixed, blocks, programs>>

LEMMA CallEnters ==
  ASSUME Shapes, CountInv, NestInv, Busy, NEW c \in Contexts, NEW b \in blocks,
         CallBlock(c, b), UNCHANGED mixed
  PROVE  \E x : Enters(c, x)
<1> PICK id, wanted, file, code, pushed, require :
      /\ require = FALSE /\ id = b.id /\ wanted = b.program
      /\ file = procs[b.id].file /\ code = procs[b.id].code /\ pushed = Foreign(file)
  OBVIOUS
<1> DEFINE x == [id |-> id, runs |-> ChunkFor(id, code), wanted |-> wanted,
                 file |-> file, pushed |-> pushed, loads |-> NoFile, require |-> require]
<1>1. Enter(c, id, code, wanted, file, pushed, NoFile, require)
  BY DEF CallBlock
<1>2. /\ \A d \in Contexts \ {c} : stack'[d] = stack[d]
      /\ DOMAIN stack'[c] = DOMAIN stack[c] \cup {Len(stack[c]) + 1}
      /\ \A k \in DOMAIN stack[c] : stack'[c][k] = stack[c][k]
      /\ stack'[c][Len(stack[c]) + 1] = x
  BY <1>1, EnterShapes
<1>3. x.pushed = pushed /\ x.file = file
  OBVIOUS
<1>4. files' = IF pushed THEN [files EXCEPT ![running] = Append(@, file)] ELSE files
  BY DEF CallBlock
<1>5. pushed \in BOOLEAN /\ (~pushed => file = CurrentFile)
  BY DEF Foreign
<1>6. programs' \in Nat \ {0}
  BY BusyHasFile DEF CallBlock, Shapes
<1> HIDE DEF x
<1>7. Enters(c, x)
  BY <1>2, <1>3, <1>4, <1>5, <1>6 DEF Enters
<1> QED
  BY <1>7

LEMMA RunsEnters ==
  ASSUME Shapes, CountInv, NestInv, Busy, NEW f, NEW require, Runs(f, require)
  PROVE  \E x : Enters(me, x)
<1> DEFINE pushed == f \in Files
           file == IF pushed THEN f ELSE CurrentFile
           x == [id |-> NoId, runs |-> ChunkFor(NoId, programs'), wanted |-> programs',
                 file |-> file, pushed |-> pushed, loads |-> f, require |-> require]
<1>1. Enter(me, NoId, programs', programs', file, pushed, f, require)
  BY DEF Runs, Run
<1>2. /\ \A d \in Contexts \ {me} : stack'[d] = stack[d]
      /\ DOMAIN stack'[me] = DOMAIN stack[me] \cup {Len(stack[me]) + 1}
      /\ \A k \in DOMAIN stack[me] : stack'[me][k] = stack[me][k]
      /\ stack'[me][Len(stack[me]) + 1] = x
  BY <1>1, SelfIsContext, EnterShapes
<1>3. x.pushed = pushed /\ x.file = file
  OBVIOUS
<1>4. files' = IF pushed THEN [files EXCEPT ![running] = Append(@, f)] ELSE files
  BY DEF Runs, Run
<1>5. pushed \in BOOLEAN /\ (~pushed => file = CurrentFile) /\ (pushed => file = f)
  OBVIOUS
<1>6. programs' \in Nat \ {0} /\ mixed' = mixed
  BY BusyHasFile DEF Runs, Run, Compiles, Shapes
<1> HIDE DEF x, file, pushed
<1>7. Enters(me, x)
  BY <1>2, <1>3, <1>4, <1>5, <1>6 DEF Enters
<1> QED
  BY <1>7

LEMMA MovesAre ==
  ASSUME Shapes, CountInv, NestInv, [Next]_vars
  PROVE  \/ Still
         \/ Busy /\ UNCHANGED <<chain, running>> /\ \E x : Enters(me, x)
         \/ \E c \in Contexts, b \in blocks :
              StartFiber(c, b) /\ UNCHANGED running /\ \E x : Enters(c, x)
         \/ Busy /\ \E raised \in BOOLEAN : End(raised)
         \/ \E c \in Contexts : Resume(c)
         \/ Yield
         \/ EndFiber
         \/ \E c \in Contexts, b \in blocks : StartThread(c, b)
         \/ StartRun
<1>0. CASE UNCHANGED vars
  BY <1>0 DEF vars, host, history, Still
<1>1. ASSUME Busy, NEW f \in Loadable, NEW require \in BOOLEAN, Runs(f, require)
      PROVE  UNCHANGED <<chain, running>> /\ \E x : Enters(me, x)
  BY <1>1, RunsEnters DEF Runs, Run
<1>2. CASE Talks
  BY <1>2 DEF Talks, Quiet, Still
<1>3. ASSUME Busy, NEW b \in blocks, Call(b)
      PROVE  UNCHANGED <<chain, running>> /\ \E x : Enters(me, x)
  BY <1>3, SelfIsContext, CallEnters DEF Call
<1>4. ASSUME NEW t, SwitchThread(t) PROVE Still
  BY <1>4 DEF SwitchThread, host, Still
<1>5. ASSUME NEW c \in Contexts, NEW b \in blocks, StartFiber(c, b)
      PROVE  UNCHANGED running /\ \E x : Enters(c, x)
  BY <1>5, CallEnters DEF StartFiber
<1>6. CASE Switch
  BY <1>4, <1>5, <1>6 DEF Switch
<1> QED
  BY <1>0, <1>1, <1>2, <1>3, <1>6, StepIs

-----------------------------------------------------------------------------
(* CountInv is kept.                                                        *)

LEMMA EntersPushes ==
  ASSUME Shapes, NEW c \in Contexts, NEW x, Enters(c, x), NEW t
  PROVE  /\ <<c, Len(stack[c]) + 1>> \notin Pushed(t)
         /\ Pushed(t)' = IF On[c] = t /\ x.pushed
                          THEN Pushed(t) \cup {<<c, Len(stack[c]) + 1>>} ELSE Pushed(t)
<1> DEFINE new == <<c, Len(stack[c]) + 1>>
<1>1. Len(stack[c]) \in Nat /\ DOMAIN stack[c] = 1..Len(stack[c])
  BY LenOfNonempty DEF Shapes
<1>2. new \notin Pushed(t)
  BY <1>1 DEF Pushed
<1>3. ASSUME NEW d \in Contexts, NEW k \in Nat
      PROVE  <<d, k>> \in Pushed(t)' <=>
               <<d, k>> \in Pushed(t) \/ (<<d, k>> = new /\ On[c] = t /\ x.pushed)
  <2>1. CASE d # c
    BY <2>1 DEF Pushed, Enters
  <2>2. CASE d = c /\ k # Len(stack[c]) + 1
    <3>1. k \in DOMAIN stack'[c] <=> k \in DOMAIN stack[c]
      BY <2>2 DEF Enters
    <3>2. k \in DOMAIN stack[c] => stack'[c][k] = stack[c][k]
      BY DEF Enters
    <3> QED
      BY <2>2, <3>1, <3>2 DEF Pushed
  <2>3. CASE <<d, k>> = new
    <3>1. Len(stack[c]) + 1 \in DOMAIN stack'[c] /\ stack'[c][Len(stack[c]) + 1] = x
      BY DEF Enters
    <3> QED
      BY <2>3, <3>1, <1>2 DEF Pushed
  <2> QED
    BY <2>1, <2>2, <2>3
<1>4. new \in Contexts \X Nat
  BY <1>1
<1>5. Pushed(t) \subseteq Contexts \X Nat /\ Pushed(t)' \subseteq Contexts \X Nat
  BY DEF Pushed
<1>6. \A a \in Contexts \X Nat :
        a \in Pushed(t)' <=> a \in Pushed(t) \/ (a = new /\ On[c] = t /\ x.pushed)
  BY <1>3
<1> HIDE DEF new
<1>7. CASE On[c] = t /\ x.pushed
  BY <1>4, <1>5, <1>6, <1>7, <1>2 DEF new
<1>8. CASE ~(On[c] = t /\ x.pushed)
  BY <1>5, <1>6, <1>8, <1>2 DEF new
<1> QED
  BY <1>7, <1>8

LEMMA EntersCounts ==
  ASSUME Shapes, CountInv, NestInv, Busy, NEW c \in Contexts, On[c] = running, NEW x,
         Enters(c, x)
  PROVE  CountInv'
<1>r. running \in Threads
  BY SelfIsContext
<1>1. programs \in Nat \ {0} /\ programs' \in Nat \ {0}
  BY BusyHasFile DEF Enters, Shapes
<1>2. \A t : Kept(t)' = Kept(t)
  BY <1>1 DEF Kept
<1>3. DOMAIN files' = Threads
  BY DEF Enters, CountInv
<1> SUFFICES ASSUME NEW t \in Threads
             PROVE  /\ IsSequence(files'[t]) /\ IsFiniteSet(Pushed(t)')
                    /\ Len(files'[t]) = Kept(t)' + Cardinality(Pushed(t)')
  BY <1>3 DEF CountInv
<1>4. /\ IsSequence(files[t]) /\ IsFiniteSet(Pushed(t))
      /\ Len(files[t]) = Kept(t) + Cardinality(Pushed(t))
  BY DEF CountInv
<1>5. CASE t = running /\ x.pushed
  <2> DEFINE new == <<c, Len(stack[c]) + 1>>
  <2>1. Pushed(t)' = Pushed(t) \cup {new} /\ new \notin Pushed(t)
    BY <1>5, EntersPushes
  <2>2. files'[t] = Append(files[t], x.file)
    BY <1>5 DEF Enters, CountInv
  <2>3. IsSequence(files'[t]) /\ Len(files'[t]) = Len(files[t]) + 1
    BY <1>4, <2>2, AppendIsSequence
  <2> HIDE DEF new
  <2>4. IsFiniteSet(Pushed(t)') /\ Cardinality(Pushed(t)') = Cardinality(Pushed(t)) + 1
    BY <1>4, <2>1, FS_AddElement
  <2>5. Cardinality(Pushed(t)) \in Nat /\ Kept(t) \in Nat
    BY <1>4, FS_CardinalityType DEF Kept
  <2> QED
    BY <1>2, <1>4, <2>3, <2>4, <2>5
<1>6. CASE ~(t = running /\ x.pushed)
  <2>1. Pushed(t)' = Pushed(t)
    BY <1>6, EntersPushes
  <2>2. files'[t] = files[t]
    BY <1>6 DEF Enters, CountInv
  <2> QED
    BY <1>2, <1>4, <2>1, <2>2
<1> QED
  BY <1>5, <1>6

\* The innermost body of what runs is gone, and its file if it pushed one.
LEMMA EndPops ==
  ASSUME Shapes, Busy, NEW raised, End(raised)
  PROVE  /\ \A d \in Contexts \ {me} : stack'[d] = stack[d]
         /\ Len(stack[me]) \in Nat \ {0} /\ DOMAIN stack[me] = 1..Len(stack[me])
         /\ DOMAIN stack'[me] = 1..Len(stack[me]) - 1
         /\ \A k \in DOMAIN stack'[me] : stack'[me][k] = stack[me][k]
         /\ files' = IF stack[me][Len(stack[me])].pushed
                     THEN [files EXCEPT ![running] = Front(@)] ELSE files
<1>1. me \in Contexts /\ IsSequence(stack[me]) /\ stack[me] # <<>>
  BY SelfIsContext DEF Busy
<1>2. stack' = [stack EXCEPT ![me] = Front(@)]
  BY DEF End
<1>3. stack'[me] = Front(stack[me]) /\ \A d \in Contexts \ {me} : stack'[d] = stack[d]
  BY <1>1, <1>2 DEF Shapes
<1>4. /\ IsSequence(Front(stack[me]))
      /\ \A k \in DOMAIN Front(stack[me]) : Front(stack[me])[k] = stack[me][k]
  BY <1>1, FrontIsSequence
<1>5. /\ Len(stack[me]) \in Nat \ {0} /\ DOMAIN stack[me] = 1..Len(stack[me])
      /\ DOMAIN Front(stack[me]) = 1..Len(stack[me]) - 1
  BY <1>1, FrontDomain, LenOfNonempty
<1>6. files' = IF stack[me][Len(stack[me])].pushed
               THEN [files EXCEPT ![running] = Front(@)] ELSE files
  BY DEF End, Pops, Body, Last
<1> QED
  BY <1>3, <1>4, <1>5, <1>6

LEMMA EndUnpushes ==
  ASSUME Shapes, Busy, NEW raised, End(raised), NEW t
  PROVE  LET old == <<me, Len(stack[me])>>
             pops == stack[me][Len(stack[me])].pushed
         IN  /\ Pushed(t)' = Pushed(t) \ {old}
             /\ old \in Pushed(t) <=> On[me] = t /\ pops
<1> DEFINE old == <<me, Len(stack[me])>>
           pops == stack[me][Len(stack[me])].pushed
<1>1. me \in Contexts
  BY SelfIsContext
<1>2. /\ \A d \in Contexts \ {me} : stack'[d] = stack[d]
      /\ Len(stack[me]) \in Nat \ {0} /\ DOMAIN stack[me] = 1..Len(stack[me])
      /\ DOMAIN stack'[me] = 1..Len(stack[me]) - 1
      /\ \A k \in DOMAIN stack'[me] : stack'[me][k] = stack[me][k]
  BY EndPops
<1>3. old \in Pushed(t) <=> On[me] = t /\ pops
  BY <1>1, <1>2 DEF Pushed
<1>4. ASSUME NEW d \in Contexts, NEW k \in Nat
      PROVE  <<d, k>> \in Pushed(t)' <=> <<d, k>> \in Pushed(t) /\ <<d, k>> # old
  <2>1. CASE d # me
    BY <2>1, <1>2 DEF Pushed
  <2>2. CASE d = me /\ k # Len(stack[me])
    <3>1. k \in DOMAIN stack'[me] <=> k \in DOMAIN stack[me]
      BY <2>2, <1>2
    <3>2. k \in DOMAIN stack'[me] => stack'[me][k] = stack[me][k]
      BY <1>2
    <3> QED
      BY <2>2, <3>1, <3>2 DEF Pushed
  <2>3. CASE <<d, k>> = old
    <3>1. k \notin DOMAIN stack'[d]
      BY <2>3, <1>2
    <3> QED
      BY <2>3, <3>1 DEF Pushed
  <2> QED
    BY <2>1, <2>2, <2>3
<1>5. Pushed(t) \subseteq Contexts \X Nat /\ Pushed(t)' \subseteq Contexts \X Nat
  BY DEF Pushed
<1> HIDE DEF old
<1>6. Pushed(t)' = Pushed(t) \ {old}
  BY <1>4, <1>5
<1> QED
  BY <1>3, <1>6 DEF old

LEMMA EndCounts ==
  ASSUME Shapes, CountInv, Busy, NEW raised, End(raised)
  PROVE  CountInv'
<1> DEFINE old == <<me, Len(stack[me])>>
           pops == stack[me][Len(stack[me])].pushed
<1>r. running \in Threads /\ On[me] = running
  BY SelfIsContext
<1>1. \A t : Kept(t)' = Kept(t)
  BY DEF Kept, End
<1>2. \A t : Pushed(t)' = Pushed(t) \ {old} /\ (old \in Pushed(t) <=> running = t /\ pops)
  BY <1>r, EndUnpushes
<1>3. files' = IF pops THEN [files EXCEPT ![running] = Front(@)] ELSE files
  BY EndPops
<1>4. DOMAIN files' = Threads
  BY <1>3 DEF CountInv
<1> SUFFICES ASSUME NEW t \in Threads
             PROVE  /\ IsSequence(files'[t]) /\ IsFiniteSet(Pushed(t)')
                    /\ Len(files'[t]) = Kept(t)' + Cardinality(Pushed(t)')
  BY <1>4 DEF CountInv
<1>5. /\ IsSequence(files[t]) /\ IsFiniteSet(Pushed(t))
      /\ Len(files[t]) = Kept(t) + Cardinality(Pushed(t))
  BY DEF CountInv
<1> HIDE DEF old, pops
<1>6. CASE t = running /\ pops
  <2>1. old \in Pushed(t) /\ Pushed(t)' = Pushed(t) \ {old}
    BY <1>2, <1>6
  <2>2. IsFiniteSet(Pushed(t)') /\ Cardinality(Pushed(t)') = Cardinality(Pushed(t)) - 1
    BY <1>5, <2>1, FS_RemoveElement
  <2>3. Cardinality(Pushed(t)) \in Nat /\ Cardinality(Pushed(t)') \in Nat /\ Kept(t) \in Nat
    BY <1>5, <2>2, FS_CardinalityType DEF Kept
  <2>4. Len(files[t]) >= 1
    BY <1>5, <2>2, <2>3
  <2>5. files[t] # <<>>
    BY <1>5, <2>4, LenOfNonempty
  <2>6. files'[t] = Front(files[t])
    BY <1>3, <1>6 DEF CountInv
  <2>7. IsSequence(files'[t]) /\ Len(files'[t]) = Len(files[t]) - 1
    BY <1>5, <2>5, <2>6, FrontIsSequence, FrontDomain
  <2> QED
    BY <1>1, <1>5, <2>2, <2>3, <2>7
<1>7. CASE ~(t = running /\ pops)
  <2>1. Pushed(t)' = Pushed(t)
    BY <1>2, <1>7
  <2>2. files'[t] = files[t]
    BY <1>3, <1>7 DEF CountInv
  <2> QED
    BY <1>1, <1>5, <2>1, <2>2
<1> QED
  BY <1>6, <1>7

\* A thread that starts has the one body, and its file.
LEMMA ThreadPushes ==
  ASSUME Shapes, NEW c \in Contexts, NEW b \in blocks, StartThread(c, b), NEW t
  PROVE  Pushed(t)' = IF On[c] = t THEN {<<c, 1>>} ELSE Pushed(t)
<1> DEFINE y == [id |-> b.id, runs |-> procs[b.id].code, wanted |-> b.program,
                 file |-> procs[b.id].file, pushed |-> TRUE, loads |-> NoFile,
                 require |-> FALSE]
<1>0. stack' = [stack EXCEPT ![c] = <<y>>] /\ y.pushed = TRUE
  BY DEF StartThread
<1> HIDE DEF y
<1> PICK x : stack' = [stack EXCEPT ![c] = <<x>>] /\ x.pushed = TRUE
  BY <1>0
<1>1. \A d \in Contexts : On[d] = On[c] => stack[d] = <<>>
  BY DEF StartThread, Fresh
<1>2. stack'[c] = <<x>> /\ \A d \in Contexts \ {c} : stack'[d] = stack[d]
  BY DEF Shapes
<1>3. DOMAIN <<x>> = {1} /\ <<x>>[1] = x /\ DOMAIN <<>> = {}
  BY SingletonIsSequence, EmptyIsSequence
<1>4. ASSUME NEW d \in Contexts, NEW k \in Nat
      PROVE  <<d, k>> \in Pushed(t)' <=>
               IF On[c] = t THEN <<d, k>> = <<c, 1>> ELSE <<d, k>> \in Pushed(t)
  <2>1. CASE d = c
    <3>1. k \in DOMAIN stack'[d] <=> k = 1
      BY <2>1, <1>2, <1>3
    <3>2. k = 1 => stack'[d][k].pushed
      BY <2>1, <1>2, <1>3
    <3> QED
      BY <2>1, <3>1, <3>2 DEF Pushed
  <2>2. CASE d # c /\ On[c] = t
    BY <2>2, <1>1, <1>2, <1>3 DEF Pushed
  <2>3. CASE d # c /\ On[c] # t
    BY <2>3, <1>2 DEF Pushed
  <2> QED
    BY <2>1, <2>2, <2>3
<1>5. Pushed(t) \subseteq Contexts \X Nat /\ Pushed(t)' \subseteq Contexts \X Nat
  BY DEF Pushed
<1>6. CASE On[c] = t
  BY <1>4, <1>5, <1>6
<1>7. CASE On[c] # t
  BY <1>4, <1>5, <1>7
<1> QED
  BY <1>6, <1>7

LEMMA ThreadCounts ==
  ASSUME Shapes, CountInv, NEW c \in Contexts, NEW b \in blocks, StartThread(c, b)
  PROVE  CountInv'
<1>1. \A t : Kept(t)' = Kept(t)
  BY DEF Kept, StartThread
<1>2. On[c] \in Threads /\ Kept(On[c]) = 0
  BY DEF Kept, StartThread, Threads
<1>3. PICK file : files' = [files EXCEPT ![On[c]] = <<file>>]
  BY DEF StartThread
<1>4. IsSequence(<<file>>) /\ Len(<<file>>) = 1
  BY SingletonIsSequence
<1>5. DOMAIN files' = Threads
  BY <1>3 DEF CountInv
<1> SUFFICES ASSUME NEW t \in Threads
             PROVE  /\ IsSequence(files'[t]) /\ IsFiniteSet(Pushed(t)')
                    /\ Len(files'[t]) = Kept(t)' + Cardinality(Pushed(t)')
  BY <1>5 DEF CountInv
<1>6. CASE t = On[c]
  <2>1. Pushed(t)' = {<<c, 1>>} /\ files'[t] = <<file>>
    BY <1>3, <1>6, ThreadPushes DEF CountInv
  <2>2. IsFiniteSet(Pushed(t)') /\ Cardinality(Pushed(t)') = 1
    BY <2>1, FS_Singleton
  <2> QED
    BY <1>1, <1>2, <1>4, <1>6, <2>1, <2>2
<1>7. CASE t # On[c]
  <2>1. Pushed(t)' = Pushed(t) /\ files'[t] = files[t]
    BY <1>3, <1>7, ThreadPushes DEF CountInv
  <2> QED
    BY <1>1, <2>1 DEF CountInv
<1> QED
  BY <1>6, <1>7

\* A run starts with the script, which is in the file stack without a push.
LEMMA RunPushesNone ==
  ASSUME StartRun, NEW t
  PROVE  Pushed(t)' = {}
<1> PICK x : /\ stack' = [c \in Contexts |-> IF c = Main THEN <<x>> ELSE <<>>]
             /\ x.pushed = FALSE
  BY DEF StartRun
<1>1. DOMAIN <<x>> = {1} /\ <<x>>[1] = x /\ DOMAIN <<>> = {}
  BY SingletonIsSequence, EmptyIsSequence
<1>2. \A c \in Contexts : \A k \in DOMAIN stack'[c] : ~stack'[c][k].pushed
  BY <1>1
<1> QED
  BY <1>2 DEF Pushed

LEMMA StartCounts ==
  ASSUME Shapes, StartRun
  PROVE  CountInv'
<1>1. /\ files' = [t \in Threads |-> IF t = On[Main] THEN <<Script>> ELSE <<>>]
      /\ programs' = programs + 1
  BY DEF StartRun, Compiles
<1>2. programs' > 0
  BY <1>1 DEF Shapes
<1>3. /\ IsSequence(<<Script>>) /\ Len(<<Script>>) = 1
      /\ IsSequence(<<>>) /\ Len(<<>>) = 0
  BY SingletonIsSequence, EmptyIsSequence
<1>4. IsFiniteSet({}) /\ Cardinality({}) = 0
  BY FS_EmptySet
<1>5. \A t : Pushed(t)' = {} /\ Kept(t)' = IF t = On[Main] THEN 1 ELSE 0
  BY <1>2, RunPushesNone DEF Kept
<1>6. \A t \in Threads : IsSequence(files'[t]) /\ Len(files'[t]) = Kept(t)' + 0
  BY <1>1, <1>3, <1>5
<1> QED
  BY <1>1, <1>4, <1>5, <1>6 DEF CountInv

LEMMA CountStep ==
  ASSUME Shapes, CountInv, NestInv, [Next]_vars
  PROVE  CountInv'
<1>1. ASSUME UNCHANGED <<stack, files, programs>> PROVE CountInv'
  BY <1>1 DEF CountInv, Pushed, Kept
<1>2. CASE Still
  BY <1>1, <1>2 DEF Still
<1>3. ASSUME Busy, NEW x, Enters(me, x) PROVE CountInv'
  BY <1>3, SelfIsContext, EntersCounts
<1>4. ASSUME NEW c \in Contexts, NEW b \in blocks, StartFiber(c, b), NEW x, Enters(c, x)
      PROVE  CountInv'
  <2>1. Busy /\ On[c] = running
    BY <1>4 DEF StartFiber
  <2> QED
    BY <1>4, <2>1, EntersCounts
<1>5. ASSUME NEW c, Resume(c) PROVE CountInv'
  BY <1>1, <1>5 DEF Resume, SwitchTo
<1>6. CASE Yield \/ EndFiber
  BY <1>1, <1>6 DEF Yield, EndFiber, SwitchTo
<1> QED
  BY <1>2, <1>3, <1>4, <1>5, <1>6, EndCounts, ThreadCounts, StartCounts, MovesAre

-----------------------------------------------------------------------------
(* NestInv is kept.                                                         *)

\* The other threads are as they were.
LEMMA OthersStayNested ==
  ASSUME Shapes, NEW t \in Threads, Nested(t), chain'[t] = chain[t],
         \A d \in Contexts : On[d] = t => stack'[d] = stack[d]
  PROVE  Nested(t)'
<1>1. /\ DOMAIN chain[t] = 1..Len(chain[t]) /\ Len(chain[t]) \in Nat
      /\ \A i \in DOMAIN chain[t] : chain[t][i] \in Contexts /\ On[chain[t][i]] = t
      /\ chain[t] # <<>> => 1 \in DOMAIN chain[t]
  <2>1. IsSequence(chain[t])
    BY DEF Shapes, ChainShape, IsSequence
  <2> QED
    BY <2>1, ChainIs, LenOfNonempty
<1>2. \A i \in DOMAIN chain[t] : stack'[chain[t][i]] = stack[chain[t][i]]
  BY <1>1
<1> QED
  BY <1>1, <1>2 DEF Nested

\* Who runs enters a body.
LEMMA EntersNested ==
  ASSUME Shapes, Nested(running), Busy, NEW x, Enters(me, x), UNCHANGED <<chain, running>>,
         IsSequence(stack'[me])
  PROVE  Nested(running)'
<1> DEFINE t == running
           s == chain[t]
<1>1. /\ DOMAIN s = 1..Len(s) /\ Len(s) \in Nat /\ Len(s) >= 1
      /\ \A i \in DOMAIN s : s[i] \in Contexts
      /\ me \in Contexts /\ s[Len(s)] = me
  BY SelfIsContext, MeIsLast, ChainIs
<1>2. /\ \A d \in Contexts \ {me} : stack'[d] = stack[d]
      /\ \A k \in DOMAIN stack[me] : k \in DOMAIN stack'[me] /\ stack'[me][k] = stack[me][k]
  BY DEF Enters
<1>3. 1 \in DOMAIN stack[me] /\ stack[me] # <<>>
  BY SelfIsContext, LenOfNonempty DEF Busy
<1>4. stack'[me] # <<>> /\ stack'[me][1] = stack[me][1]
  BY <1>2, <1>3, EmptyIsSequence
<1>5. \A i \in DOMAIN s : /\ i < Len(s) => stack'[s[i]] # <<>>
                          /\ stack[s[i]] # <<>> /\ stack'[s[i]][1] = stack[s[i]][1]
  <2> SUFFICES ASSUME NEW i \in DOMAIN s
               PROVE  /\ i < Len(s) => stack'[s[i]] # <<>>
                      /\ stack[s[i]] # <<>> /\ stack'[s[i]][1] = stack[s[i]][1]
    OBVIOUS
  <2>1. CASE s[i] = me
    BY <2>1, <1>3, <1>4
  <2>2. CASE s[i] # me
    <3>1. stack'[s[i]] = stack[s[i]] /\ i < Len(s)
      BY <2>2, <1>1, <1>2
    <3> QED
      BY <3>1 DEF Nested
  <2> QED
    BY <2>1, <2>2
<1>6. 1 \in DOMAIN s
  BY <1>1
<1>7. t # On[Main] => stack'[s[1]][1].pushed
  BY <1>5, <1>6, EmptyIsSequence DEF Nested
<1> QED
  BY <1>5, <1>7 DEF Nested

\* A context is appended to the chain, and what ran is in the middle of a body.
LEMMA AppendNested ==
  ASSUME Shapes, Nested(running), Busy, NEW c \in Contexts,
         \A i \in DOMAIN chain[running] : chain[running][i] # c,
         UNCHANGED running, chain' = [chain EXCEPT ![running] = Append(@, c)],
         \A d \in Contexts \ {c} : stack'[d] = stack[d]
  PROVE  Nested(running)'
<1> DEFINE t == running
           s == chain[t]
           r == Append(s, c)
           n == Len(s)
<1>1. /\ DOMAIN s = 1..n /\ n \in Nat /\ n >= 1
      /\ \A i \in DOMAIN s : s[i] \in Contexts
      /\ s[n] = me /\ IsSequence(s) /\ t \in Threads
  <2>1. IsSequence(s) /\ t \in Threads
    BY DEF Shapes, ChainShape, IsSequence
  <2> QED
    BY <2>1, SelfIsContext, MeIsLast, ChainIs
<1>2. /\ DOMAIN r = DOMAIN s \cup {n + 1} /\ Len(r) = n + 1
      /\ \A i \in DOMAIN s : r[i] = s[i]
      /\ r[n + 1] = c
  BY <1>1, AppendIsSequence
<1>3. chain'[t] = r
  BY <1>1 DEF Shapes, ChainShape
<1> HIDE DEF r, n
<1>4. \A i \in DOMAIN s : stack'[s[i]] = stack[s[i]] /\ stack[s[i]] # <<>>
  <2> SUFFICES ASSUME NEW i \in DOMAIN s
               PROVE  stack'[s[i]] = stack[s[i]] /\ stack[s[i]] # <<>>
    OBVIOUS
  <2>1. stack'[s[i]] = stack[s[i]]
    BY <1>1
  <2>2. CASE i = n
    BY <2>1, <2>2, <1>1 DEF Busy
  <2>3. CASE i # n
    <3>1. i < n
      BY <2>3, <1>1
    <3> QED
      BY <2>1, <3>1 DEF Nested, n
  <2> QED
    BY <2>2, <2>3
<1>5. \A i, j \in DOMAIN r : r[i] = r[j] => i = j
  BY <1>2 DEF Nested
<1>6. \A i \in DOMAIN r : i < Len(r) => stack'[r[i]] # <<>>
  BY <1>1, <1>2, <1>4
<1>7. 1 \in DOMAIN s
  BY <1>1
<1>8. t # On[Main] => stack'[r[1]][1].pushed
  BY <1>2, <1>4, <1>7, EmptyIsSequence DEF Nested
<1> QED
  BY <1>3, <1>5, <1>6, <1>8 DEF Nested

\* The last context of the chain is removed.
LEMMA FrontNested ==
  ASSUME Shapes, Nested(running), GivesBack,
         UNCHANGED <<running, stack>>, chain' = [chain EXCEPT ![running] = Front(@)]
  PROVE  Nested(running)'
<1> DEFINE t == running
           s == chain[t]
           r == Front(s)
<1>1. IsSequence(s) /\ t \in Threads /\ s # <<>>
  BY DEF Shapes, ChainShape, IsSequence
<1>2. Len(s) \in Nat /\ Len(s) > 1 /\ DOMAIN s = 1..Len(s)
  BY <1>1, LenOfNonempty DEF GivesBack
<1>3. /\ Len(r) = Len(s) - 1 /\ DOMAIN r = 1..Len(s) - 1
      /\ \A i \in DOMAIN r : r[i] = s[i]
  BY <1>1, FrontIsSequence, FrontDomain
<1>4. chain'[t] = r
  BY <1>1 DEF Shapes, ChainShape
<1> HIDE DEF r
<1>5. \A i, j \in DOMAIN r : r[i] = r[j] => i = j
  BY <1>2, <1>3 DEF Nested
<1>6. \A i \in DOMAIN r : i < Len(r) => stack[r[i]] # <<>>
  BY <1>2, <1>3 DEF Nested
<1>7. r[1] = s[1]
  BY <1>2, <1>3
<1>8. t # On[Main] /\ stack[r[1]] # <<>> => stack[r[1]][1].pushed
  BY <1>1, <1>7 DEF Nested
<1> QED
  BY <1>4, <1>5, <1>6, <1>8 DEF Nested

\* A body of who runs ends; those who wait are as they were.
LEMMA EndNested ==
  ASSUME Shapes, Nested(running), Busy, NEW raised, End(raised)
  PROVE  Nested(running)'
<1> DEFINE t == running
           s == chain[t]
<1>1. /\ DOMAIN s = 1..Len(s) /\ Len(s) \in Nat /\ Len(s) >= 1
      /\ \A i \in DOMAIN s : s[i] \in Contexts
      /\ me \in Contexts /\ s[Len(s)] = me
  BY SelfIsContext, MeIsLast, ChainIs
<1>2. UNCHANGED <<chain, running>>
  BY DEF End
<1>3. /\ \A d \in Contexts \ {me} : stack'[d] = stack[d]
      /\ Len(stack[me]) \in Nat \ {0}
      /\ DOMAIN stack'[me] = 1..Len(stack[me]) - 1
      /\ \A k \in DOMAIN stack'[me] : stack'[me][k] = stack[me][k]
  BY EndPops
<1>4. \A i \in DOMAIN s : i < Len(s) => stack'[s[i]] = stack[s[i]] /\ stack[s[i]] # <<>>
  <2> SUFFICES ASSUME NEW i \in DOMAIN s, i < Len(s)
               PROVE  stack'[s[i]] = stack[s[i]] /\ stack[s[i]] # <<>>
    OBVIOUS
  <2>1. s[i] # me
    BY <1>1 DEF Nested
  <2> QED
    BY <2>1, <1>1, <1>3 DEF Nested
<1>5. stack'[s[1]] # <<>> => stack[s[1]] # <<>> /\ stack'[s[1]][1] = stack[s[1]][1]
  <2>1. CASE Len(s) = 1
    <3>1. s[1] = me
      BY <2>1, <1>1
    <3>2. IsSequence(stack'[me])
      <4>1. stack' = [stack EXCEPT ![me] = Front(@)]
        BY DEF End
      <4>2. stack'[me] = Front(stack[me])
        BY <4>1, <1>1 DEF Shapes
      <4> QED
        BY <4>2, SelfIsContext, FrontIsSequence DEF Busy
    <3>3. stack'[me] # <<>> => 1 \in DOMAIN stack'[me]
      BY <3>2, LenOfNonempty
    <3> QED
      BY <3>1, <3>3, <1>3 DEF Busy
  <2>2. CASE Len(s) > 1
    <3>1. 1 \in DOMAIN s /\ 1 < Len(s)
      BY <2>2, <1>1
    <3> QED
      BY <3>1, <1>4
  <2> DEFINE n == Len(s)
  <2>3. n \in Nat /\ n >= 1
    BY <1>1
  <2> HIDE DEF n
  <2>4. n = 1 \/ n > 1
    BY <2>3
  <2> QED
    BY <2>1, <2>2, <2>4 DEF n
<1>6. s # <<>>
  BY <1>1, EmptyIsSequence
<1>7. \A i, j \in DOMAIN s : s[i] = s[j] => i = j
  BY DEF Nested
<1>8. t # On[Main] /\ stack[s[1]] # <<>> => stack[s[1]][1].pushed
  BY <1>6 DEF Nested
<1> HIDE DEF s
<1>9. s' = s /\ t' = t
  BY <1>2 DEF s
<1> QED
  BY <1>4, <1>5, <1>7, <1>8, <1>9 DEF Nested, s

LEMMA ThreadNested ==
  ASSUME Shapes, NEW c \in Contexts, NEW b \in blocks, StartThread(c, b), NEW t, t = On[c]
  PROVE  Nested(t)'
<1> DEFINE y == [id |-> b.id, runs |-> procs[b.id].code, wanted |-> b.program,
                 file |-> procs[b.id].file, pushed |-> TRUE, loads |-> NoFile,
                 require |-> FALSE]
<1>1. stack' = [stack EXCEPT ![c] = <<y>>] /\ y.pushed = TRUE
  BY DEF StartThread
<1> HIDE DEF y
<1>2. chain' = [chain EXCEPT ![On[c]] = <<c>>]
  BY DEF StartThread
<1>3. chain'[t] = <<c>> /\ stack'[c] = <<y>>
  BY <1>1, <1>2 DEF Shapes, ChainShape, Threads
<1>4. /\ DOMAIN <<c>> = {1} /\ <<c>>[1] = c /\ Len(<<c>>) = 1
      /\ <<y>>[1] = y
  BY SingletonIsSequence
<1>5. /\ \A i, j \in DOMAIN chain'[t] : chain'[t][i] = chain'[t][j] => i = j
      /\ \A i \in DOMAIN chain'[t] : ~(i < Len(chain'[t]))
  BY <1>3, <1>4
<1>6. stack'[chain'[t][1]][1].pushed
  BY <1>1, <1>3, <1>4
<1> QED
  BY <1>5, <1>6 DEF Nested

LEMMA RunNested ==
  ASSUME StartRun, NEW t \in Threads
  PROVE  Nested(t)'
<1>1. chain' = NoneRuns
  BY DEF StartRun
<1>2. chain'[t] = IF t = On[Main] THEN <<Main>> ELSE <<>>
  BY <1>1 DEF NoneRuns
<1>3. DOMAIN <<Main>> = {1} /\ Len(<<Main>>) = 1 /\ DOMAIN <<>> = {}
  BY SingletonIsSequence, EmptyIsSequence
<1>4. /\ \A i, j \in DOMAIN chain'[t] : chain'[t][i] = chain'[t][j] => i = j
      /\ \A i \in DOMAIN chain'[t] : ~(i < Len(chain'[t]))
  BY <1>2, <1>3
<1>5. t # On[Main] => chain'[t] = <<>>
  BY <1>2
<1> QED
  BY <1>4, <1>5 DEF Nested

LEMMA NestStep ==
  ASSUME Shapes, CountInv, NestInv, [Next]_vars
  PROVE  NestInv'
<1> DEFINE Begun == programs = 0 => blocks = {} /\ \A c \in Contexts : stack[c] = <<>>
<1>a. NestInv <=> Begun /\ \A t \in Threads : Nested(t)
  BY DEF NestInv
<1>b. NestInv' <=> Begun' /\ \A t \in Threads : Nested(t)'
  BY DEF NestInv
<1>c. Begun /\ \A t \in Threads : Nested(t)
  BY <1>a
<1>s. Shapes'
  BY ShapesStep
<1>r. running \in Threads /\ me \in Contexts /\ On[me] = running
  BY SelfIsContext
<1> SUFFICES Begun' /\ \A t \in Threads : Nested(t)'
  BY <1>b
<1>1. CASE Still
  <2>1. Begun'
    BY <1>1, <1>c DEF Still
  <2>2. \A t \in Threads : Nested(t)'
    BY <1>1, <1>c, OthersStayNested DEF Still
  <2> QED
    BY <2>1, <2>2
<1>2. ASSUME NEW c \in Contexts, On[c] = running,
             \A d \in Contexts \ {c} : stack'[d] = stack[d],
             \A t \in Threads \ {running} : chain'[t] = chain[t]
      PROVE  \A t \in Threads \ {running} : Nested(t)'
  BY <1>2, <1>c, OthersStayNested
<1>3. ASSUME Busy, UNCHANGED <<chain, running>>, NEW x, Enters(me, x)
      PROVE  Begun' /\ \A t \in Threads : Nested(t)'
  <2>1. Begun'
    BY <1>3 DEF Enters
  <2>2. Nested(running)'
    <3>1. IsSequence(stack'[me])
      BY <1>s, <1>r DEF Shapes
    <3> QED
      BY <1>3, <1>c, <1>r, <3>1, EntersNested
  <2>3. \A t \in Threads \ {running} : Nested(t)'
    BY <1>2, <1>3, <1>r DEF Enters
  <2>4. running' = running
    BY <1>3
  <2> QED
    BY <2>1, <2>2, <2>3, <2>4 DEF Nested
<1>4. ASSUME NEW c \in Contexts, NEW b \in blocks, StartFiber(c, b), UNCHANGED running,
             NEW x, Enters(c, x)
      PROVE  Begun' /\ \A t \in Threads : Nested(t)'
  <2>1. Begun'
    BY <1>4 DEF Enters
  <2>2. /\ Busy /\ On[c] = running /\ c # me /\ stack[c] = <<>>
        /\ chain' = [chain EXCEPT ![running] = Append(@, c)]
    BY <1>4 DEF StartFiber
  <2>3. \A i \in DOMAIN chain[running] : chain[running][i] # c
    <3> SUFFICES ASSUME NEW i \in DOMAIN chain[running], chain[running][i] = c PROVE FALSE
      OBVIOUS
    <3> PICK n : n = Len(chain[running])
      OBVIOUS
    <3>1. i \in 1..n /\ n \in Nat /\ chain[running][n] = me
      BY <1>r, ChainIs, MeIsLast
    <3>2. i # n
      BY <3>1, <2>2
    <3>3. i < n
      BY <3>1, <3>2
    <3> QED
      BY <3>3, <2>2, <1>c, <1>r DEF Nested
  <2>4. \A d \in Contexts \ {c} : stack'[d] = stack[d]
    BY <1>4 DEF Enters
  <2>5. Nested(running)'
    BY <1>4, <1>c, <1>r, <2>2, <2>3, <2>4, AppendNested
  <2>6. \A t \in Threads \ {running} : Nested(t)'
    BY <1>2, <2>2, <2>4 DEF Shapes, ChainShape
  <2> QED
    BY <1>4, <2>1, <2>5, <2>6 DEF Nested
<1>5. ASSUME Busy, NEW raised \in BOOLEAN, End(raised)
      PROVE  Begun' /\ \A t \in Threads : Nested(t)'
  <2>1. programs > 0 /\ programs' = programs
    BY <1>5, BusyHasFile DEF End
  <2>2. Begun'
    BY <2>1
  <2>3. Nested(running)'
    BY <1>5, <1>c, <1>r, EndNested
  <2>4. /\ \A d \in Contexts \ {me} : stack'[d] = stack[d]
        /\ UNCHANGED <<chain, running>>
    BY <1>5, EndPops DEF End
  <2>5. \A t \in Threads \ {running} : Nested(t)'
    BY <1>2, <1>r, <2>4
  <2> QED
    BY <2>2, <2>3, <2>4, <2>5 DEF Nested
<1>6. ASSUME NEW c \in Contexts, Resume(c) PROVE Begun' /\ \A t \in Threads : Nested(t)'
  <2>1. /\ Busy /\ On[c] = running /\ c \notin Waiting
        /\ chain' = [chain EXCEPT ![running] = Append(@, c)]
        /\ UNCHANGED <<running, stack, programs, blocks>>
    BY <1>6 DEF Resume, SwitchTo, host
  <2>2. Begun'
    BY <1>c, <2>1
  <2>3. \A i \in DOMAIN chain[running] : chain[running][i] # c
    BY <2>1 DEF Waiting
  <2>4. Nested(running)'
    BY <1>c, <1>r, <2>1, <2>3, AppendNested
  <2>5. \A t \in Threads \ {running} : Nested(t)'
    BY <1>2, <2>1 DEF Shapes, ChainShape
  <2> QED
    BY <2>1, <2>2, <2>4, <2>5 DEF Nested
<1>7. CASE Yield \/ EndFiber
  <2>1. /\ GivesBack
        /\ chain' = [chain EXCEPT ![running] = Front(@)]
        /\ UNCHANGED <<running, stack, programs, blocks>>
    BY <1>7 DEF Yield, EndFiber, SwitchTo, host
  <2>2. Begun'
    BY <1>c, <2>1
  <2>4. Nested(running)'
    BY <1>c, <1>r, <2>1, FrontNested
  <2>5. \A t \in Threads \ {running} : Nested(t)'
    BY <1>2, <1>r, <2>1 DEF Shapes, ChainShape
  <2> QED
    BY <2>1, <2>2, <2>4, <2>5 DEF Nested
<1>8. ASSUME NEW c \in Contexts, NEW b \in blocks, StartThread(c, b)
      PROVE  Begun' /\ \A t \in Threads : Nested(t)'
  <2>1. programs # 0 /\ programs' = programs
    BY <1>8, <1>c DEF StartThread
  <2>2. Begun'
    BY <2>1
  <2>3. PICK y : stack' = [stack EXCEPT ![c] = y]
    BY <1>8 DEF StartThread
  <2>4. chain' = [chain EXCEPT ![On[c]] = <<c>>]
    BY <1>8 DEF StartThread
  <2>5. ASSUME NEW t \in Threads PROVE Nested(t)'
    <3>1. CASE t = On[c]
      BY <1>8, <3>1, ThreadNested
    <3>2. CASE t # On[c]
      <4>1. chain'[t] = chain[t]
        BY <2>4, <3>2 DEF Shapes, ChainShape
      <4>2. \A d \in Contexts : On[d] = t => stack'[d] = stack[d]
        BY <2>3, <3>2 DEF Shapes
      <4> QED
        BY <4>1, <4>2, <1>c, OthersStayNested
    <3> QED
      BY <3>1, <3>2
  <2> QED
    BY <2>2, <2>5
<1>9. CASE StartRun
  <2>1. programs' \in Nat \ {0}
    BY <1>9 DEF StartRun, Compiles, Shapes
  <2> QED
    BY <1>9, <2>1, RunNested
<1> HIDE DEF Begun
<1> QED
  BY <1>1, <1>3, <1>4, <1>5, <1>6, <1>7, <1>8, <1>9, MovesAre

-----------------------------------------------------------------------------
(* The tables hold what their types say.                                    *)

PoolTyped ==
  /\ pool \in [Threads -> Seq(VM)]
  /\ \A t \in Threads : Len(pool[t]) <= PoolMax

LEMMA FrontTyped ==
  ASSUME NEW S, NEW s \in Seq(S), s # <<>>
  PROVE  Front(s) \in Seq(S) /\ Len(Front(s)) = Len(s) - 1 /\ Last(s) \in S
<1>1. Len(s) \in Nat /\ Len(s) # 0 /\ Len(s) \in DOMAIN s
  OBVIOUS
<1>2. Len(Front(s)) = Len(s) - 1
  <2>1. IsSequence(s)
    BY DEF IsSequence
  <2> QED
    BY <2>1, FrontDomain
<1>3. Front(s) \in Seq(S)
  BY DEF Front
<1>4. Last(s) \in S
  BY <1>1 DEF Last
<1> QED
  BY <1>2, <1>3, <1>4

LEMMA ElementTyped ==
  ASSUME NEW S, NEW s \in Seq(S), NEW k \in DOMAIN s
  PROVE  s[k] \in S
OBVIOUS

LEMMA UpdateTyped ==
  ASSUME NEW S, NEW s \in Seq(S), NEW k \in DOMAIN s, NEW x \in S
  PROVE  [s EXCEPT ![k] = x] \in Seq(S) /\ Len([s EXCEPT ![k] = x]) = Len(s)
OBVIOUS

LEMMA PoolWithoutTyped ==
  ASSUME PoolTyped, running \in Threads, NEW id
  PROVE  PoolWithout(id) \in Seq(VM) /\ Len(PoolWithout(id)) <= PoolMax
<1> DEFINE p == pool[running]
<1>1. p \in Seq(VM) /\ Len(p) \in Nat /\ Len(p) <= PoolMax /\ PoolMax \in Nat
  BY LoadAssumption DEF PoolTyped
<1>2. CASE p = <<>>
  BY <1>1, <1>2 DEF PoolWithout
<1>3. CASE p # <<>> /\ Holding(id) = {}
  <2>1. PoolWithout(id) = Front(p)
    BY <1>3 DEF PoolWithout
  <2>2. Front(p) \in Seq(VM) /\ Len(Front(p)) = Len(p) - 1
    BY <1>1, <1>3, FrontTyped
  <2> QED
    BY <1>1, <2>1, <2>2
<1>4. CASE p # <<>> /\ Holding(id) # {}
  <2> DEFINE k == Latest(Holding(id))
             q == [p EXCEPT ![k] = Last(p)]
  <2>1. PoolWithout(id) = Front(q)
    BY <1>4 DEF PoolWithout
  <2>2. k \in DOMAIN p
    <3>1. Holding(id) \subseteq 1..Len(p)
      BY <1>1 DEF Holding
    <3> QED
      BY <3>1, <1>1, <1>4, LatestIsIn DEF Holding
  <2>3. Last(p) \in VM
    BY <1>1, <1>4, FrontTyped
  <2>4. q \in Seq(VM) /\ Len(q) = Len(p)
    BY <1>1, <2>2, <2>3, UpdateTyped
  <2>5. q # <<>>
    BY <2>2
  <2> HIDE DEF q
  <2>6. Front(q) \in Seq(VM) /\ Len(Front(q)) = Len(q) - 1
    BY <2>4, <2>5, FrontTyped
  <2> QED
    BY <1>1, <2>1, <2>4, <2>6
<1> QED
  BY <1>2, <1>3, <1>4

LEMMA ChunkTyped ==
  ASSUME PoolTyped, running \in Threads, NEW id, NEW fetched \in Nat
  PROVE  ChunkFor(id, fetched) \in Nat
<1> DEFINE p == pool[running]
           k == Latest(Holding(id))
<1>1. p \in Seq(VM) /\ Len(p) \in Nat
  BY DEF PoolTyped
<1>2. CASE Holding(id) = {}
  BY <1>2 DEF ChunkFor
<1>3. CASE Holding(id) # {}
  <2>1. Holding(id) \subseteq 1..Len(p)
    BY <1>1 DEF Holding
  <2>2. k \in DOMAIN p
    BY <2>1, <1>1, <1>3, LatestIsIn DEF Holding
  <2>3. p[k] \in VM
    BY <1>1, <2>2
  <2>4. p[k].code \in Nat
    BY <2>3 DEF VM
  <2> QED
    BY <1>3, <2>4 DEF ChunkFor
<1> QED
  BY <1>2, <1>3

\* What Enter adds is of the type of what there is.
LEMMA EnterTyped ==
  ASSUME TypeOK, NEW c \in Contexts, NEW id \in Id, NEW fetched \in Nat,
         NEW wanted \in Nat, NEW file \in Files, NEW pushed,
         NEW loads \in Loadable \cup {NoFile}, NEW require, {pushed, require} \subseteq BOOLEAN,
         Enter(c, id, fetched, wanted, file, pushed, loads, require)
  PROVE  /\ stack' \in [Contexts -> Seq(Activation)]
         /\ PoolTyped'
         /\ calls' \in 0..MaxCalls
<1>p. PoolTyped /\ running \in Threads
  BY DEF TypeOK, PoolTyped
<1> DEFINE x == [id |-> id, runs |-> ChunkFor(id, fetched), wanted |-> wanted, file |-> file,
                 pushed |-> pushed, loads |-> loads, require |-> require]
<1>1. ChunkFor(id, fetched) \in Nat
  BY <1>p, ChunkTyped
<1>2. x \in Activation
  BY <1>1 DEF Activation
<1>3. stack' = [stack EXCEPT ![c] = Append(@, x)] /\ pool' = [pool EXCEPT ![running] = PoolWithout(id)]
  BY DEF Enter
<1> HIDE DEF x
<1>4. stack' \in [Contexts -> Seq(Activation)]
  <2>1. Append(stack[c], x) \in Seq(Activation)
    BY <1>2 DEF TypeOK
  <2> QED
    BY <1>3, <2>1 DEF TypeOK
<1>5. PoolTyped'
  <2>1. PoolWithout(id) \in Seq(VM) /\ Len(PoolWithout(id)) <= PoolMax
    BY <1>p, PoolWithoutTyped
  <2> QED
    BY <1>3, <1>p, <2>1 DEF PoolTyped
<1>6. calls' \in 0..MaxCalls
  BY LoadAssumption DEF Enter, TypeOK
<1> QED
  BY <1>4, <1>5, <1>6

\* A block's template, and so its file, is there.
LEMMA TemplateTyped ==
  ASSUME TypeOK, CodeInv, NEW b \in blocks
  PROVE  /\ b.id \in Id /\ b.program \in Nat
         /\ procs[b.id].code \in Nat /\ procs[b.id].file \in Files
<1>1. b \in [program : Nat, id : Nat]
  BY DEF TypeOK
<1>2. b.id \in 1..Len(procs)
  BY DEF CodeInv, BlocksAreFiled
<1>3. procs[b.id] \in [code : Nat, file : Files]
  <2>1. procs \in Seq([code : Nat, file : Files])
    BY DEF TypeOK
  <2>2. b.id \in DOMAIN procs
    BY <1>2, <2>1
  <2> QED
    BY <2>1, <2>2, ElementTyped
<1> QED
  BY <1>1, <1>3 DEF Id

LEMMA CallTyped ==
  ASSUME TypeOK, Shapes', CodeInv, NEW c \in Contexts, NEW b \in blocks, CallBlock(c, b),
         UNCHANGED <<mixed, running>>, interrupted' \in BOOLEAN
  PROVE  TypeOK'
<1> PICK file, pushed, require, loads :
      /\ file = procs[b.id].file /\ pushed = Foreign(file)
      /\ require = FALSE /\ loads = NoFile
  OBVIOUS
<1>1. Enter(c, b.id, procs[b.id].code, b.program, file, pushed, loads, require)
  BY DEF CallBlock
<1>2. /\ b.id \in Id /\ b.program \in Nat /\ procs[b.id].code \in Nat
      /\ file \in Files /\ pushed \in BOOLEAN
      /\ loads \in Loadable \cup {NoFile} /\ {pushed, require} \subseteq BOOLEAN
  BY TemplateTyped DEF Foreign
<1>3. stack' \in [Contexts -> Seq(Activation)] /\ PoolTyped' /\ calls' \in 0..MaxCalls
  BY <1>1, <1>2, EnterTyped
<1>4. files' \in [Threads -> Seq(Files)]
  <2>1. files' = IF pushed THEN [files EXCEPT ![running] = Append(@, file)] ELSE files
    BY DEF CallBlock
  <2>2. files \in [Threads -> Seq(Files)] /\ running \in Threads
    BY DEF TypeOK
  <2>3. Append(files[running], file) \in Seq(Files)
    BY <1>2, <2>2
  <2> QED
    BY <2>1, <2>2, <2>3
<1>5. answer' = NoAnswer /\ UNCHANGED <<features, autoloads, consts, procs, blocks, programs,
                                       started, ended>>
  BY DEF CallBlock, host
<1> QED
  BY <1>3, <1>4, <1>5 DEF TypeOK, PoolTyped, NoAnswer, Shapes, ChainShape

LEMMA RunTyped ==
  ASSUME TypeOK, Shapes, Shapes', Len(files[running]) >= 1,
         NEW f \in Loadable, NEW require \in BOOLEAN, NEW features_ \in SUBSET Loadable,
         Run(f, require, features_), autoloads' \subseteq Files
  PROVE  TypeOK'
<1> PICK n : n = programs'
  OBVIOUS
<1> DEFINE pushed == f \in Files
           file == IF pushed THEN f ELSE CurrentFile
<1>1. files \in [Threads -> Seq(Files)] /\ running \in Threads
  BY DEF TypeOK
<1>2. CurrentFile \in Files
  <2>1. files[running] \in Seq(Files) /\ files[running] # <<>>
    BY <1>1
  <2> QED
    BY <2>1, FrontTyped DEF CurrentFile
<1>3. file \in Files /\ pushed \in BOOLEAN /\ (pushed => file = f)
  BY <1>2
<1>4. n \in Nat /\ n \in 0..MaxPrograms
  BY LoadAssumption DEF Run, Compiles, TypeOK
<1>5. Enter(me, NoId, n, n, file, pushed, f, require)
  BY DEF Run
<1>6. stack' \in [Contexts -> Seq(Activation)] /\ PoolTyped' /\ calls' \in 0..MaxCalls
  <2>1. {pushed, require} \subseteq BOOLEAN /\ me \in Contexts /\ NoId \in Id /\ f \in Loadable \cup {NoFile}
    BY SelfIsContext DEF Id
  <2> QED
    BY <1>3, <1>4, <1>5, <2>1, EnterTyped
<1>7. files' \in [Threads -> Seq(Files)]
  <2>1. files' = IF pushed THEN [files EXCEPT ![running] = Append(@, f)] ELSE files
    BY DEF Run
  <2>2. pushed => Append(files[running], f) \in Seq(Files)
    BY <1>1, <1>3
  <2> QED
    BY <1>1, <2>1, <2>2
<1>8. procs' \in Seq([code : Nat, file : Files])
  <2>1. procs' = Append(procs, [code |-> n, file |-> file])
    BY DEF Run, Merge
  <2>2. procs \in Seq([code : Nat, file : Files])
    BY DEF TypeOK
  <2> QED
    BY <1>3, <1>4, <2>1, <2>2
<1>9. blocks' \subseteq [program : Nat, id : Nat]
  <2>1. Len(procs) + 1 \in Nat
    BY DEF TypeOK
  <2> QED
    BY <1>4, <2>1 DEF Run, Merge, Offset, TypeOK
<1>10. started' \in [Loadable -> Nat]
  BY DEF Run, TypeOK
<1>11. /\ features' \subseteq Loadable /\ answer' = NoAnswer
       /\ UNCHANGED <<consts, running, ended, mixed, interrupted>>
  BY DEF Run
<1> QED
  BY <1>4, <1>6, <1>7, <1>8, <1>9, <1>10, <1>11
     DEF TypeOK, PoolTyped, NoAnswer, Shapes, ChainShape

LEMMA EndTyped ==
  ASSUME TypeOK, Shapes, Shapes', Busy, NEW raised, End(raised)
  PROVE  TypeOK'
<1>1. me \in Contexts /\ running \in Threads /\ stack[me] \in Seq(Activation) /\ stack[me] # <<>>
  BY SelfIsContext DEF TypeOK, Busy
<1>2. Front(stack[me]) \in Seq(Activation) /\ Body \in Activation
  BY <1>1, FrontTyped DEF Body
<1>3. stack' \in [Contexts -> Seq(Activation)]
  BY <1>2 DEF End, TypeOK
<1> DEFINE vm == [id |-> Body.id, code |-> Body.runs]
<1>4. vm \in VM
  BY <1>2 DEF VM, Activation
<1>5. pool' = [pool EXCEPT ![running] = PutBack(vm)]
  BY DEF End
<1> HIDE DEF vm
<1>6. PoolTyped'
  <2>1. /\ pool[running] \in Seq(VM) /\ Len(pool[running]) \in Nat
        /\ Len(pool[running]) <= PoolMax /\ PoolMax \in Nat
    BY <1>1, LoadAssumption DEF TypeOK
  <2>2. PutBack(vm) \in Seq(VM) /\ Len(PutBack(vm)) <= PoolMax
    BY <1>4, <2>1 DEF PutBack
  <2> QED
    BY <1>1, <1>5, <2>2 DEF PoolTyped, TypeOK
<1>7. files' \in [Threads -> Seq(Files)]
  <2>1. files' = IF stack[me][Len(stack[me])].pushed
                 THEN [files EXCEPT ![running] = Front(@)] ELSE files
    BY EndPops
  <2>2. Front(files[running]) \in Seq(Files)
    BY <1>1 DEF Front, TypeOK
  <2> QED
    BY <2>1, <2>2 DEF TypeOK
<1>8. ended' \subseteq Loadable
  <2>1. Body.loads \in Loadable \cup {NoFile}
    BY <1>2 DEF Activation
  <2> QED
    BY <2>1 DEF End, TypeOK
<1>9. /\ answer' = NoAnswer
      /\ UNCHANGED <<features, autoloads, consts, procs, blocks, running, programs, calls,
                     started, mixed, interrupted>>
  BY DEF End, host
<1> QED
  BY <1>3, <1>6, <1>7, <1>8, <1>9 DEF TypeOK, PoolTyped, NoAnswer, Shapes, ChainShape

LEMMA ThreadTyped ==
  ASSUME TypeOK, Shapes', CodeInv, NEW c \in Contexts, NEW b \in blocks, StartThread(c, b)
  PROVE  TypeOK'
<1> DEFINE file == procs[b.id].file
           x == [id |-> b.id, runs |-> procs[b.id].code, wanted |-> b.program, file |-> file,
                 pushed |-> TRUE, loads |-> NoFile, require |-> FALSE]
<1>1. /\ b.id \in Id /\ b.program \in Nat /\ procs[b.id].code \in Nat /\ file \in Files
      /\ On[c] \in Threads
  BY TemplateTyped DEF Threads
<1>2. x \in Activation
  BY <1>1 DEF Activation
<1>3. /\ stack' = [stack EXCEPT ![c] = <<x>>] /\ pool' = [pool EXCEPT ![On[c]] = <<>>]
      /\ files' = [files EXCEPT ![On[c]] = <<file>>]
  BY DEF StartThread
<1> HIDE DEF x, file
<1>4. stack' \in [Contexts -> Seq(Activation)]
  <2>1. <<x>> \in Seq(Activation)
    BY <1>2
  <2> QED
    BY <1>3, <2>1 DEF TypeOK
<1>5. PoolTyped'
  <2>1. <<>> \in Seq(VM) /\ Len(<<>>) = 0 /\ 0 <= PoolMax
    BY LoadAssumption
  <2> QED
    BY <1>1, <1>3, <2>1 DEF PoolTyped, TypeOK
<1>6. files' \in [Threads -> Seq(Files)]
  <2>1. <<file>> \in Seq(Files)
    BY <1>1
  <2> QED
    BY <1>3, <2>1 DEF TypeOK
<1>7. calls' \in 0..MaxCalls
  BY LoadAssumption DEF StartThread, TypeOK
<1>8. /\ answer' = NoAnswer /\ running' \in Threads /\ mixed' \subseteq Threads
      /\ interrupted' \in BOOLEAN
      /\ UNCHANGED <<features, autoloads, consts, procs, blocks, programs, started, ended>>
  BY <1>1 DEF StartThread, Interrupts, host, TypeOK
<1> QED
  BY <1>4, <1>5, <1>6, <1>7, <1>8 DEF TypeOK, PoolTyped, NoAnswer, Shapes, ChainShape

LEMMA StartTyped ==
  ASSUME TypeOK, Shapes', StartRun
  PROVE  TypeOK'
<1> PICK n : n = programs'
  OBVIOUS
<1> DEFINE x == [id |-> NoId, runs |-> n, wanted |-> n, file |-> Script,
                 pushed |-> FALSE, loads |-> NoFile, require |-> FALSE]
           p == [code |-> n, file |-> Script]
           q == [program |-> n, id |-> 1]
<1>1. n \in Nat /\ n \in 0..MaxPrograms /\ Script \in Files
  BY LoadAssumption DEF StartRun, Compiles, TypeOK
<1>2. x \in Activation /\ p \in [code : Nat, file : Files] /\ q \in [program : Nat, id : Nat]
  BY <1>1 DEF Activation, Id
<1>3. /\ procs' = <<p>> /\ blocks' = {q}
      /\ stack' = [c \in Contexts |-> IF c = Main THEN <<x>> ELSE <<>>]
      /\ files' = [t \in Threads |-> IF t = On[Main] THEN <<Script>> ELSE <<>>]
      /\ pool' = [t \in Threads |-> <<>>]
  BY DEF StartRun, PoolsReset
<1> HIDE DEF x, p, q
<1>4. stack' \in [Contexts -> Seq(Activation)]
  <2>1. <<x>> \in Seq(Activation) /\ <<>> \in Seq(Activation)
    BY <1>2
  <2> QED
    BY <1>3, <2>1
<1>5. PoolTyped'
  <2>1. <<>> \in Seq(VM) /\ Len(<<>>) = 0 /\ 0 <= PoolMax
    BY LoadAssumption
  <2> QED
    BY <1>3, <2>1 DEF PoolTyped
<1>6. files' \in [Threads -> Seq(Files)]
  <2>1. <<Script>> \in Seq(Files) /\ <<>> \in Seq(Files)
    BY <1>1
  <2> QED
    BY <1>3, <2>1
<1>7. procs' \in Seq([code : Nat, file : Files]) /\ blocks' \subseteq [program : Nat, id : Nat]
  BY <1>2, <1>3
<1>8. calls' \in 0..MaxCalls
  BY LoadAssumption DEF StartRun, TypeOK
<1>9. started' \in [Loadable -> Nat]
  BY DEF StartRun, NoneStarted
<1>10. /\ features' = {} /\ autoloads' = {} /\ consts' = {} /\ ended' = {}
       /\ answer' = NoAnswer /\ mixed' = {} /\ interrupted' = FALSE
       /\ UNCHANGED running
  BY DEF StartRun
<1> QED
  BY <1>1, <1>4, <1>5, <1>6, <1>7, <1>8, <1>9, <1>10
     DEF TypeOK, PoolTyped, NoAnswer, Shapes, ChainShape

LEMMA TypeInit ==
  ASSUME Init
  PROVE  TypeOK
<1>1. chain \in [Threads -> Seq(Contexts)] /\ running \in Threads
  BY ShapesInit DEF Shapes, ChainShape
<1>2. /\ procs = <<>> /\ blocks = {} /\ programs = 0 /\ calls = 0
      /\ features = {} /\ autoloads = {} /\ consts = {} /\ ended = {} /\ mixed = {}
      /\ answer = NoAnswer /\ interrupted = FALSE
      /\ started \in [Loadable -> Nat]
  BY DEF Init, NoneStarted
<1>3. /\ files \in [Threads -> Seq(Files)] /\ stack \in [Contexts -> Seq(Activation)]
      /\ pool \in [Threads -> Seq(VM)] /\ \A t \in Threads : Len(pool[t]) = 0
  <2>1. <<>> \in Seq(Files) /\ <<>> \in Seq(Activation) /\ <<>> \in Seq(VM) /\ Len(<<>>) = 0
    OBVIOUS
  <2> QED
    BY <2>1 DEF Init
<1>4. <<>> \in Seq([code : Nat, file : Files])
  OBVIOUS
<1>5. 0 \in 0..MaxPrograms /\ 0 \in 0..MaxCalls /\ 0 <= PoolMax
  BY LoadAssumption
<1>6. answer \in [file : Loadable \cup {NoFile}, says : {"nothing", "loaded", "missing"}]
  BY <1>2 DEF NoAnswer
<1>7. \A t \in Threads : Len(pool[t]) <= PoolMax
  BY <1>3, <1>5
<1>8. procs \in Seq([code : Nat, file : Files]) /\ blocks \subseteq [program : Nat, id : Nat]
  BY <1>2, <1>4
<1> QED
  BY <1>1, <1>2, <1>3, <1>5, <1>6, <1>7, <1>8 DEF TypeOK

LEMMA TypeStep ==
  ASSUME Shapes, CountInv, NestInv, CodeInv, TypeOK, [Next]_vars
  PROVE  TypeOK'
<1>s. Shapes'
  BY ShapesStep
<1>c. chain' \in [Threads -> Seq(Contexts)] /\ running' \in Threads
  BY <1>s DEF Shapes, ChainShape
<1>0. CASE UNCHANGED vars
  BY <1>0 DEF vars, host, history, TypeOK
<1>1. ASSUME Busy, NEW f \in Loadable, NEW require \in BOOLEAN,
             NEW features_ \in SUBSET Loadable, Run(f, require, features_),
             autoloads' \subseteq Files
      PROVE  TypeOK'
  BY <1>1, <1>s, BusyHasFile, RunTyped
<1>2. ASSUME NEW f \in Loadable, NEW says \in {"loaded", "missing"}, autoloads' \subseteq Files,
             RequireAgain(f, says) \/ RequireInvalid(f)
      PROVE  TypeOK'
  <2>1. answer' = [file |-> f, says |-> says] \/ answer' = [file |-> NoFile, says |-> "nothing"]
    BY <1>2 DEF RequireAgain, RequireInvalid, Answer, NoAnswer
  <2>2. /\ UNCHANGED <<features, consts, programs>> /\ Quiet
    BY <1>2 DEF RequireAgain, RequireInvalid
  <2> QED
    BY <1>2, <2>1, <2>2 DEF Quiet, TypeOK
<1>3. ASSUME Busy, NEW f \in Loadable, RequireNew(f), autoloads' \subseteq Files PROVE TypeOK'
  <2>1. features \cup {f} \in SUBSET Loadable
    BY DEF TypeOK
  <2>2. Run(f, TRUE, features \cup {f})
    BY <1>3 DEF RequireNew, Record
  <2> QED
    BY <1>1, <1>3, <2>1, <2>2
<1>4. ASSUME Busy, NEW f \in Loadable, Require(f) PROVE TypeOK'
  <2>1. autoloads' \subseteq Files
    BY <1>4 DEF Require, TypeOK
  <2> QED
    BY <1>2, <1>3, <1>4, <2>1 DEF Require
<1>5. ASSUME Busy, NEW f \in Files, Load(f) PROVE TypeOK'
  <2>1. autoloads' \subseteq Files /\ features \in SUBSET Loadable /\ f \in Loadable
    BY <1>5 DEF Load, TypeOK, Loadable
  <2>2. Run(f, FALSE, features)
    BY <1>5 DEF Load
  <2> QED
    BY <1>1, <1>5, <2>1, <2>2
<1>6. ASSUME Busy, NEW f \in Files, Autoload(f) PROVE TypeOK'
  BY <1>6 DEF Autoload, Quiet, TypeOK, NoAnswer
<1>7. ASSUME Busy, NEW f \in Files, ReadConst(f) PROVE TypeOK'
  <2>1. autoloads' \subseteq Files /\ f \in Loadable
    BY <1>7 DEF ReadConst, TypeOK, Loadable
  <2> QED
    BY <1>2, <1>3, <1>7, <2>1 DEF ReadConst
<1>8. CASE Busy /\ Define
  <2>1. Body \in Activation
    BY <1>8, SelfIsContext, FrontTyped DEF Busy, Body, TypeOK
  <2>2. Body.loads \in Loadable \cup {NoFile}
    BY <2>1 DEF Activation
  <2>3. consts' \subseteq Loadable
    BY <1>8, <2>2 DEF Define, TypeOK
  <2> QED
    BY <1>8, <2>3 DEF Define, Quiet, TypeOK, NoAnswer
<1>9. ASSUME NEW b \in blocks, Call(b) PROVE TypeOK'
  <2>1. interrupted' \in BOOLEAN
    BY <1>9 DEF Call, TypeOK
  <2> QED
    BY <1>9, <1>s, <2>1, SelfIsContext, CallTyped DEF Call
<1>10. ASSUME Busy, NEW raised \in BOOLEAN, End(raised) PROVE TypeOK'
  BY <1>10, <1>s, EndTyped
<1>11. CASE RubyStep
  <2>1. Busy
    BY <1>11 DEF RubyStep
  <2>2. \/ \E f \in Loadable : Require(f)
        \/ \E f \in Files : Load(f) \/ Autoload(f) \/ ReadConst(f)
        \/ Define
        \/ \E b \in blocks : Call(b)
        \/ \E raised \in BOOLEAN : End(raised)
    BY <1>11 DEF RubyStep
  <2> QED
    BY <2>1, <2>2, <1>4, <1>5, <1>6, <1>7, <1>8, <1>9, <1>10
<1>12. ASSUME NEW chain_, NEW mixed_, mixed_ \subseteq Threads, SwitchTo(chain_, mixed_)
       PROVE  TypeOK'
  <2>1. interrupted' \in BOOLEAN
    BY <1>12 DEF SwitchTo, Interrupts
  <2> QED
    BY <1>c, <1>12, <2>1 DEF SwitchTo, host, TypeOK, NoAnswer
<1>13. CASE Switch
  <2>1. ASSUME NEW t, SwitchThread(t) PROVE TypeOK'
    BY <1>c, <2>1 DEF SwitchThread, Interrupts, host, TypeOK, NoAnswer
  <2>2. ASSUME NEW c \in Contexts, NEW b \in blocks, StartFiber(c, b) PROVE TypeOK'
    <3>1. interrupted' \in BOOLEAN
      BY <2>2 DEF StartFiber, Interrupts
    <3> QED
      BY <2>2, <3>1, <1>s, CallTyped DEF StartFiber
  <2>3. mixed \subseteq Threads /\ mixed \cup {running} \subseteq Threads
    BY DEF TypeOK
  <2>4. CASE (\E c \in Contexts : Resume(c)) \/ Yield \/ EndFiber
    BY <1>12, <2>3, <2>4 DEF Resume, Yield, EndFiber
  <2> QED
    BY <1>13, <1>s, <2>1, <2>2, <2>4, ThreadTyped DEF Switch
<1> QED
  BY <1>0, <1>11, <1>13, <1>s, StartTyped DEF Next

LEMMA CountInit ==
  ASSUME Init
  PROVE  CountInv
<1>1. /\ \A t : Kept(t) = 0
      /\ \A c \in Contexts : stack[c] = <<>>
      /\ DOMAIN files = Threads /\ \A t \in Threads : files[t] = <<>>
  BY DEF Init, Kept
<1>2. \A t : Pushed(t) = {}
  BY <1>1, EmptyIsSequence DEF Pushed
<1>3. IsFiniteSet({}) /\ Cardinality({}) = 0 /\ IsSequence(<<>>) /\ Len(<<>>) = 0
  BY EmptyIsSequence, FS_EmptySet
<1>4. \A t \in Threads : /\ IsSequence(files[t]) /\ IsFiniteSet(Pushed(t))
                         /\ Len(files[t]) = 0 /\ Kept(t) = 0 /\ Cardinality(Pushed(t)) = 0
  BY <1>1, <1>2, <1>3
<1> QED
  BY <1>1, <1>4 DEF CountInv

LEMMA NestInit ==
  ASSUME Init
  PROVE  NestInv
<1>1. \A t \in Threads : chain[t] = IF t = On[Main] THEN <<Main>> ELSE <<>>
  BY DEF Init, NoneRuns
<1>2. DOMAIN <<Main>> = {1} /\ Len(<<Main>>) = 1 /\ DOMAIN <<>> = {}
  BY SingletonIsSequence, EmptyIsSequence
<1>3. \A t \in Threads :
        /\ \A i, j \in DOMAIN chain[t] : chain[t][i] = chain[t][j] => i = j
        /\ \A i \in DOMAIN chain[t] : ~(i < Len(chain[t]))
        /\ t # On[Main] => chain[t] = <<>>
  <2> SUFFICES ASSUME NEW t \in Threads
               PROVE  /\ \A i, j \in DOMAIN chain[t] : chain[t][i] = chain[t][j] => i = j
                      /\ \A i \in DOMAIN chain[t] : ~(i < Len(chain[t]))
                      /\ t # On[Main] => chain[t] = <<>>
    OBVIOUS
  <2>1. CASE t = On[Main]
    <3>1. chain[t] = <<Main>>
      BY <1>1, <2>1
    <3>2. DOMAIN chain[t] = {1} /\ Len(chain[t]) = 1
      BY <1>2, <3>1
    <3> QED
      BY <2>1, <3>2
  <2>2. CASE t # On[Main]
    BY <1>1, <1>2, <2>2
  <2> QED
    BY <2>1, <2>2
<1>4. blocks = {} /\ \A c \in Contexts : stack[c] = <<>>
  BY DEF Init
<1> QED
  BY <1>3, <1>4 DEF NestInv, Nested

\* Whatever is required, called, resumed and abandoned, the tables keep their
\* types, and no pool grows above VM_POOL_MAX.
THEOREM TypeCorrect == Spec => []TypeOK
<1>1. Init => CodeInv
  BY EmptyIsSequence DEF Init, CodeInv, BlocksAreFiled, PoolIsFiled, StackIsFiled
<1> QED
  BY <1>1, ShapesInit, CountInit, NestInit, TypeInit, ShapesStep, CountStep, NestStep, CodeStep,
     TypeStep, PTL DEF Spec

-----------------------------------------------------------------------------
(* A body runs in the file it was written in.                               *)

\* The places up to a body are those in a beginning of the chain.
LEMMA BeforeStays ==
  ASSUME NEW t, NEW i \in Nat, NEW k,
         DOMAIN chain[t] \subseteq Nat, DOMAIN chain'[t] \subseteq Nat,
         \A j \in DOMAIN chain[t] :
           j <= i => j \in DOMAIN chain'[t] /\ chain'[t][j] = chain[t][j],
         \A j \in DOMAIN chain'[t] :
           j <= i => j \in DOMAIN chain[t] /\ chain'[t][j] = chain[t][j]
  PROVE  Before(t, i, k)' = Before(t, i, k)
<1>1. ASSUME NEW a \in Contexts \X Nat
      PROVE  (\E j \in DOMAIN chain'[t] : a[1] = chain'[t][j] /\ (j < i \/ (j = i /\ a[2] <= k)))
             <=> (\E j \in DOMAIN chain[t] : a[1] = chain[t][j] /\ (j < i \/ (j = i /\ a[2] <= k)))
  <2>1. ASSUME NEW j \in DOMAIN chain'[t], a[1] = chain'[t][j],
               j < i \/ (j = i /\ a[2] <= k)
        PROVE  j \in DOMAIN chain[t] /\ a[1] = chain[t][j]
    <3>1. j \in Nat /\ j <= i
      BY <2>1
    <3> QED
      BY <2>1, <3>1
  <2>2. ASSUME NEW j \in DOMAIN chain[t], a[1] = chain[t][j],
               j < i \/ (j = i /\ a[2] <= k)
        PROVE  j \in DOMAIN chain'[t] /\ a[1] = chain'[t][j]
    <3>1. j \in Nat /\ j <= i
      BY <2>2
    <3> QED
      BY <2>2, <3>1
  <2> QED
    BY <2>1, <2>2
<1> QED
  BY <1>1 DEF Before

\* The height of a body is what it was, when nothing up to it changes.
LEMMA HeightStays ==
  ASSUME NEW t, NEW i, NEW k, Kept(t)' = Kept(t), Before(t, i, k)' = Before(t, i, k),
         \A a \in Before(t, i, k) : a \in Pushed(t)' <=> a \in Pushed(t)
  PROVE  Until(t, i, k)' = Until(t, i, k) /\ Height(t, i, k)' = Height(t, i, k)
<1>1. Until(t, i, k)' = Until(t, i, k)
  BY DEF Until
<1> QED
  BY <1>1 DEF Height

\* No body is higher than the file stack.
LEMMA HeightBound ==
  ASSUME CountInv, NEW t \in Threads, NEW i, NEW k
  PROVE  Height(t, i, k) \in Nat /\ Height(t, i, k) <= Len(files[t])
<1>1. /\ IsFiniteSet(Pushed(t)) /\ Len(files[t]) = Kept(t) + Cardinality(Pushed(t))
  BY DEF CountInv
<1>2. Until(t, i, k) \subseteq Pushed(t)
  BY DEF Until
<1>3. /\ IsFiniteSet(Until(t, i, k))
      /\ Cardinality(Until(t, i, k)) <= Cardinality(Pushed(t))
  BY <1>1, <1>2, FS_Subset
<1>4. Cardinality(Until(t, i, k)) \in Nat /\ Cardinality(Pushed(t)) \in Nat /\ Kept(t) \in Nat
  BY <1>1, <1>3, FS_CardinalityType DEF Kept
<1> QED
  BY <1>1, <1>3, <1>4 DEF Height

\* The other threads are as they were.
LEMMA OthersStayFiled ==
  ASSUME Shapes, CountInv, NEW t \in Threads, Filing(t), chain'[t] = chain[t],
         files'[t] = files[t], Kept(t)' = Kept(t), Pushed(t)' = Pushed(t),
         \A d \in Contexts : On[d] = t => stack'[d] = stack[d]
  PROVE  Filing(t)'
<1>1. /\ DOMAIN chain[t] = 1..Len(chain[t]) /\ Len(chain[t]) \in Nat
      /\ \A i \in DOMAIN chain[t] : chain[t][i] \in Contexts /\ On[chain[t][i]] = t
  BY ChainIs
<1>2. \A i \in DOMAIN chain[t] : stack'[chain[t][i]] = stack[chain[t][i]]
  BY <1>1
<1>3. \A i, k : Height(t, i, k)' = Height(t, i, k)
  BY DEF Height, Until, Before
<1> QED
  BY <1>1, <1>2, <1>3 DEF Filing

\* ... in the state after a step.
LEMMA HeightBoundAfter ==
  ASSUME CountInv', NEW t \in Threads, NEW i, NEW k
  PROVE  Height(t, i, k)' \in Nat /\ Height(t, i, k)' <= Len(files'[t])
<1>1. /\ IsFiniteSet(Pushed(t)') /\ Len(files'[t]) = Kept(t)' + Cardinality(Pushed(t)')
  BY DEF CountInv
<1>2. Until(t, i, k)' \subseteq Pushed(t)'
  BY DEF Until
<1>3. /\ IsFiniteSet(Until(t, i, k)')
      /\ Cardinality(Until(t, i, k)') <= Cardinality(Pushed(t)')
  BY <1>1, <1>2, FS_Subset
<1>4. Cardinality(Until(t, i, k)') \in Nat /\ Cardinality(Pushed(t)') \in Nat /\ Kept(t)' \in Nat
  BY <1>1, <1>3, FS_CardinalityType DEF Kept
<1> QED
  BY <1>1, <1>3, <1>4 DEF Height

\* The context that enters a body is the last one of the chain, or becomes it.
EntersLast(c) ==
  LET s == chain[running]
      r == chain'[running]
      n == Len(chain'[running])
  IN  /\ \A i \in DOMAIN s : i \in DOMAIN r /\ r[i] = s[i]
      /\ \A i \in DOMAIN r : i = n \/ i \in DOMAIN s
      /\ r[n] = c
      /\ stack[c] # <<>> => n \in DOMAIN s
      /\ running' = running

\* What was there before keeps its height.
LEMMA OldStaysFiled ==
  ASSUME Shapes, Shapes', CountInv, CountInv', NEW t, t = running, Nested(t)', Filing(t),
         NEW c \in Contexts, On[c] = t, NEW x, Enters(c, x), EntersLast(c),
         Kept(t)' = Kept(t), NEW i \in DOMAIN chain[t], NEW k \in DOMAIN stack[chain[t][i]]
  PROVE  /\ Height(t, i, k)' \in 1..Len(files'[t])
         /\ files'[t][Height(t, i, k)'] = stack'[chain[t][i]][k].file
<1> DEFINE s == chain[t]
           r == chain'[t]
           n == Len(r)
           L == Len(stack[c])
           new == <<c, L + 1>>
           H == Height(t, i, k)
<1>r. t \in Threads
  BY SelfIsContext
<1>1. /\ DOMAIN s = 1..Len(s) /\ Len(s) \in Nat /\ i \in Nat
      /\ DOMAIN r = 1..n /\ n \in Nat
  <2>1. chain' \in [Threads -> Seq(Contexts)]
    BY DEF Shapes, ChainShape
  <2>2. r \in Seq(Contexts)
    BY <1>r, <2>1
  <2> QED
    BY <1>r, <2>2, ChainIs
<1>2. /\ \A j \in DOMAIN s : j \in DOMAIN r /\ r[j] = s[j]
      /\ r[n] = c
  BY DEF EntersLast
<1>3. \A j \in DOMAIN s : s[j] = c => j = n
  <2> SUFFICES ASSUME NEW j \in DOMAIN s, s[j] = c PROVE j = n
    OBVIOUS
  <2>1. j \in DOMAIN r /\ r[j] = r[n] /\ n \in DOMAIN r
    BY <1>1, <1>2
  <2> QED
    BY <2>1 DEF Nested
<1>4. L \in Nat /\ DOMAIN stack[c] = 1..L
  BY LenOfNonempty DEF Shapes
<1>5. new \notin Before(t, i, k)
  <2> SUFFICES ASSUME NEW j \in DOMAIN s, c = s[j], j < i \/ (j = i /\ L + 1 <= k)
               PROVE  FALSE
    BY DEF Before
  <2>1. j = n /\ i \in 1..n /\ j \in Nat
    BY <1>1, <1>2, <1>3
  <2>2. j = i
    BY <2>1
  <2>3. k \in 1..L
    BY <2>2, <1>4
  <2> QED
    BY <2>1, <2>2, <2>3, <1>4
<1>6. Before(t, i, k)' = Before(t, i, k)
  <2>1. \A j \in DOMAIN r : j <= i => j \in DOMAIN s
    BY <1>1
  <2>2. DOMAIN s \subseteq Nat /\ DOMAIN r \subseteq Nat
    BY <1>1
  <2> QED
    BY <1>1, <1>2, <2>1, <2>2, BeforeStays
<1>7. Pushed(t)' = Pushed(t) \/ Pushed(t)' = Pushed(t) \cup {new}
  BY EntersPushes
<1>8. H' = H
  <2>1. \A a \in Before(t, i, k) : a \in Pushed(t)' <=> a \in Pushed(t)
    BY <1>5, <1>7
  <2> QED
    BY <1>6, <2>1, HeightStays
<1>9. H \in 1..Len(files[t]) /\ files[t][H] = stack[s[i]][k].file
  BY DEF Filing
<1>10. stack'[s[i]][k] = stack[s[i]][k]
  <2>1. s[i] \in Contexts
    BY <1>r, ChainIs
  <2> QED
    BY <2>1 DEF Enters
<1>11. H' \in Nat /\ H' <= Len(files'[t]) /\ Len(files'[t]) \in Nat
  <2>1. Len(files'[t]) \in Nat
    BY <1>r, LenOfNonempty DEF CountInv
  <2> QED
    BY <1>r, <2>1, HeightBoundAfter
<1>12. files'[t] = files[t] \/ files'[t] = Append(files[t], x.file)
  BY <1>r DEF Enters, CountInv
<1>13. files'[t][H] = files[t][H]
  <2>1. IsSequence(files[t])
    BY <1>r DEF CountInv
  <2> QED
    BY <1>9, <1>12, <2>1, AppendIsSequence, LenOfNonempty
<1>14. H >= 1 /\ H \in Nat
  <2>1. Len(files[t]) \in Nat
    BY <1>r, LenOfNonempty DEF CountInv
  <2> QED
    BY <1>9, <2>1
<1> HIDE DEF H
<1>15. H' \in 1..Len(files'[t])
  BY <1>8, <1>11, <1>14
<1> QED
  BY <1>8, <1>9, <1>10, <1>13, <1>15 DEF H

LEMMA EntersFiled ==
  ASSUME Shapes, Shapes', CountInv, CountInv', NestInv, NEW t, t = running, Nested(t)', Filing(t),
         Busy, NEW c \in Contexts, On[c] = t, NEW x, Enters(c, x), EntersLast(c)
  PROVE  Filing(t)'
<1> DEFINE s == chain[t]
           r == chain'[t]
<1> PICK n, l : n = Len(r) /\ l = Len(stack[c]) + 1
  OBVIOUS
<1>r. t \in Threads
  BY SelfIsContext
<1>1. DOMAIN r = 1..n /\ n \in Nat
  <2>1. chain' \in [Threads -> Seq(Contexts)]
    BY DEF Shapes, ChainShape
  <2>2. r \in Seq(Contexts)
    BY <1>r, <2>1
  <2> QED
    BY <2>2
<1>2. /\ \A i \in DOMAIN s : i \in DOMAIN r /\ r[i] = s[i]
      /\ \A i \in DOMAIN r : i = n \/ i \in DOMAIN s
      /\ r[n] = c
      /\ stack[c] # <<>> => n \in DOMAIN s
  BY DEF EntersLast
<1>3. n \in DOMAIN r
  <2>1. running' = t
    BY DEF EntersLast
  <2>2. r # <<>> /\ r \in Seq(Contexts)
    BY <2>1, <1>r DEF Shapes, ChainShape
  <2> QED
    BY <2>2
<1>4. l \in Nat /\ DOMAIN stack[c] \subseteq 0..l
  BY LenOfNonempty DEF Shapes
<1>5. /\ \A d \in Contexts \ {c} : stack'[d] = stack[d]
      /\ DOMAIN stack'[c] = DOMAIN stack[c] \cup {l}
      /\ stack'[c][l] = x
  BY DEF Enters
<1>6. Kept(t)' = Kept(t)
  BY BusyHasFile DEF Kept, Enters
<1>7. ASSUME NEW d \in Contexts, On[d] = t, stack'[d] # <<>>
      PROVE  \E i \in DOMAIN r : r[i] = d
  <2>1. CASE d = c
    BY <2>1, <1>2, <1>3
  <2>2. CASE d # c
    <3>1. stack[d] # <<>>
      BY <2>2, <1>5, <1>7
    <3> QED
      BY <3>1, <1>2, <1>7 DEF Filing
  <2> QED
    BY <2>1, <2>2
<1>8. ASSUME NEW i \in DOMAIN s, NEW k \in DOMAIN stack[s[i]]
      PROVE  /\ Height(t, i, k)' \in 1..Len(files'[t])
             /\ files'[t][Height(t, i, k)'] = stack'[r[i]][k].file
  BY <1>2, <1>6, <1>8, OldStaysFiled
<1>9. Until(t, n, l)' = Pushed(t)'
  <2> SUFFICES ASSUME NEW a \in Pushed(t)' PROVE a \in Before(t, n, l)'
    BY DEF Until
  <2>1. /\ a \in Contexts \X Nat /\ On[a[1]] = t /\ a[1] \in Contexts
        /\ a[2] \in DOMAIN stack'[a[1]] /\ a[2] \in Nat
    BY DEF Pushed
  <2>2. stack'[a[1]] # <<>>
    BY <2>1, EmptyIsSequence
  <2>3. PICK i \in DOMAIN r : r[i] = a[1]
    BY <2>1, <2>2, <1>7
  <2>4. i < n \/ i = n
    BY <1>1
  <2>5. i = n => a[2] <= l
    BY <2>1, <2>3, <1>2, <1>4, <1>5
  <2> QED
    BY <2>1, <2>3, <2>4, <2>5 DEF Before
<1>10. /\ Height(t, n, l)' = Len(files'[t])
       /\ Len(files'[t]) \in 1..Len(files'[t])
       /\ files'[t][Len(files'[t])] = x.file
  <2>1. Height(t, n, l)' = Len(files'[t])
    BY <1>r, <1>9 DEF Height, CountInv
  <2>2. /\ IsSequence(files[t]) /\ Len(files[t]) \in Nat /\ Len(files[t]) >= 1
        /\ DOMAIN files = Threads
    BY <1>r, BusyHasFile, LenOfNonempty DEF CountInv
  <2>3. CASE x.pushed
    <3>1. files'[t] = Append(files[t], x.file)
      BY <2>2, <2>3, <1>r DEF Enters
    <3>2. Len(files'[t]) = Len(files[t]) + 1 /\ files'[t][Len(files[t]) + 1] = x.file
      BY <2>2, <3>1, AppendIsSequence
    <3> QED
      BY <2>1, <2>2, <3>2
  <2>4. CASE ~x.pushed
    <3>1. files'[t] = files[t] /\ x.file = files[t][Len(files[t])]
      BY <2>4 DEF Enters, CurrentFile, Last
    <3> QED
      BY <2>1, <2>2, <3>1
  <2> QED
    BY <2>3, <2>4
<1>11. ASSUME NEW i \in DOMAIN r, NEW k \in DOMAIN stack'[r[i]]
       PROVE  /\ Height(t, i, k)' \in 1..Len(files'[t])
              /\ files'[t][Height(t, i, k)'] = stack'[r[i]][k].file
  <2>1. CASE i # n
    <3>1. i \in DOMAIN s /\ r[i] = s[i] /\ r[i] # c /\ r[i] \in Contexts
      <4>1. r[i] # c
        BY <2>1, <1>2, <1>3 DEF Nested
      <4>2. i \in DOMAIN s /\ r[i] = s[i]
        BY <2>1, <1>2
      <4> QED
        BY <4>1, <4>2, <1>r, ChainIs
    <3>2. k \in DOMAIN stack[s[i]]
      BY <3>1, <1>5
    <3> QED
      BY <3>1, <3>2, <1>8
  <2>2. CASE i = n /\ k \in DOMAIN stack[c]
    <3>1. i \in DOMAIN s /\ s[i] = c
      BY <2>2, <1>2, EmptyIsSequence
    <3> QED
      BY <3>1, <2>2, <1>8
  <2>3. CASE i = n /\ k = l
    BY <2>3, <1>2, <1>5, <1>10
  <2> QED
    BY <2>1, <2>2, <2>3, <1>2, <1>5
<1> QED
  BY <1>7, <1>11 DEF Filing

LEMMA EndFiled ==
  ASSUME Shapes, CountInv, CountInv', NEW t, t = running, Nested(t), Filing(t),
         Busy, NEW raised, End(raised)
  PROVE  Filing(t)'
<1> DEFINE s == chain[t]
           n == Len(s)
           L == Len(stack[me])
           old == <<me, L>>
<1>r. t \in Threads /\ me \in Contexts
  BY SelfIsContext
<1>1. /\ DOMAIN s = 1..n /\ n \in Nat /\ n \in DOMAIN s /\ s[n] = me
      /\ \A i \in DOMAIN s : s[i] \in Contexts /\ On[s[i]] = t
  BY <1>r, ChainIs, MeIsLast
<1>2. /\ \A d \in Contexts \ {me} : stack'[d] = stack[d]
      /\ L \in Nat /\ DOMAIN stack'[me] = 1..L - 1 /\ DOMAIN stack[me] = 1..L
      /\ \A k \in DOMAIN stack'[me] : stack'[me][k] = stack[me][k]
      /\ files' = IF stack[me][L].pushed THEN [files EXCEPT ![running] = Front(@)] ELSE files
  BY EndPops
<1>3. chain' = chain /\ Kept(t)' = Kept(t)
  BY DEF End, Kept
<1>4. Pushed(t)' = Pushed(t) \ {old}
  BY EndUnpushes
<1>5. \A d \in Contexts :
        On[d] = t /\ stack'[d] # <<>> => \E i \in DOMAIN chain'[t] : chain'[t][i] = d
  <2> SUFFICES ASSUME NEW d \in Contexts, On[d] = t, stack'[d] # <<>>
               PROVE  stack[d] # <<>>
    BY <1>3 DEF Filing
  <2> QED
    BY <1>2 DEF Busy
<1>6. IsSequence(files[t]) /\ IsSequence(files'[t])
  BY <1>r DEF CountInv
<1>7. files'[t] = files[t] \/ (files[t] # <<>> /\ files'[t] = Front(files[t]))
  <2>1. CASE stack[me][L].pushed
    <3>1. files'[t] = Front(files[t])
      BY <2>1, <1>2, <1>r DEF CountInv
    <3>2. <<me, L>> \in Pushed(t)
      BY <2>1, <1>r, <1>1, EndUnpushes
    <3>3. /\ Len(files[t]) = Kept(t) + Cardinality(Pushed(t)) /\ IsFiniteSet(Pushed(t))
      BY <1>r DEF CountInv
    <3>4. Cardinality(Pushed(t)) \in Nat /\ Cardinality(Pushed(t)) # 0
      BY <3>2, <3>3, FS_CardinalityType, FS_EmptySet
    <3>5. Len(files[t]) >= 1
      BY <3>3, <3>4 DEF Kept
    <3> QED
      BY <3>1, <3>5, <1>6, LenOfNonempty
  <2>2. CASE ~stack[me][L].pushed
    BY <2>2, <1>2
  <2> QED
    BY <2>1, <2>2
<1>8. ASSUME NEW i \in DOMAIN s, NEW k \in DOMAIN stack'[s[i]]
      PROVE  /\ Height(t, i, k)' \in 1..Len(files'[t])
             /\ files'[t][Height(t, i, k)'] = stack'[s[i]][k].file
  <2>1. /\ k \in DOMAIN stack[s[i]] /\ stack'[s[i]][k] = stack[s[i]][k]
        /\ s[i] = me => k \in 1..L - 1
    <3>1. CASE s[i] = me
      BY <3>1, <1>2
    <3>2. CASE s[i] # me
      BY <3>2, <1>1, <1>2
    <3> QED
      BY <3>1, <3>2
  <2>2. old \notin Before(t, i, k)
    <3> SUFFICES ASSUME NEW j \in DOMAIN s, me = s[j], j < i \/ (j = i /\ L <= k)
                 PROVE  FALSE
      BY DEF Before
    <3>1. j = n
      BY <1>1 DEF Nested
    <3>2. j = i
      BY <3>1, <1>1
    <3>3. k \in 1..L - 1
      BY <3>2, <2>1
    <3> QED
      BY <3>1, <3>2, <3>3, <1>1, <1>2
  <2>3. Before(t, i, k)' = Before(t, i, k)
    BY <1>3 DEF Before
  <2>4. \A a \in Before(t, i, k) : a \in Pushed(t)' <=> a \in Pushed(t)
    BY <2>2, <1>4
  <2>5. Height(t, i, k)' = Height(t, i, k)
    BY <2>3, <2>4, <1>3, HeightStays
  <2> DEFINE H == Height(t, i, k)
  <2>6. H \in 1..Len(files[t]) /\ files[t][H] = stack[s[i]][k].file
    BY <2>1 DEF Filing
  <2>7. H' \in Nat /\ H' <= Len(files'[t])
    BY <1>r, HeightBoundAfter
  <2>8. Len(files[t]) \in Nat /\ Len(files'[t]) \in Nat
    BY <1>6, LenOfNonempty
  <2> HIDE DEF H
  <2>9. H \in 1..Len(files'[t])
    BY <2>5, <2>6, <2>7, <2>8 DEF H
  <2>10. files'[t][H] = files[t][H]
    <3>1. H \in DOMAIN files'[t]
      BY <1>6, <2>9, LenOfNonempty
    <3>2. CASE files'[t] = files[t]
      BY <3>2
    <3>3. CASE files[t] # <<>> /\ files'[t] = Front(files[t])
      BY <3>1, <3>3, <1>6, FrontIsSequence
    <3> QED
      BY <1>7, <3>2, <3>3
  <2> QED
    BY <2>1, <2>5, <2>6, <2>9, <2>10 DEF H
<1>9. chain'[t] = s
  BY <1>3
<1> QED
  BY <1>5, <1>8, <1>9 DEF Filing

\* The last context of the chain is removed; all of its bodies ended.
LEMMA FrontFiled ==
  ASSUME Shapes, NEW t, t = running, Filing(t), GivesBack, ~Busy,
         UNCHANGED <<files, stack, programs>>, chain' = [chain EXCEPT ![running] = Front(@)]
  PROVE  Filing(t)'
<1> DEFINE s == chain[t]
           r == Front(s)
<1>1. IsSequence(s) /\ t \in Threads /\ s # <<>>
  BY DEF Shapes, ChainShape, IsSequence
<1>2. Len(s) \in Nat /\ Len(s) > 1 /\ DOMAIN s = 1..Len(s) /\ s[Len(s)] = me
  BY <1>1, LenOfNonempty, MeIsLast DEF GivesBack
<1>3. /\ DOMAIN r = 1..Len(s) - 1
      /\ \A i \in DOMAIN r : r[i] = s[i]
  BY <1>1, FrontIsSequence, FrontDomain
<1>4. chain'[t] = r
  BY <1>1 DEF Shapes, ChainShape
<1> HIDE DEF r
<1>5. ASSUME NEW d \in Contexts, On[d] = t, stack[d] # <<>>
      PROVE  \E i \in DOMAIN r : r[i] = d
  <2>1. PICK i \in DOMAIN s : s[i] = d
    BY <1>5 DEF Filing
  <2>2. i # Len(s)
    BY <1>2, <1>5, <2>1 DEF Busy
  <2>3. i \in DOMAIN r
    BY <1>2, <1>3, <2>2
  <2> QED
    BY <1>3, <2>1, <2>3
<1>6. ASSUME NEW i \in DOMAIN r, NEW k \in DOMAIN stack[r[i]]
      PROVE  /\ Height(t, i, k)' \in 1..Len(files[t])
             /\ files[t][Height(t, i, k)'] = stack[r[i]][k].file
  <2>1. i \in DOMAIN s /\ r[i] = s[i] /\ i \in Nat
    BY <1>2, <1>3
  <2>2. Before(t, i, k)' = Before(t, i, k)
    <3>1. \A j \in DOMAIN s : j <= i => j \in DOMAIN r /\ r[j] = s[j]
      BY <1>2, <1>3
    <3>2. \A j \in DOMAIN r : j \in DOMAIN s /\ r[j] = s[j]
      BY <1>2, <1>3
    <3>3. DOMAIN s \subseteq Nat /\ DOMAIN r \subseteq Nat
      BY <1>2, <1>3
    <3> QED
      BY <2>1, <3>1, <3>2, <3>3, <1>4, BeforeStays
  <2>3. Pushed(t)' = Pushed(t) /\ Kept(t)' = Kept(t)
    BY DEF Pushed, Kept
  <2>4. Height(t, i, k)' = Height(t, i, k)
    BY <2>2, <2>3, HeightStays
  <2> QED
    BY <2>1, <2>4 DEF Filing
<1> QED
  BY <1>4, <1>5, <1>6 DEF Filing

LEMMA ThreadFiled ==
  ASSUME Shapes, NEW c \in Contexts, NEW b \in blocks, StartThread(c, b), NEW t, t = On[c],
         DOMAIN files = Threads
  PROVE  Filing(t)'
<1> DEFINE file == procs[b.id].file
           y == [id |-> b.id, runs |-> procs[b.id].code, wanted |-> b.program,
                 file |-> file, pushed |-> TRUE, loads |-> NoFile, require |-> FALSE]
<1>1. stack' = [stack EXCEPT ![c] = <<y>>] /\ y.file = file
  BY DEF StartThread
<1>2. /\ files' = [files EXCEPT ![t] = <<file>>] /\ chain' = [chain EXCEPT ![t] = <<c>>]
      /\ t \in Threads
  BY DEF StartThread, Threads
<1>3. \A d \in Contexts : On[d] = t => stack[d] = <<>>
  BY DEF StartThread, Fresh
<1>0. Kept(t)' = 0
  BY DEF StartThread, Kept
<1> HIDE DEF y, file
<1>4. /\ files'[t] = <<file>> /\ chain'[t] = <<c>> /\ stack'[c] = <<y>>
      /\ \A d \in Contexts \ {c} : stack'[d] = stack[d]
  BY <1>1, <1>2 DEF Shapes, ChainShape
<1>5. /\ DOMAIN chain'[t] = {1} /\ chain'[t][1] = c
      /\ DOMAIN stack'[c] = {1} /\ stack'[c][1] = y
      /\ Len(files'[t]) = 1 /\ files'[t][1] = file
  BY <1>4, SingletonIsSequence
<1>6. Height(t, 1, 1)' = 1
  <2>1. Pushed(t)' = {<<c, 1>>}
    BY ThreadPushes
  <2>2. <<c, 1>> \in Before(t, 1, 1)'
    BY <1>5 DEF Before
  <2>3. Until(t, 1, 1)' = {<<c, 1>>}
    BY <2>1, <2>2 DEF Until
  <2>4. Cardinality({<<c, 1>>}) = 1
    BY FS_Singleton
  <2> QED
    BY <1>0, <2>3, <2>4 DEF Height
<1>7. \A d \in Contexts : On[d] = t /\ stack'[d] # <<>> => d = c
  BY <1>3, <1>4
<1>8. ASSUME NEW i \in DOMAIN chain'[t], NEW k \in DOMAIN stack'[chain'[t][i]]
      PROVE  /\ Height(t, i, k)' \in 1..Len(files'[t])
             /\ files'[t][Height(t, i, k)'] = stack'[chain'[t][i]][k].file
  <2>1. i = 1 /\ k = 1
    BY <1>5
  <2> QED
    BY <2>1, <1>1, <1>5, <1>6
<1> QED
  BY <1>5, <1>7, <1>8 DEF Filing

LEMMA RunFiled ==
  ASSUME Shapes, StartRun, NEW t \in Threads
  PROVE  Filing(t)'
<1> PICK n : n = programs'
  OBVIOUS
<1> DEFINE x == [id |-> NoId, runs |-> n, wanted |-> n, file |-> Script,
                 pushed |-> FALSE, loads |-> NoFile, require |-> FALSE]
<1>1. /\ stack' = [c \in Contexts |-> IF c = Main THEN <<x>> ELSE <<>>] /\ x.file = Script
      /\ files' = [u \in Threads |-> IF u = On[Main] THEN <<Script>> ELSE <<>>]
      /\ chain' = NoneRuns /\ programs' = programs + 1
  BY DEF StartRun, Compiles
<1> HIDE DEF x
<1>2. chain'[t] = IF t = On[Main] THEN <<Main>> ELSE <<>>
  BY <1>1 DEF NoneRuns
<1>3. Main \in Contexts
  BY LoadAssumption
<1>4. CASE t = On[Main]
  <2>1. chain'[t] = <<Main>> /\ files'[t] = <<Script>> /\ stack'[Main] = <<x>>
    BY <1>1, <1>2, <1>3, <1>4
  <2>2. /\ DOMAIN chain'[t] = {1} /\ chain'[t][1] = Main
        /\ DOMAIN stack'[Main] = {1} /\ stack'[Main][1] = x
        /\ Len(files'[t]) = 1 /\ files'[t][1] = Script
    BY <2>1, SingletonIsSequence
  <2>3. Height(t, 1, 1)' = 1
    <3>1. Until(t, 1, 1)' = {}
      BY RunPushesNone DEF Until
    <3>2. Kept(t)' = 1
      BY <1>1, <1>4 DEF Kept, Shapes
    <3> QED
      BY <3>1, <3>2, FS_EmptySet DEF Height
  <2>4. \A d \in Contexts : stack'[d] # <<>> => d = Main
    BY <1>1
  <2>5. ASSUME NEW i \in DOMAIN chain'[t], NEW k \in DOMAIN stack'[chain'[t][i]]
        PROVE  /\ Height(t, i, k)' \in 1..Len(files'[t])
               /\ files'[t][Height(t, i, k)'] = stack'[chain'[t][i]][k].file
    <3>1. i = 1 /\ k = 1
      BY <2>2
    <3> QED
      BY <3>1, <1>1, <2>2, <2>3
  <2> QED
    BY <2>2, <2>4, <2>5 DEF Filing
<1>5. CASE t # On[Main]
  <2>1. DOMAIN chain'[t] = {}
    BY <1>2, <1>5, EmptyIsSequence
  <2>2. \A d \in Contexts : On[d] = t => stack'[d] = <<>>
    BY <1>1, <1>5
  <2> QED
    BY <2>1, <2>2 DEF Filing
<1> QED
  BY <1>4, <1>5

LEMMA HeightStep ==
  ASSUME Shapes, CountInv, CountInv', NestInv, NestInv', HeightInv, [Next]_vars
  PROVE  HeightInv'
<1>a. \A t \in Threads : Nested(t) /\ Nested(t)'
  BY DEF NestInv, Nested
<1>b. \A t \in Threads \ mixed : Filing(t)
  BY DEF HeightInv, Filing
<1>s. Shapes'
  BY ShapesStep
<1>r. /\ running \in Threads /\ me \in Contexts /\ On[me] = running
      /\ chain[running] \in Seq(Contexts)
  BY SelfIsContext, ChainIs
<1> SUFFICES ASSUME NEW t \in Threads, t \notin mixed' PROVE Filing(t)'
  BY DEF HeightInv, Filing
<1>1. ASSUME UNCHANGED <<stack, files, programs>>, chain'[t] = chain[t], t \notin mixed
      PROVE  Filing(t)'
  <2>1. Pushed(t)' = Pushed(t) /\ Kept(t)' = Kept(t)
    BY <1>1 DEF Pushed, Kept
  <2>2. files'[t] = files[t] /\ \A d \in Contexts : On[d] = t => stack'[d] = stack[d]
    BY <1>1
  <2> QED
    BY <1>b, <1>1, <2>1, <2>2, OthersStayFiled
<1>2. CASE Still
  BY <1>1, <1>2 DEF Still
<1>3. ASSUME Busy, NEW c \in Contexts, On[c] = running, NEW x, Enters(c, x), EntersLast(c),
             \A u \in Threads \ {running} : chain'[u] = chain[u]
      PROVE  Filing(t)'
  <2>1. t \notin mixed
    BY <1>3 DEF Enters
  <2>2. CASE t = running
    BY <1>3, <2>1, <2>2, <1>a, <1>b, <1>s, EntersFiled
  <2>3. CASE t # running
    <3>1. chain'[t] = chain[t]
      BY <1>3, <2>3
    <3>2. files'[t] = files[t]
      BY <1>3, <2>3 DEF Enters, CountInv
    <3>3. Kept(t)' = Kept(t)
      BY <1>3, BusyHasFile DEF Kept, Enters
    <3>4. Pushed(t)' = Pushed(t)
      BY <1>3, <2>3, EntersPushes
    <3>5. \A d \in Contexts : On[d] = t => stack'[d] = stack[d]
      BY <1>3, <2>3 DEF Enters
    <3> QED
      BY <1>b, <2>1, <3>1, <3>2, <3>3, <3>4, <3>5, OthersStayFiled
  <2> QED
    BY <2>2, <2>3
<1>4. ASSUME Busy, UNCHANGED <<chain, running>>, NEW x, Enters(me, x)
      PROVE  Filing(t)'
  <2>1. EntersLast(me)
    BY <1>4, MeIsLast DEF EntersLast
  <2> QED
    BY <1>3, <1>4, <1>r, <2>1
<1>5. ASSUME NEW c \in Contexts, NEW b \in blocks, StartFiber(c, b), UNCHANGED running,
             NEW x, Enters(c, x)
      PROVE  Filing(t)'
  <2>1. /\ Busy /\ On[c] = running /\ stack[c] = <<>>
        /\ chain' = [chain EXCEPT ![running] = Append(@, c)]
    BY <1>5 DEF StartFiber
  <2>2. /\ chain'[running] = Append(chain[running], c)
        /\ \A u \in Threads \ {running} : chain'[u] = chain[u]
    BY <2>1, <1>r DEF Shapes, ChainShape
  <2>3. IsSequence(chain[running])
    BY <1>r DEF IsSequence
  <2>4. /\ Len(chain'[running]) = Len(chain[running]) + 1
        /\ DOMAIN chain'[running] = DOMAIN chain[running] \cup {Len(chain[running]) + 1}
        /\ \A i \in DOMAIN chain[running] : chain'[running][i] = chain[running][i]
        /\ chain'[running][Len(chain[running]) + 1] = c
    BY <2>2, <2>3, AppendIsSequence
  <2>5. EntersLast(c)
    BY <1>5, <2>1, <2>4 DEF EntersLast
  <2> QED
    BY <1>3, <1>5, <2>1, <2>2, <2>5
<1>6. ASSUME Busy, NEW raised \in BOOLEAN, End(raised) PROVE Filing(t)'
  <2>1. t \notin mixed /\ chain' = chain
    BY <1>6 DEF End
  <2>2. CASE t = running
    BY <1>6, <2>1, <2>2, <1>a, <1>b, EndFiled
  <2>3. CASE t # running
    <3>1. files'[t] = files[t]
      BY <1>6, <2>3, EndPops DEF CountInv
    <3>2. Kept(t)' = Kept(t)
      BY <1>6 DEF Kept, End
    <3>3. Pushed(t)' = Pushed(t)
      BY <1>6, <2>3, <1>r, EndUnpushes
    <3>4. \A d \in Contexts : On[d] = t => stack'[d] = stack[d]
      BY <1>6, <2>3, <1>r, EndPops
    <3> QED
      BY <1>b, <2>1, <3>1, <3>2, <3>3, <3>4, OthersStayFiled
  <2> QED
    BY <2>2, <2>3
<1>7. ASSUME NEW chain_, SwitchTo(chain_, mixed \cup {running}) PROVE Filing(t)'
  <2>1. /\ UNCHANGED <<stack, files, programs>>
        /\ chain' = [chain EXCEPT ![running] = chain_]
        /\ mixed' = mixed \cup {running}
    BY <1>7 DEF SwitchTo
  <2>2. t # running /\ t \notin mixed
    BY <2>1
  <2>3. chain'[t] = chain[t]
    BY <2>1, <2>2 DEF Shapes, ChainShape
  <2> QED
    BY <1>1, <2>1, <2>2, <2>3
<1>8. CASE (\E c \in Contexts : Resume(c)) \/ Yield
  BY <1>7, <1>8 DEF Resume, Yield
<1>9. CASE EndFiber
  <2>1. /\ GivesBack /\ ~Busy /\ UNCHANGED <<stack, files, programs>> /\ mixed' = mixed
        /\ chain' = [chain EXCEPT ![running] = Front(@)]
    BY <1>9 DEF EndFiber, SwitchTo
  <2>2. CASE t = running
    BY <2>1, <2>2, <1>b, FrontFiled
  <2>3. CASE t # running
    <3>1. chain'[t] = chain[t]
      BY <2>1, <2>3 DEF Shapes, ChainShape
    <3> QED
      BY <1>1, <2>1, <3>1
  <2> QED
    BY <2>2, <2>3
<1>10. ASSUME NEW c \in Contexts, NEW b \in blocks, StartThread(c, b) PROVE Filing(t)'
  <2>1. CASE t = On[c]
    BY <1>10, <2>1, ThreadFiled DEF CountInv
  <2>2. CASE t # On[c]
    <3>1. /\ chain' = [chain EXCEPT ![On[c]] = <<c>>] /\ mixed' = mixed \ {On[c]}
          /\ UNCHANGED programs
      BY <1>10 DEF StartThread
    <3>2. PICK y : stack' = [stack EXCEPT ![c] = y]
      BY <1>10 DEF StartThread
    <3>3. PICK f : files' = [files EXCEPT ![On[c]] = f]
      BY <1>10 DEF StartThread
    <3>4. chain'[t] = chain[t] /\ files'[t] = files[t] /\ t \notin mixed
      BY <2>2, <3>1, <3>3 DEF CountInv, Shapes, ChainShape
    <3>5. \A d \in Contexts : On[d] = t => stack'[d] = stack[d]
      BY <2>2, <3>2 DEF Shapes
    <3>6. Pushed(t)' = Pushed(t) /\ Kept(t)' = Kept(t)
      BY <1>10, <2>2, <3>1, ThreadPushes DEF Kept
    <3> QED
      BY <1>b, <3>4, <3>5, <3>6, OthersStayFiled
  <2> QED
    BY <2>1, <2>2
<1>11. CASE StartRun
  BY <1>11, RunFiled
<1> QED
  BY <1>2, <1>4, <1>5, <1>6, <1>8, <1>9, <1>10, <1>11, MovesAre

LEMMA HeightGivesFile ==
  ASSUME Shapes, CountInv, HeightInv
  PROVE  OwnFile
<1> SUFFICES ASSUME NEW t \in Threads \ mixed, chain[t] # <<>>, stack[Active(t)] # <<>>
             PROVE  files[t] # <<>> /\ Last(files[t]) = Last(stack[Active(t)]).file
  BY DEF OwnFile
<1> PICK c, n, k : n = Len(chain[t]) /\ c = chain[t][n] /\ k = Len(stack[c])
  OBVIOUS
<1>1. /\ n \in DOMAIN chain[t] /\ DOMAIN chain[t] = 1..n /\ n \in Nat
      /\ c \in Contexts /\ On[c] = t /\ Active(t) = c
  <2>1. IsSequence(chain[t])
    BY DEF Shapes, ChainShape, IsSequence
  <2> QED
    BY <2>1, ChainIs, LenOfNonempty DEF Active, Last
<1>2. k \in DOMAIN stack[c] /\ DOMAIN stack[c] = 1..k /\ k \in Nat
  BY <1>1, LenOfNonempty DEF Shapes
<1>3. Filing(t)
  BY DEF HeightInv, Filing
<1>4. Until(t, n, k) = Pushed(t)
  <2> SUFFICES ASSUME NEW a \in Pushed(t) PROVE a \in Before(t, n, k)
    BY DEF Until
  <2>1. /\ a \in Contexts \X Nat /\ On[a[1]] = t /\ a[1] \in Contexts
        /\ a[2] \in DOMAIN stack[a[1]] /\ a[2] \in Nat
    BY DEF Pushed
  <2>2. stack[a[1]] # <<>>
    BY <2>1, EmptyIsSequence
  <2>3. PICK i \in DOMAIN chain[t] : chain[t][i] = a[1]
    BY <2>1, <2>2, <1>3 DEF Filing
  <2>4. i < n \/ i = n
    BY <1>1
  <2>5. i = n => a[2] <= k
    BY <2>1, <2>3, <1>2
  <2> QED
    BY <2>1, <2>3, <2>4, <2>5 DEF Before
<1>5. Height(t, n, k) = Len(files[t])
  BY <1>4 DEF Height, CountInv
<1>6. Len(files[t]) \in 1..Len(files[t]) /\ files[t][Len(files[t])] = stack[c][k].file
  BY <1>1, <1>2, <1>3, <1>5 DEF Filing
<1>7. files[t] # <<>>
  BY <1>6, LenOfNonempty DEF CountInv
<1> QED
  BY <1>1, <1>6, <1>7 DEF Last

\* However it was reached, through a library that has no file of its own, a
\* block of another file or a fiber, and however the bodies it called came to
\* their end, the file on top of the thread's stack is that of the body that
\* runs; unless a fiber of the thread was left in the middle.
THEOREM RunsInItsFile == Spec => []OwnFile
<1>1. Init => HeightInv
  <2> SUFFICES ASSUME Init PROVE HeightInv
    OBVIOUS
  <2>1. \A c \in Contexts : stack[c] = <<>>
    BY DEF Init
  <2>2. Shapes
    BY ShapesInit
  <2> QED
    BY <2>1, <2>2, ChainIs, EmptyIsSequence DEF HeightInv, Filing
<1> QED
  BY <1>1, ShapesInit, CountInit, NestInit, ShapesStep, CountStep, NestStep, HeightStep,
     HeightGivesFile, PTL DEF Spec
=============================================================================
