-------------------------- MODULE RubyQueueProofs --------------------------
(***************************************************************************)
(* Theorems about RubyQueue, for any number of threads, any values and any *)
(* capacity.                                                               *)
(***************************************************************************)
EXTENDS RubyQueue, TLAPS, FiniteSetTheorems

LEMMA TypeInit == Init => TypeOK
<1> SUFFICES ASSUME Init PROVE TypeOK
  OBVIOUS
<1>1. items \in Seq(Values)
  BY DEF Init
<1>2. reply \in [Threads -> Replies]
  BY DEF Init, Replies
<1>3. turns \in [Threads -> 0..MaxTurns]
  BY QueueAssumption DEF Init
<1> QED
  BY <1>1, <1>2, <1>3 DEF Init, TypeOK, GvlPcs, FreePcs

LEMMA TypeStep ==
  ASSUME TypeOK, [Next]_vars
  PROVE  TypeOK'
<1> USE DEF Transition, Turn, Calls, Answer, data
<1> USE QueueAssumption DEF TypeOK, Replies, GvlPcs, FreePcs
<1>1. CASE UNCHANGED vars
  BY <1>1 DEF vars
<1>2. ASSUME NEW t \in Threads,
             \/ EnterRuby(t) \/ LeaveRuby(t)
             \/ PushStep(t) \/ PopStep(t)
             \/ NotifyAll(t) \/ Resume(t) \/ SpuriousWakeup(t)
             \/ Close(t) \/ Clear(t)
      PROVE  TypeOK'
  <2>1. CASE EnterRuby(t)
    BY <2>1 DEF EnterRuby
  <2>2. CASE LeaveRuby(t)
    BY <2>2 DEF LeaveRuby
  <2>3. CASE PushRoom(t)
    BY <2>3 DEF PushRoom
  <2>4. CASE PushRefused(t)
    BY <2>4 DEF PushRefused
  <2>5. CASE PushBlocks(t)
    BY <2>5 DEF PushBlocks
  <2>6. CASE PushTest(t)
    BY <2>6 DEF PushTest
  <2>7. CASE PushEnter(t)
    BY <2>7 DEF PushEnter
  <2>8. CASE AppendItem(t)
    <3>1. Append(items, arg[t]) \in Seq(Values)
      OBVIOUS
    <3>2. items' \in Seq(Values)
      BY <2>8, <3>1 DEF AppendItem
    <3>3. reply' \in [Threads -> Replies]
      BY <2>8 DEF AppendItem
    <3> QED
      BY <2>8, <3>2, <3>3 DEF AppendItem
  <2>9. CASE PopFirstTry(t)
    <3>1. items # <<>> => Head(items) \in Values /\ Tail(items) \in Seq(Values)
      OBVIOUS
    <3>2. CASE Take(t, "ruby")
      <4>1. reply' \in [Threads -> Replies] /\ items' \in Seq(Values)
        BY <3>1, <3>2 DEF Take
      <4> QED
        BY <2>9, <3>2, <4>1 DEF PopFirstTry, Take
    <3>3. CASE Drained(t, "ruby")
      BY <2>9, <3>3 DEF PopFirstTry, Drained
    <3>4. CASE Wait(t, "ruby")
      BY <2>9, <3>4 DEF PopFirstTry, Wait
    <3> QED
      BY <2>9, <3>2, <3>3, <3>4 DEF PopFirstTry, Try
  <2>10. CASE PopRetry(t)
    <3>1. items # <<>> => Head(items) \in Values /\ Tail(items) \in Seq(Values)
      OBVIOUS
    <3>2. CASE Take(t, "take")
      <4>1. reply' \in [Threads -> Replies] /\ items' \in Seq(Values)
        BY <3>1, <3>2 DEF Take
      <4> QED
        BY <2>10, <3>2, <4>1 DEF PopRetry, Take
    <3>3. CASE Drained(t, "take")
      BY <2>10, <3>3 DEF PopRetry, Drained
    <3>4. CASE Wait(t, "take")
      BY <2>10, <3>4 DEF PopRetry, Wait
    <3> QED
      BY <2>10, <3>2, <3>3, <3>4 DEF PopRetry, Try
  <2>11. CASE PopRefused(t)
    BY <2>11 DEF PopRefused
  <2>12. CASE PopTest(t)
    BY <2>12 DEF PopTest
  <2>13. CASE PopEnter(t)
    BY <2>13 DEF PopEnter
  <2>14. CASE NotifyAll(t)
    BY <2>14 DEF NotifyAll
  <2>15. CASE Resume(t)
    BY <2>15 DEF Resume
  <2>16. CASE SpuriousWakeup(t)
    BY <2>16 DEF SpuriousWakeup
  <2>17. CASE Close(t)
    BY <2>17 DEF Close
  <2>18. CASE Clear(t)
    BY <2>18 DEF Clear
  <2> QED
    BY <1>2, <2>1, <2>2, <2>3, <2>4, <2>5, <2>6, <2>7, <2>8, <2>9, <2>10,
       <2>11, <2>12, <2>13, <2>14, <2>15, <2>16, <2>17, <2>18
    DEF PushStep, PopStep
<1> QED
  BY <1>1, <1>2 DEF Next

\* Every state of every behaviour is of the declared type.
THEOREM TypeCorrect == Spec => []TypeOK
  BY TypeInit, TypeStep, PTL DEF Spec

-----------------------------------------------------------------------------
(* The GVL.                                                                 *)

LEMMA HolderInit == Init => OnlyHolderRunsRuby
  BY QueueAssumption DEF Init, OnlyHolderRunsRuby, GvlPcs

LEMMA HolderStep ==
  ASSUME TypeOK, OnlyHolderRunsRuby, [Next]_vars
  PROVE  OnlyHolderRunsRuby'
<1> USE DEF Transition, Turn, Calls, Answer, data
<1> USE QueueAssumption DEF TypeOK, OnlyHolderRunsRuby, GvlPcs
<1>1. CASE UNCHANGED vars
  BY <1>1 DEF vars
<1>2. ASSUME NEW t \in Threads,
             \/ EnterRuby(t) \/ LeaveRuby(t)
             \/ PushStep(t) \/ PopStep(t)
             \/ NotifyAll(t) \/ Resume(t) \/ SpuriousWakeup(t)
             \/ Close(t) \/ Clear(t)
      PROVE  OnlyHolderRunsRuby'
  <2>1. CASE EnterRuby(t)
    BY <2>1 DEF EnterRuby
  <2>2. CASE LeaveRuby(t)
    BY <2>2 DEF LeaveRuby
  <2>3. CASE PushRoom(t)
    BY <2>3 DEF PushRoom
  <2>4. CASE PushRefused(t)
    BY <2>4 DEF PushRefused
  <2>5. CASE PushBlocks(t)
    BY <2>5 DEF PushBlocks
  <2>6. CASE PushTest(t)
    BY <2>6 DEF PushTest
  <2>7. CASE PushEnter(t)
    BY <2>7 DEF PushEnter
  <2>8. CASE AppendItem(t)
    BY <2>8 DEF AppendItem
  <2>9. CASE PopFirstTry(t)
    BY <2>9 DEF PopFirstTry, Try, Take, Drained, Wait
  <2>10. CASE PopRetry(t)
    BY <2>10 DEF PopRetry, Try, Take, Drained, Wait
  <2>11. CASE PopRefused(t)
    BY <2>11 DEF PopRefused
  <2>12. CASE PopTest(t)
    BY <2>12 DEF PopTest
  <2>13. CASE PopEnter(t)
    BY <2>13 DEF PopEnter
  <2>14. CASE NotifyAll(t)
    BY <2>14 DEF NotifyAll
  <2>15. CASE Resume(t)
    BY <2>15 DEF Resume
  <2>16. CASE SpuriousWakeup(t)
    BY <2>16 DEF SpuriousWakeup
  <2>17. CASE Close(t)
    BY <2>17 DEF Close
  <2>18. CASE Clear(t)
    BY <2>18 DEF Clear
  <2> QED
    BY <1>2, <2>1, <2>2, <2>3, <2>4, <2>5, <2>6, <2>7, <2>8, <2>9, <2>10,
       <2>11, <2>12, <2>13, <2>14, <2>15, <2>16, <2>17, <2>18
    DEF PushStep, PopStep
<1> QED
  BY <1>1, <1>2 DEF Next

\* What a queue call does to the host it does with the GVL in hand.
THEOREM HolderRunsRuby == Spec => []OnlyHolderRunsRuby
  BY TypeInit, TypeStep, HolderInit, HolderStep, PTL DEF Spec

LEMMA GvlStep ==
  ASSUME TypeOK, OnlyHolderRunsRuby, [Next]_vars
  PROVE  [G!Next]_gvl
<1> USE DEF Transition, Turn, Calls, Answer, data
<1> USE QueueAssumption
<1> USE DEF TypeOK, OnlyHolderRunsRuby, GvlPcs, G!Next, G!Acquire, G!Release
<1>1. CASE UNCHANGED vars
  BY <1>1 DEF vars
<1>2. ASSUME NEW t \in Threads,
             \/ EnterRuby(t) \/ LeaveRuby(t)
             \/ PushStep(t) \/ PopStep(t)
             \/ NotifyAll(t) \/ Resume(t) \/ SpuriousWakeup(t)
             \/ Close(t) \/ Clear(t)
      PROVE  [G!Next]_gvl
  <2>1. CASE EnterRuby(t)
    BY <2>1 DEF EnterRuby
  <2>2. CASE LeaveRuby(t)
    BY <2>2 DEF LeaveRuby
  <2>3. CASE PushRoom(t)
    BY <2>3 DEF PushRoom
  <2>4. CASE PushRefused(t)
    BY <2>4 DEF PushRefused
  <2>5. CASE PushBlocks(t)
    BY <2>5 DEF PushBlocks
  <2>6. CASE PushTest(t)
    BY <2>6 DEF PushTest
  <2>7. CASE PushEnter(t)
    BY <2>7 DEF PushEnter
  <2>8. CASE AppendItem(t)
    BY <2>8 DEF AppendItem
  <2>9. CASE PopFirstTry(t)
    BY <2>9 DEF PopFirstTry, Try, Take, Drained, Wait
  <2>10. CASE PopRetry(t)
    BY <2>10 DEF PopRetry, Try, Take, Drained, Wait
  <2>11. CASE PopRefused(t)
    BY <2>11 DEF PopRefused
  <2>12. CASE PopTest(t)
    BY <2>12 DEF PopTest
  <2>13. CASE PopEnter(t)
    BY <2>13 DEF PopEnter
  <2>14. CASE NotifyAll(t)
    BY <2>14 DEF NotifyAll
  <2>15. CASE Resume(t)
    BY <2>15 DEF Resume
  <2>16. CASE SpuriousWakeup(t)
    BY <2>16 DEF SpuriousWakeup
  <2>17. CASE Close(t)
    BY <2>17 DEF Close
  <2>18. CASE Clear(t)
    BY <2>18 DEF Clear
  <2> QED
    BY <1>2, <2>1, <2>2, <2>3, <2>4, <2>5, <2>6, <2>7, <2>8, <2>9, <2>10,
       <2>11, <2>12, <2>13, <2>14, <2>15, <2>16, <2>17, <2>18
    DEF PushStep, PopStep
<1> QED
  BY <1>1, <1>2 DEF Next

\* Blocked calls give the GVL up and take it back; nobody takes it from its
\* holder.
THEOREM GvlRefinement == Spec => ImplementsGvl
<1>1. Init => G!Init
  BY DEF Init, G!Init
<1> QED
  BY <1>1, TypeInit, TypeStep, HolderInit, HolderStep, GvlStep, PTL
  DEF Spec, ImplementsGvl, G!Spec

-----------------------------------------------------------------------------
(* Wakeups.                                                                 *)

\* Whoever is in the condition variable's queue is inside its wait loop.
ParkedInv == \A t \in parked : pc[t] \in {"pushParked", "popParked"}

LEMMA ParkedInit == Init => ParkedInv
  BY DEF Init, ParkedInv

LEMMA ParkedStep ==
  ASSUME TypeOK, ParkedInv, [Next]_vars
  PROVE  ParkedInv'
<1> USE DEF Transition, Turn, Calls, Answer, data
<1> USE DEF TypeOK, ParkedInv
<1>1. CASE UNCHANGED vars
  BY <1>1 DEF vars
<1>2. ASSUME NEW t \in Threads,
             \/ EnterRuby(t) \/ LeaveRuby(t)
             \/ PushStep(t) \/ PopStep(t)
             \/ NotifyAll(t) \/ Resume(t) \/ SpuriousWakeup(t)
             \/ Close(t) \/ Clear(t)
      PROVE  ParkedInv'
  <2>1. CASE EnterRuby(t)
    BY <2>1 DEF EnterRuby
  <2>2. CASE LeaveRuby(t)
    BY <2>2 DEF LeaveRuby
  <2>3. CASE PushRoom(t)
    BY <2>3 DEF PushRoom
  <2>4. CASE PushRefused(t)
    BY <2>4 DEF PushRefused
  <2>5. CASE PushBlocks(t)
    BY <2>5 DEF PushBlocks
  <2>6. CASE PushTest(t)
    BY <2>6 DEF PushTest
  <2>7. CASE PushEnter(t)
    BY <2>7 DEF PushEnter
  <2>8. CASE AppendItem(t)
    BY <2>8 DEF AppendItem
  <2>9. CASE PopFirstTry(t)
    BY <2>9 DEF PopFirstTry, Try, Take, Drained, Wait
  <2>10. CASE PopRetry(t)
    BY <2>10 DEF PopRetry, Try, Take, Drained, Wait
  <2>11. CASE PopRefused(t)
    BY <2>11 DEF PopRefused
  <2>12. CASE PopTest(t)
    BY <2>12 DEF PopTest
  <2>13. CASE PopEnter(t)
    BY <2>13 DEF PopEnter
  <2>14. CASE NotifyAll(t)
    BY <2>14 DEF NotifyAll
  <2>15. CASE Resume(t)
    BY <2>15 DEF Resume
  <2>16. CASE SpuriousWakeup(t)
    BY <2>16 DEF SpuriousWakeup
  <2>17. CASE Close(t)
    BY <2>17 DEF Close
  <2>18. CASE Clear(t)
    BY <2>18 DEF Clear
  <2> QED
    BY <1>2, <2>1, <2>2, <2>3, <2>4, <2>5, <2>6, <2>7, <2>8, <2>9, <2>10,
       <2>11, <2>12, <2>13, <2>14, <2>15, <2>16, <2>17, <2>18
    DEF PushStep, PopStep
<1> QED
  BY <1>1, <1>2 DEF Next

LEMMA PopWakeupInit == Init => NoLostPopWakeup
  BY DEF Init, NoLostPopWakeup

LEMMA PopWakeupStep ==
  ASSUME TypeOK, OnlyHolderRunsRuby, ParkedInv, NoLostPopWakeup, [Next]_vars
  PROVE  NoLostPopWakeup'
<1> USE DEF Transition, Turn, Calls, Answer, data
<1> USE DEF TypeOK, OnlyHolderRunsRuby, GvlPcs, ParkedInv, NoLostPopWakeup
<1>1. CASE UNCHANGED vars
  BY <1>1 DEF vars
<1>2. ASSUME NEW t \in Threads,
             \/ EnterRuby(t) \/ LeaveRuby(t)
             \/ PushStep(t) \/ PopStep(t)
             \/ NotifyAll(t) \/ Resume(t) \/ SpuriousWakeup(t)
             \/ Close(t) \/ Clear(t)
      PROVE  NoLostPopWakeup'
  <2>1. CASE EnterRuby(t)
    BY <2>1 DEF EnterRuby
  <2>2. CASE LeaveRuby(t)
    BY <2>2 DEF LeaveRuby
  <2>3. CASE PushRoom(t)
    BY <2>3 DEF PushRoom
  <2>4. CASE PushRefused(t)
    BY <2>4 DEF PushRefused
  <2>5. CASE PushBlocks(t)
    BY <2>5 DEF PushBlocks
  <2>6. CASE PushTest(t)
    BY <2>6 DEF PushTest
  <2>7. CASE PushEnter(t)
    BY <2>7 DEF PushEnter
  <2>8. CASE AppendItem(t)
    BY <2>8 DEF AppendItem
  <2>9. CASE PopFirstTry(t)
    BY <2>9 DEF PopFirstTry, Try, Take, Drained, Wait
  <2>10. CASE PopRetry(t)
    BY <2>10 DEF PopRetry, Try, Take, Drained, Wait
  <2>11. CASE PopRefused(t)
    BY <2>11 DEF PopRefused
  <2>12. CASE PopTest(t)
    BY <2>12 DEF PopTest
  <2>13. CASE PopEnter(t)
    BY <2>13 DEF PopEnter
  <2>14. CASE NotifyAll(t)
    BY <2>14 DEF NotifyAll
  <2>15. CASE Resume(t)
    BY <2>15 DEF Resume
  <2>16. CASE SpuriousWakeup(t)
    BY <2>16 DEF SpuriousWakeup
  <2>17. CASE Close(t)
    BY <2>17 DEF Close
  <2>18. CASE Clear(t)
    BY <2>18 DEF Clear
  <2> QED
    BY <1>2, <2>1, <2>2, <2>3, <2>4, <2>5, <2>6, <2>7, <2>8, <2>9, <2>10,
       <2>11, <2>12, <2>13, <2>14, <2>15, <2>16, <2>17, <2>18
    DEF PushStep, PopStep
<1> QED
  BY <1>1, <1>2 DEF Next

\* BUGS.md: "a consumer thread that pops an empty queue correctly parks until a
\* push": whatever else the threads do, no pop sleeps on with an item there.
THEOREM PopIsWoken == Spec => []NoLostPopWakeup
  BY TypeInit, TypeStep, HolderInit, HolderStep, ParkedInit, ParkedStep,
     PopWakeupInit, PopWakeupStep, PTL DEF Spec

LEMMA PushWakeupInit == Init => NoLostPushWakeup
  BY DEF Init, NoLostPushWakeup

LEMMA PushWakeupStep ==
  ASSUME Clearers = {}, TypeOK, OnlyHolderRunsRuby, ParkedInv, NoLostPushWakeup, [Next]_vars
  PROVE  NoLostPushWakeup'
<1> USE DEF Transition, Turn, Calls, Answer, data
<1> USE QueueAssumption
<1> USE DEF TypeOK, OnlyHolderRunsRuby, GvlPcs, ParkedInv, NoLostPushWakeup, Full
<1>1. CASE UNCHANGED vars
  BY <1>1 DEF vars
<1>2. ASSUME NEW t \in Threads,
             \/ EnterRuby(t) \/ LeaveRuby(t)
             \/ PushStep(t) \/ PopStep(t)
             \/ NotifyAll(t) \/ Resume(t) \/ SpuriousWakeup(t)
             \/ Close(t) \/ Clear(t)
      PROVE  NoLostPushWakeup'
  <2>1. CASE EnterRuby(t)
    BY <2>1 DEF EnterRuby
  <2>2. CASE LeaveRuby(t)
    BY <2>2 DEF LeaveRuby
  <2>3. CASE PushRoom(t)
    BY <2>3 DEF PushRoom
  <2>4. CASE PushRefused(t)
    BY <2>4 DEF PushRefused
  <2>5. CASE PushBlocks(t)
    BY <2>5 DEF PushBlocks
  <2>6. CASE PushTest(t)
    BY <2>6 DEF PushTest
  <2>7. CASE PushEnter(t)
    BY <2>7 DEF PushEnter
  <2>8. CASE AppendItem(t)
    BY <2>8 DEF AppendItem
  <2>9. CASE PopFirstTry(t)
    BY <2>9 DEF PopFirstTry, Try, Take, Drained, Wait
  <2>10. CASE PopRetry(t)
    BY <2>10 DEF PopRetry, Try, Take, Drained, Wait
  <2>11. CASE PopRefused(t)
    BY <2>11 DEF PopRefused
  <2>12. CASE PopTest(t)
    BY <2>12 DEF PopTest
  <2>13. CASE PopEnter(t)
    BY <2>13 DEF PopEnter
  <2>14. CASE NotifyAll(t)
    BY <2>14 DEF NotifyAll
  <2>15. CASE Resume(t)
    BY <2>15 DEF Resume
  <2>16. CASE SpuriousWakeup(t)
    BY <2>16 DEF SpuriousWakeup
  <2>17. CASE Close(t)
    BY <2>17 DEF Close
  <2>18. CASE Clear(t)
    BY <2>18 DEF Clear
  <2> QED
    BY <1>2, <2>1, <2>2, <2>3, <2>4, <2>5, <2>6, <2>7, <2>8, <2>9, <2>10,
       <2>11, <2>12, <2>13, <2>14, <2>15, <2>16, <2>17, <2>18
    DEF PushStep, PopStep
<1> QED
  BY <1>1, <1>2 DEF Next

\* queue_push "blocks while full": of a queue that nobody clears, no push sleeps
\* on with room there or the queue closed.
THEOREM PushIsWoken ==
  ASSUME Clearers = {}
  PROVE  Spec => []NoLostPushWakeup
<1>1. TypeOK /\ OnlyHolderRunsRuby /\ ParkedInv /\ NoLostPushWakeup /\ [Next]_vars
        => NoLostPushWakeup'
  BY PushWakeupStep, Clearers = {}
<1> QED
  BY <1>1, TypeInit, TypeStep, HolderInit, HolderStep, ParkedInit, ParkedStep,
     PushWakeupInit, PTL DEF Spec

-----------------------------------------------------------------------------
(* Closing.                                                                 *)

LEMMA CloseStep ==
  ASSUME TypeOK, [Next]_vars
  PROVE  closed => closed' /\ Len(items') <= Len(items)
<1> USE DEF Transition, Turn, Calls, Answer, data
<1> USE DEF TypeOK
<1>1. CASE UNCHANGED vars
  BY <1>1 DEF vars
<1>2. ASSUME NEW t \in Threads,
             \/ EnterRuby(t) \/ LeaveRuby(t)
             \/ PushStep(t) \/ PopStep(t)
             \/ NotifyAll(t) \/ Resume(t) \/ SpuriousWakeup(t)
             \/ Close(t) \/ Clear(t)
      PROVE  closed => closed' /\ Len(items') <= Len(items)
  <2>1. CASE EnterRuby(t)
    BY <2>1 DEF EnterRuby
  <2>2. CASE LeaveRuby(t)
    BY <2>2 DEF LeaveRuby
  <2>3. CASE PushRoom(t)
    BY <2>3 DEF PushRoom
  <2>4. CASE PushRefused(t)
    BY <2>4 DEF PushRefused
  <2>5. CASE PushBlocks(t)
    BY <2>5 DEF PushBlocks
  <2>6. CASE PushTest(t)
    BY <2>6 DEF PushTest
  <2>7. CASE PushEnter(t)
    BY <2>7 DEF PushEnter
  <2>8. CASE AppendItem(t)
    BY <2>8 DEF AppendItem
  <2>9. CASE PopFirstTry(t)
    <3>1. items # <<>> => Len(Tail(items)) <= Len(items)
      OBVIOUS
    <3>2. Len(items) <= Len(items)
      OBVIOUS
    <3>3. items' = items \/ (items # <<>> /\ items' = Tail(items))
      BY <2>9 DEF PopFirstTry, Try, Take, Drained, Wait
    <3>4. closed' = closed
      BY <2>9 DEF PopFirstTry, Try, Take, Drained, Wait
    <3> QED
      BY <3>1, <3>2, <3>3, <3>4
  <2>10. CASE PopRetry(t)
    <3>1. items # <<>> => Len(Tail(items)) <= Len(items)
      OBVIOUS
    <3>2. Len(items) <= Len(items)
      OBVIOUS
    <3>3. items' = items \/ (items # <<>> /\ items' = Tail(items))
      BY <2>10 DEF PopRetry, Try, Take, Drained, Wait
    <3>4. closed' = closed
      BY <2>10 DEF PopRetry, Try, Take, Drained, Wait
    <3> QED
      BY <3>1, <3>2, <3>3, <3>4
  <2>11. CASE PopRefused(t)
    BY <2>11 DEF PopRefused
  <2>12. CASE PopTest(t)
    BY <2>12 DEF PopTest
  <2>13. CASE PopEnter(t)
    BY <2>13 DEF PopEnter
  <2>14. CASE NotifyAll(t)
    BY <2>14 DEF NotifyAll
  <2>15. CASE Resume(t)
    BY <2>15 DEF Resume
  <2>16. CASE SpuriousWakeup(t)
    BY <2>16 DEF SpuriousWakeup
  <2>17. CASE Close(t)
    BY <2>17 DEF Close
  <2>18. CASE Clear(t)
    BY <2>18 DEF Clear
  <2> QED
    BY <1>2, <2>1, <2>2, <2>3, <2>4, <2>5, <2>6, <2>7, <2>8, <2>9, <2>10,
       <2>11, <2>12, <2>13, <2>14, <2>15, <2>16, <2>17, <2>18
    DEF PushStep, PopStep
<1> QED
  BY <1>1, <1>2 DEF Next

\* queue_close: "no more pushes; blocked pops drain".
THEOREM CloseIsFinal == Spec => ClosedOnlyDrains
<1>1. TypeOK /\ [Next]_vars
        => [closed => closed' /\ Len(items') <= Len(items)]_vars
  BY CloseStep
<1> QED
  BY <1>1, TypeInit, TypeStep, PTL DEF Spec, ClosedOnlyDrains

-----------------------------------------------------------------------------
(* Capacity.  A push that was let out of the wait has yet to take the GVL   *)
(* back before it appends, and does not ask again whether there is room: so *)
(* those that are out count as if their items were in the queue.            *)

Pushing == {"pushTest", "pushParked", "pushEnter", "append"}

PusherInv == \A t \in Threads : pc[t] \in Pushing => t \in Pushers

LetOut == {t \in Threads : pc[t] \in {"pushEnter", "append"}}

Limit == Cap + Cardinality(Pushers)

CapInv ==
  /\ Len(items) < Limit
  /\ ~closed => Len(items) + Cardinality(LetOut) < Limit

LEMMA PusherInit == Init => PusherInv
  BY DEF Init, PusherInv, Pushing

LEMMA PusherStep ==
  ASSUME TypeOK, PusherInv, [Next]_vars
  PROVE  PusherInv'
<1> USE DEF Transition, Turn, Calls, Answer, data
<1> USE DEF TypeOK, PusherInv, Pushing
<1>1. CASE UNCHANGED vars
  BY <1>1 DEF vars
<1>2. ASSUME NEW t \in Threads,
             \/ EnterRuby(t) \/ LeaveRuby(t)
             \/ PushStep(t) \/ PopStep(t)
             \/ NotifyAll(t) \/ Resume(t) \/ SpuriousWakeup(t)
             \/ Close(t) \/ Clear(t)
      PROVE  PusherInv'
  <2>1. CASE EnterRuby(t)
    BY <2>1 DEF EnterRuby
  <2>2. CASE LeaveRuby(t)
    BY <2>2 DEF LeaveRuby
  <2>3. CASE PushRoom(t)
    BY <2>3 DEF PushRoom
  <2>4. CASE PushRefused(t)
    BY <2>4 DEF PushRefused
  <2>5. CASE PushBlocks(t)
    BY <2>5 DEF PushBlocks
  <2>6. CASE PushTest(t)
    BY <2>6 DEF PushTest
  <2>7. CASE PushEnter(t)
    BY <2>7 DEF PushEnter
  <2>8. CASE AppendItem(t)
    BY <2>8 DEF AppendItem
  <2>9. CASE PopFirstTry(t)
    BY <2>9 DEF PopFirstTry, Try, Take, Drained, Wait
  <2>10. CASE PopRetry(t)
    BY <2>10 DEF PopRetry, Try, Take, Drained, Wait
  <2>11. CASE PopRefused(t)
    BY <2>11 DEF PopRefused
  <2>12. CASE PopTest(t)
    BY <2>12 DEF PopTest
  <2>13. CASE PopEnter(t)
    BY <2>13 DEF PopEnter
  <2>14. CASE NotifyAll(t)
    BY <2>14 DEF NotifyAll
  <2>15. CASE Resume(t)
    BY <2>15 DEF Resume
  <2>16. CASE SpuriousWakeup(t)
    BY <2>16 DEF SpuriousWakeup
  <2>17. CASE Close(t)
    BY <2>17 DEF Close
  <2>18. CASE Clear(t)
    BY <2>18 DEF Clear
  <2> QED
    BY <1>2, <2>1, <2>2, <2>3, <2>4, <2>5, <2>6, <2>7, <2>8, <2>9, <2>10,
       <2>11, <2>12, <2>13, <2>14, <2>15, <2>16, <2>17, <2>18
    DEF PushStep, PopStep
<1> QED
  BY <1>1, <1>2 DEF Next

LEMMA LetOutSize ==
  ASSUME IsFiniteSet(Pushers), PusherInv
  PROVE  /\ IsFiniteSet(LetOut)
         /\ Cardinality(LetOut) \in Nat
         /\ Cardinality(Pushers) \in Nat
         /\ Cardinality(LetOut) <= Cardinality(Pushers)
<1>1. LetOut \subseteq Pushers
  BY DEF LetOut, PusherInv, Pushing
<1> QED
  BY <1>1, FS_Subset, FS_CardinalityType

\* A step that adds no item and lets nobody out.
LEMMA CapInvShrink ==
  ASSUME Cap \in Nat, IsFiniteSet(Pushers), TypeOK, TypeOK', PusherInv,
         PusherInv', CapInv, Len(items') <= Len(items), LetOut' \subseteq LetOut,
         closed => closed'
  PROVE  CapInv'
<1>1. Cardinality(LetOut') <= Cardinality(LetOut)
  BY LetOutSize, FS_Subset
<1>2. /\ Cardinality(LetOut) \in Nat /\ Cardinality(LetOut') \in Nat
      /\ Cardinality(Pushers) \in Nat
  <2>1. IsFiniteSet(LetOut)
    BY LetOutSize
  <2>2. IsFiniteSet(LetOut')
    BY <2>1, FS_Subset
  <2> QED
    BY <2>1, <2>2, FS_CardinalityType
<1>3. Len(items) \in Nat /\ Len(items') \in Nat
  BY DEF TypeOK
<1> QED
  BY <1>1, <1>2, <1>3 DEF CapInv, Limit

\* A step that adds no item while there is room.
LEMMA CapInvRoom ==
  ASSUME Cap \in Nat, IsFiniteSet(Pushers), TypeOK, PusherInv',
         items' = items, Len(items) < Cap
  PROVE  CapInv'
<1>1. LetOut' \subseteq Pushers
  BY DEF LetOut, PusherInv, Pushing
<1>2. /\ Cardinality(LetOut') <= Cardinality(Pushers)
      /\ Cardinality(LetOut') \in Nat
      /\ Cardinality(Pushers) \in Nat
  BY <1>1, FS_Subset, FS_CardinalityType
<1>3. Len(items) \in Nat
  BY DEF TypeOK
<1> QED
  BY <1>2, <1>3 DEF CapInv, Limit

\* The append of a push that was let out.
LEMMA CapInvAppend ==
  ASSUME Cap \in Nat, IsFiniteSet(Pushers), TypeOK, PusherInv, CapInv,
         ~closed, closed' = closed, NEW t \in LetOut, LetOut' = LetOut \ {t},
         NEW v \in Values, items' = Append(items, v)
  PROVE  CapInv'
<1>1. /\ IsFiniteSet(LetOut)
      /\ Cardinality(LetOut) \in Nat
      /\ Cardinality(Pushers) \in Nat
  BY LetOutSize
<1>2. Cardinality(LetOut') = Cardinality(LetOut) - 1 /\ Cardinality(LetOut') \in Nat
  BY <1>1, FS_RemoveElement, FS_CardinalityType
<1>3. Len(items) \in Nat /\ Len(items') = Len(items) + 1
  BY DEF TypeOK
<1> QED
  BY <1>1, <1>2, <1>3 DEF CapInv, Limit

LEMMA CapStep ==
  ASSUME Cap \in Nat, IsFiniteSet(Pushers), TypeOK, TypeOK', PusherInv,
         PusherInv', CapInv, [Next]_vars
  PROVE  CapInv'
<1> USE DEF Transition, Turn, Calls, Answer, data
<1>1. CASE UNCHANGED vars
  BY <1>1 DEF vars, CapInv, Limit, LetOut
<1>2. ASSUME NEW t \in Threads,
             \/ EnterRuby(t) \/ LeaveRuby(t)
             \/ PushStep(t) \/ PopStep(t)
             \/ NotifyAll(t) \/ Resume(t) \/ SpuriousWakeup(t)
             \/ Close(t) \/ Clear(t)
      PROVE  CapInv'
  <2>1. CASE EnterRuby(t)
    <3>1. Len(items') <= Len(items) /\ LetOut' \subseteq LetOut /\ (closed => closed')
      BY <2>1 DEF EnterRuby, LetOut, TypeOK
    <3> QED
      BY <3>1, CapInvShrink
  <2>2. CASE LeaveRuby(t)
    <3>1. Len(items') <= Len(items) /\ LetOut' \subseteq LetOut /\ (closed => closed')
      BY <2>2 DEF LeaveRuby, LetOut, TypeOK
    <3> QED
      BY <3>1, CapInvShrink
  <2>3. CASE PushRoom(t)
    <3>1. items' = items /\ Len(items) < Cap
      BY <2>3, QueueAssumption DEF PushRoom, Full, TypeOK
    <3> QED
      BY <3>1, CapInvRoom
  <2>4. CASE PushRefused(t)
    <3>1. Len(items') <= Len(items) /\ LetOut' \subseteq LetOut /\ (closed => closed')
      BY <2>4 DEF PushRefused, LetOut, TypeOK
    <3> QED
      BY <3>1, CapInvShrink
  <2>5. CASE PushBlocks(t)
    <3>1. Len(items') <= Len(items) /\ LetOut' \subseteq LetOut /\ (closed => closed')
      BY <2>5 DEF PushBlocks, LetOut, TypeOK
    <3> QED
      BY <3>1, CapInvShrink
  <2>6. CASE PushTest(t)
    <3>1. CASE Len(items) < Cap
      BY <2>6, <3>1, CapInvRoom DEF PushTest
    <3>2. CASE ~(Len(items) < Cap) /\ ~closed
      <4>1. LetOut' \subseteq LetOut
        BY <2>6, <3>2, QueueAssumption DEF PushTest, Full, LetOut, TypeOK
      <4>2. Len(items') <= Len(items) /\ (closed => closed')
        BY <2>6 DEF PushTest, TypeOK
      <4> QED
        BY <4>1, <4>2, CapInvShrink
    <3>3. CASE closed
      BY <2>6, <3>3 DEF PushTest, CapInv, Limit
    <3> QED
      BY <3>1, <3>2, <3>3
  <2>7. CASE PushEnter(t)
    <3>1. Len(items') <= Len(items) /\ LetOut' \subseteq LetOut /\ (closed => closed')
      BY <2>7 DEF PushEnter, LetOut, TypeOK
    <3> QED
      BY <3>1, CapInvShrink
  <2>8. CASE AppendItem(t)
    <3>1. CASE closed
      <4>1. LetOut' \subseteq LetOut
        BY <2>8, <3>1 DEF AppendItem, LetOut, TypeOK
      <4>2. Len(items') <= Len(items) /\ (closed => closed')
        BY <2>8, <3>1 DEF AppendItem, TypeOK
      <4> QED
        BY <4>1, <4>2, CapInvShrink
    <3>2. CASE ~closed
      <4>1. t \in LetOut /\ LetOut' = LetOut \ {t}
        BY <2>8, <3>2 DEF AppendItem, LetOut, TypeOK
      <4>2. arg[t] \in Values /\ items' = Append(items, arg[t]) /\ closed' = closed
        BY <2>8, <3>2 DEF AppendItem, TypeOK
      <4> QED
        BY <3>2, <4>1, <4>2, CapInvAppend
    <3> QED
      BY <3>1, <3>2
  <2>9. CASE PopFirstTry(t)
    <3>1. items # <<>> => Len(Tail(items)) <= Len(items)
      BY DEF TypeOK
    <3>2. items' = items \/ (items # <<>> /\ items' = Tail(items))
      BY <2>9 DEF PopFirstTry, Try, Take, Drained, Wait
    <3>3. LetOut' \subseteq LetOut /\ closed' = closed
      BY <2>9 DEF PopFirstTry, Try, Take, Drained, Wait, LetOut, TypeOK
    <3>4. Len(items) <= Len(items)
      BY DEF TypeOK
    <3> QED
      BY <3>1, <3>2, <3>3, <3>4, CapInvShrink
  <2>10. CASE PopRetry(t)
    <3>1. items # <<>> => Len(Tail(items)) <= Len(items)
      BY DEF TypeOK
    <3>2. items' = items \/ (items # <<>> /\ items' = Tail(items))
      BY <2>10 DEF PopRetry, Try, Take, Drained, Wait
    <3>3. LetOut' \subseteq LetOut /\ closed' = closed
      BY <2>10 DEF PopRetry, Try, Take, Drained, Wait, LetOut, TypeOK
    <3>4. Len(items) <= Len(items)
      BY DEF TypeOK
    <3> QED
      BY <3>1, <3>2, <3>3, <3>4, CapInvShrink
  <2>11. CASE PopRefused(t)
    <3>1. Len(items') <= Len(items) /\ LetOut' \subseteq LetOut /\ (closed => closed')
      BY <2>11 DEF PopRefused, LetOut, TypeOK
    <3> QED
      BY <3>1, CapInvShrink
  <2>12. CASE PopTest(t)
    <3>1. Len(items') <= Len(items) /\ LetOut' \subseteq LetOut /\ (closed => closed')
      BY <2>12 DEF PopTest, LetOut, TypeOK
    <3> QED
      BY <3>1, CapInvShrink
  <2>13. CASE PopEnter(t)
    <3>1. Len(items') <= Len(items) /\ LetOut' \subseteq LetOut /\ (closed => closed')
      BY <2>13 DEF PopEnter, LetOut, TypeOK
    <3> QED
      BY <3>1, CapInvShrink
  <2>14. CASE NotifyAll(t)
    <3>1. Len(items') <= Len(items) /\ LetOut' \subseteq LetOut /\ (closed => closed')
      BY <2>14 DEF NotifyAll, LetOut, TypeOK
    <3> QED
      BY <3>1, CapInvShrink
  <2>15. CASE Resume(t)
    <3>1. Len(items') <= Len(items) /\ LetOut' \subseteq LetOut /\ (closed => closed')
      BY <2>15 DEF Resume, LetOut, TypeOK
    <3> QED
      BY <3>1, CapInvShrink
  <2>16. CASE SpuriousWakeup(t)
    <3>1. Len(items') <= Len(items) /\ LetOut' \subseteq LetOut /\ (closed => closed')
      BY <2>16 DEF SpuriousWakeup, LetOut, TypeOK
    <3> QED
      BY <3>1, CapInvShrink
  <2>17. CASE Close(t)
    <3>1. Len(items') <= Len(items) /\ LetOut' \subseteq LetOut /\ (closed => closed')
      BY <2>17 DEF Close, LetOut, TypeOK
    <3> QED
      BY <3>1, CapInvShrink
  <2>18. CASE Clear(t)
    <3>1. Len(items') <= Len(items) /\ closed' = closed
      BY <2>18 DEF Clear, TypeOK
    <3>2. LetOut' \subseteq LetOut
      BY <2>18 DEF Clear, LetOut
    <3> QED
      BY <3>1, <3>2, CapInvShrink
  <2> QED
    BY <1>2, <2>1, <2>2, <2>3, <2>4, <2>5, <2>6, <2>7, <2>8, <2>9, <2>10,
       <2>11, <2>12, <2>13, <2>14, <2>15, <2>16, <2>17, <2>18
    DEF PushStep, PopStep
<1> QED
  BY <1>1, <1>2 DEF Next

LEMMA CapInit ==
  ASSUME Cap \in Nat, IsFiniteSet(Pushers), Pushers # {}, Init
  PROVE  CapInv
<1>1. Cardinality(Pushers) \in Nat /\ Cardinality(Pushers) # 0
  BY FS_CardinalityType, FS_EmptySet
<1>2. LetOut = {} /\ Len(items) = 0
  BY DEF Init, LetOut
<1>3. Cardinality({}) = 0
  BY FS_EmptySet
<1> QED
  BY <1>1, <1>2, <1>3 DEF CapInv, Limit

\* A SizedQueue exceeds its capacity by fewer items than there are threads that
\* push to it.
THEOREM OvershootIsBounded ==
  ASSUME IsFiniteSet(Pushers), Pushers # {}
  PROVE  Spec => []Overshoot
<1>1. CASE Cap = Unbounded
  <2>1. Overshoot
    BY <1>1 DEF Overshoot
  <2> QED
    BY <2>1, PTL
<1>2. CASE Cap # Unbounded
  <2>1. Cap \in Nat
    BY <1>2, QueueAssumption
  <2>2. Init => CapInv
    BY <2>1, CapInit, IsFiniteSet(Pushers), Pushers # {}
  <2>3. TypeOK /\ TypeOK' /\ PusherInv /\ PusherInv' /\ CapInv /\ [Next]_vars
          => CapInv'
    BY <2>1, CapStep, IsFiniteSet(Pushers)
  <2>4. CapInv => Overshoot
    BY DEF CapInv, Limit, Overshoot
  <2> QED
    BY <2>2, <2>3, <2>4, TypeInit, TypeStep, PusherInit, PusherStep, PTL
    DEF Spec
<1> QED
  BY <1>1, <1>2

-----------------------------------------------------------------------------
(* Refinement of the FIFO queue.                                            *)

\* Nobody fills the queue between a push's test and its append.
Uncontended == Cap = Unbounded \/ \A t, u \in Pushers : t = u

RoomInv == \A t \in LetOut : ~Full \/ closed

LEMMA RoomInit == Init => RoomInv
  BY DEF Init, RoomInv, LetOut

LEMMA RoomStep ==
  ASSUME Uncontended, TypeOK, TypeOK', PusherInv, RoomInv, [Next]_vars
  PROVE  RoomInv'
<1> USE DEF Transition, Turn, Calls, Answer, data
<1> USE QueueAssumption
<1> USE DEF TypeOK, PusherInv, Pushing, Uncontended, RoomInv, LetOut, Full
<1>1. CASE UNCHANGED vars
  BY <1>1 DEF vars
<1>2. ASSUME NEW t \in Threads,
             \/ EnterRuby(t) \/ LeaveRuby(t)
             \/ PushStep(t) \/ PopStep(t)
             \/ NotifyAll(t) \/ Resume(t) \/ SpuriousWakeup(t)
             \/ Close(t) \/ Clear(t)
      PROVE  RoomInv'
  <2>1. CASE EnterRuby(t)
    BY <2>1 DEF EnterRuby
  <2>2. CASE LeaveRuby(t)
    BY <2>2 DEF LeaveRuby
  <2>3. CASE PushRoom(t)
    BY <2>3 DEF PushRoom
  <2>4. CASE PushRefused(t)
    BY <2>4 DEF PushRefused
  <2>5. CASE PushBlocks(t)
    BY <2>5 DEF PushBlocks
  <2>6. CASE PushTest(t)
    BY <2>6 DEF PushTest
  <2>7. CASE PushEnter(t)
    BY <2>7 DEF PushEnter
  <2>8. CASE AppendItem(t)
    BY <2>8 DEF AppendItem
  <2>9. CASE PopFirstTry(t)
    <3>1. items # <<>> => Len(Tail(items)) <= Len(items)
      OBVIOUS
    <3>2. Len(items) <= Len(items)
      OBVIOUS
    <3>3. items' = items \/ (items # <<>> /\ items' = Tail(items))
      BY <2>9 DEF PopFirstTry, Try, Take, Drained, Wait
    <3>4. Len(items') <= Len(items)
      BY <3>1, <3>2, <3>3
    <3>5. LetOut' \subseteq LetOut /\ closed' = closed
      BY <2>9 DEF PopFirstTry, Try, Take, Drained, Wait
    <3> QED
      BY <3>4, <3>5
  <2>10. CASE PopRetry(t)
    <3>1. items # <<>> => Len(Tail(items)) <= Len(items)
      OBVIOUS
    <3>2. Len(items) <= Len(items)
      OBVIOUS
    <3>3. items' = items \/ (items # <<>> /\ items' = Tail(items))
      BY <2>10 DEF PopRetry, Try, Take, Drained, Wait
    <3>4. Len(items') <= Len(items)
      BY <3>1, <3>2, <3>3
    <3>5. LetOut' \subseteq LetOut /\ closed' = closed
      BY <2>10 DEF PopRetry, Try, Take, Drained, Wait
    <3> QED
      BY <3>4, <3>5
  <2>11. CASE PopRefused(t)
    BY <2>11 DEF PopRefused
  <2>12. CASE PopTest(t)
    BY <2>12 DEF PopTest
  <2>13. CASE PopEnter(t)
    BY <2>13 DEF PopEnter
  <2>14. CASE NotifyAll(t)
    BY <2>14 DEF NotifyAll
  <2>15. CASE Resume(t)
    BY <2>15 DEF Resume
  <2>16. CASE SpuriousWakeup(t)
    BY <2>16 DEF SpuriousWakeup
  <2>17. CASE Close(t)
    BY <2>17 DEF Close
  <2>18. CASE Clear(t)
    BY <2>18 DEF Clear
  <2> QED
    BY <1>2, <2>1, <2>2, <2>3, <2>4, <2>5, <2>6, <2>7, <2>8, <2>9, <2>10,
       <2>11, <2>12, <2>13, <2>14, <2>15, <2>16, <2>17, <2>18
    DEF PushStep, PopStep
<1> QED
  BY <1>1, <1>2 DEF Next

LEMMA FifoStep ==
  ASSUME TypeOK, RoomInv, [Next]_vars
  PROVE  [F!Next]_(F!vars)
<1> USE DEF Transition, Turn, Calls, Answer, data
<1> USE DEF TypeOK, RoomInv, LetOut, Full, F!Full, F!vars, F!Answer, F!Next
<1> USE DEF F!Push, F!PushClosed, F!Pop, F!PopClosed, F!WouldBlock, F!Close, F!Clear
<1>1. CASE UNCHANGED vars
  BY <1>1 DEF vars
<1>2. ASSUME NEW t \in Threads,
             \/ EnterRuby(t) \/ LeaveRuby(t)
             \/ PushStep(t) \/ PopStep(t)
             \/ NotifyAll(t) \/ Resume(t) \/ SpuriousWakeup(t)
             \/ Close(t) \/ Clear(t)
      PROVE  [F!Next]_(F!vars)
  <2>1. CASE EnterRuby(t)
    BY <2>1 DEF EnterRuby
  <2>2. CASE LeaveRuby(t)
    BY <2>2 DEF LeaveRuby
  <2>3. CASE PushRoom(t)
    BY <2>3 DEF PushRoom
  <2>4. CASE PushRefused(t)
    BY <2>4 DEF PushRefused
  <2>5. CASE PushBlocks(t)
    BY <2>5 DEF PushBlocks
  <2>6. CASE PushTest(t)
    BY <2>6 DEF PushTest
  <2>7. CASE PushEnter(t)
    BY <2>7 DEF PushEnter
  <2>8. CASE AppendItem(t)
    BY <2>8 DEF AppendItem
  <2>9. CASE PopFirstTry(t)
    BY <2>9 DEF PopFirstTry, Try, Take, Drained, Wait
  <2>10. CASE PopRetry(t)
    BY <2>10 DEF PopRetry, Try, Take, Drained, Wait
  <2>11. CASE PopRefused(t)
    BY <2>11 DEF PopRefused
  <2>12. CASE PopTest(t)
    BY <2>12 DEF PopTest
  <2>13. CASE PopEnter(t)
    BY <2>13 DEF PopEnter
  <2>14. CASE NotifyAll(t)
    BY <2>14 DEF NotifyAll
  <2>15. CASE Resume(t)
    BY <2>15 DEF Resume
  <2>16. CASE SpuriousWakeup(t)
    BY <2>16 DEF SpuriousWakeup
  <2>17. CASE Close(t)
    BY <2>17 DEF Close
  <2>18. CASE Clear(t)
    BY <2>18 DEF Clear
  <2> QED
    BY <1>2, <2>1, <2>2, <2>3, <2>4, <2>5, <2>6, <2>7, <2>8, <2>9, <2>10,
       <2>11, <2>12, <2>13, <2>14, <2>15, <2>16, <2>17, <2>18
    DEF PushStep, PopStep
<1> QED
  BY <1>1, <1>2 DEF Next

\* Every call on an unbounded queue, or on a SizedQueue that one thread fills,
\* takes effect at one instant, first in first out.
THEOREM FifoRefinement ==
  ASSUME Uncontended
  PROVE  Spec => ImplementsFifo
<1>1. Init => F!Init
  BY DEF Init, F!Init
<1>2. TypeOK /\ TypeOK' /\ PusherInv /\ RoomInv /\ [Next]_vars => RoomInv'
  BY RoomStep, Uncontended
<1> QED
  BY <1>1, <1>2, TypeInit, TypeStep, PusherInit, PusherStep, RoomInit, FifoStep,
     PTL
  DEF Spec, ImplementsFifo, F!Spec
=============================================================================
