------------------------- MODULE RubyCondVarProofs -------------------------
(***************************************************************************)
(* Theorems about RubyCondVar, for any number of threads.                   *)
(***************************************************************************)
EXTENDS RubyCondVar, TLAPS

LEMMA TypeInit == Init => TypeOK
<1> SUFFICES ASSUME Init PROVE TypeOK
  OBVIOUS
<1>1. /\ turns \in [Threads -> 0..MaxTurns]
      /\ depth \in [Threads -> 0..MaxDepth]
  BY CondVarAssumption DEF Init
<1>2. pc \in [Threads -> GvlPcs \cup WaitPcs \cup {"outside", "blocked"}]
  BY DEF Init
<1>3. /\ gvl \in Threads \cup {NoThread}
      /\ locked \in BOOLEAN
      /\ gen \in Nat
      /\ parked \subseteq Threads
  BY DEF Init
<1>4. start \in [Threads -> Nat]
  BY DEF Init
<1> QED
  BY <1>1, <1>2, <1>3, <1>4 DEF TypeOK

LEMMA TypeStep ==
  ASSUME TypeOK, [Next]_vars
  PROVE  TypeOK'
<1> USE DEF Transition, Turn, mutex, condvar
<1> USE CondVarAssumption DEF TypeOK, GvlPcs, WaitPcs
<1>1. CASE UNCHANGED vars
  BY <1>1 DEF vars
<1>2. ASSUME NEW t \in Threads,
             \/ EnterRuby(t) \/ LeaveRuby(t) \/ Block(t) \/ Unblock(t)
             \/ Synchronize(t) \/ TryLock(t) \/ Exit(t)
             \/ Wait(t) \/ WaitStep(t) \/ SpuriousWakeup(t)
             \/ Signal(t) \/ Broadcast(t) \/ NotifyOne(t) \/ NotifyAll(t)
      PROVE  TypeOK'
  <2>1. CASE EnterRuby(t)
    BY <2>1 DEF EnterRuby
  <2>2. CASE LeaveRuby(t)
    BY <2>2 DEF LeaveRuby
  <2>3. CASE Block(t)
    BY <2>3 DEF Block
  <2>4. CASE Unblock(t)
    BY <2>4 DEF Unblock
  <2>5. CASE Synchronize(t)
    BY <2>5 DEF Synchronize
  <2>6. CASE TryLock(t)
    BY <2>6 DEF TryLock
  <2>7. CASE Exit(t)
    <3>1. depth[t] \in 0..MaxDepth /\ depth[t] > 0
      BY <2>7 DEF Exit
    <3>2. depth[t] - 1 \in 0..MaxDepth
      BY <3>1
    <3>3. depth' \in [Threads -> 0..MaxDepth]
      BY <2>7, <3>2 DEF Exit
    <3> QED
      BY <2>7, <3>3 DEF Exit
  <2>8. CASE Wait(t)
    <3>1. turns' \in [Threads -> 0..MaxTurns]
      BY <2>8 DEF Wait
    <3>2. pc' \in [Threads -> GvlPcs \cup WaitPcs \cup {"outside", "blocked"}]
      BY <2>8 DEF Wait
    <3> QED
      BY <2>8, <3>1, <3>2 DEF Wait
  <2>9. CASE Capture(t)
    <3>1. pc' \in [Threads -> GvlPcs \cup WaitPcs \cup {"outside", "blocked"}]
      BY <2>9 DEF Capture
    <3>2. start' \in [Threads -> Nat]
      BY <2>9 DEF Capture
    <3>3. parked' \subseteq Threads
      BY <2>9 DEF Capture
    <3> QED
      BY <2>9, <3>1, <3>2, <3>3 DEF Capture
  <2>10. CASE SleepAgain(t)
    BY <2>10 DEF SleepAgain
  <2>11. CASE WakeUp(t)
    BY <2>11 DEF WakeUp
  <2>12. CASE Return(t)
    BY <2>12 DEF Return
  <2>13. CASE SpuriousWakeup(t)
    BY <2>13 DEF SpuriousWakeup
  <2>14. CASE Signal(t)
    BY <2>14 DEF Signal, Bump
  <2>15. CASE Broadcast(t)
    BY <2>15 DEF Broadcast, Bump
  <2>16. CASE NotifyOne(t)
    BY <2>16 DEF NotifyOne
  <2>17. CASE NotifyAll(t)
    BY <2>17 DEF NotifyAll
  <2> QED
    BY <1>2, <2>1, <2>2, <2>3, <2>4, <2>5, <2>6, <2>7, <2>8, <2>9, <2>10,
       <2>11, <2>12, <2>13, <2>14, <2>15, <2>16, <2>17
    DEF WaitStep
<1> QED
  BY <1>1, <1>2 DEF Next

\* Every state of every behaviour is of the declared type.
THEOREM TypeCorrect == Spec => []TypeOK
  BY TypeInit, TypeStep, PTL DEF Spec

-----------------------------------------------------------------------------
(* The GVL.                                                                 *)

HolderInv == \A t \in Threads : pc[t] \in GvlPcs <=> gvl = t

LEMMA HolderInit == Init => HolderInv
  BY CondVarAssumption DEF Init, HolderInv, GvlPcs

LEMMA HolderStep ==
  ASSUME TypeOK, HolderInv, [Next]_vars
  PROVE  HolderInv'
<1> USE DEF Transition, Turn, mutex, condvar
<1> USE CondVarAssumption DEF TypeOK, HolderInv, GvlPcs
<1>1. CASE UNCHANGED vars
  BY <1>1 DEF vars
<1>2. ASSUME NEW t \in Threads,
             \/ EnterRuby(t) \/ LeaveRuby(t) \/ Block(t) \/ Unblock(t)
             \/ Synchronize(t) \/ TryLock(t) \/ Exit(t)
             \/ Wait(t) \/ WaitStep(t) \/ SpuriousWakeup(t)
             \/ Signal(t) \/ Broadcast(t) \/ NotifyOne(t) \/ NotifyAll(t)
      PROVE  HolderInv'
  <2>1. CASE EnterRuby(t)
    BY <2>1 DEF EnterRuby
  <2>2. CASE LeaveRuby(t)
    BY <2>2 DEF LeaveRuby
  <2>3. CASE Block(t)
    BY <2>3 DEF Block
  <2>4. CASE Unblock(t)
    BY <2>4 DEF Unblock
  <2>5. CASE Synchronize(t)
    BY <2>5 DEF Synchronize
  <2>6. CASE TryLock(t)
    BY <2>6 DEF TryLock
  <2>7. CASE Exit(t)
    BY <2>7 DEF Exit
  <2>8. CASE Wait(t)
    BY <2>8 DEF Wait
  <2>9. CASE Capture(t)
    BY <2>9 DEF Capture
  <2>10. CASE SleepAgain(t)
    BY <2>10 DEF SleepAgain
  <2>11. CASE WakeUp(t)
    BY <2>11 DEF WakeUp
  <2>12. CASE Return(t)
    BY <2>12 DEF Return
  <2>13. CASE SpuriousWakeup(t)
    BY <2>13 DEF SpuriousWakeup
  <2>14. CASE Signal(t)
    BY <2>14 DEF Signal, Bump
  <2>15. CASE Broadcast(t)
    BY <2>15 DEF Broadcast, Bump
  <2>16. CASE NotifyOne(t)
    BY <2>16 DEF NotifyOne
  <2>17. CASE NotifyAll(t)
    BY <2>17 DEF NotifyAll
  <2> QED
    BY <1>2, <2>1, <2>2, <2>3, <2>4, <2>5, <2>6, <2>7, <2>8, <2>9, <2>10,
       <2>11, <2>12, <2>13, <2>14, <2>15, <2>16, <2>17
    DEF WaitStep
<1> QED
  BY <1>1, <1>2 DEF Next

LEMMA GvlStep ==
  ASSUME TypeOK, HolderInv, [Next]_vars
  PROVE  [G!Next]_gvl
<1> USE DEF Transition, Turn, mutex, condvar
<1> USE CondVarAssumption
<1> USE DEF TypeOK, HolderInv, GvlPcs, G!Next, G!Acquire, G!Release
<1>1. CASE UNCHANGED vars
  BY <1>1 DEF vars
<1>2. ASSUME NEW t \in Threads,
             \/ EnterRuby(t) \/ LeaveRuby(t) \/ Block(t) \/ Unblock(t)
             \/ Synchronize(t) \/ TryLock(t) \/ Exit(t)
             \/ Wait(t) \/ WaitStep(t) \/ SpuriousWakeup(t)
             \/ Signal(t) \/ Broadcast(t) \/ NotifyOne(t) \/ NotifyAll(t)
      PROVE  [G!Next]_gvl
  <2>1. CASE EnterRuby(t)
    BY <2>1 DEF EnterRuby
  <2>2. CASE LeaveRuby(t)
    BY <2>2 DEF LeaveRuby
  <2>3. CASE Block(t)
    BY <2>3 DEF Block
  <2>4. CASE Unblock(t)
    BY <2>4 DEF Unblock
  <2>5. CASE Synchronize(t)
    BY <2>5 DEF Synchronize
  <2>6. CASE TryLock(t)
    BY <2>6 DEF TryLock
  <2>7. CASE Exit(t)
    BY <2>7 DEF Exit
  <2>8. CASE Wait(t)
    BY <2>8 DEF Wait
  <2>9. CASE Capture(t)
    BY <2>9 DEF Capture
  <2>10. CASE SleepAgain(t)
    BY <2>10 DEF SleepAgain
  <2>11. CASE WakeUp(t)
    BY <2>11 DEF WakeUp
  <2>12. CASE Return(t)
    BY <2>12 DEF Return
  <2>13. CASE SpuriousWakeup(t)
    BY <2>13 DEF SpuriousWakeup
  <2>14. CASE Signal(t)
    BY <2>14 DEF Signal, Bump
  <2>15. CASE Broadcast(t)
    BY <2>15 DEF Broadcast, Bump
  <2>16. CASE NotifyOne(t)
    BY <2>16 DEF NotifyOne
  <2>17. CASE NotifyAll(t)
    BY <2>17 DEF NotifyAll
  <2> QED
    BY <1>2, <2>1, <2>2, <2>3, <2>4, <2>5, <2>6, <2>7, <2>8, <2>9, <2>10,
       <2>11, <2>12, <2>13, <2>14, <2>15, <2>16, <2>17
    DEF WaitStep
<1> QED
  BY <1>1, <1>2 DEF Next

\* A wait gives the GVL up and takes it back; nobody takes it from its holder.
THEOREM GvlRefinement == Spec => ImplementsGvl
<1>1. Init => G!Init
  BY DEF Init, G!Init
<1> QED
  BY <1>1, TypeInit, TypeStep, HolderInit, HolderStep, GvlStep, PTL
  DEF Spec, ImplementsGvl, G!Spec

-----------------------------------------------------------------------------
(* Critical sections.                                                       *)

\* What the documentation asks of critical sections -- no blocking call in them
\* other than the wait -- and no nesting of the same object.
PlainSections == MayBlock = {} /\ MaxDepth \in {0, 1}

\* Whoever is inside holds the GVL, whoever waits has a section to come back to,
\* and the flag says whether somebody is inside.
SectionInv ==
  /\ \A t \in Threads : Inside(t) => gvl = t
  /\ \A t \in Threads : pc[t] \in WaitPcs => depth[t] > 0
  /\ FlagAroundBlock

LEMMA SectionInit == Init => SectionInv
  BY DEF Init, SectionInv, FlagAroundBlock, Inside, WaitPcs

LEMMA SectionStep ==
  ASSUME PlainSections, TypeOK, HolderInv, SectionInv, [Next]_vars
  PROVE  SectionInv'
<1> USE DEF Transition, Turn, mutex, condvar
<1> USE CondVarAssumption DEF TypeOK, HolderInv, GvlPcs, WaitPcs
<1> USE DEF SectionInv, FlagAroundBlock, Inside, PlainSections
<1>1. CASE UNCHANGED vars
  BY <1>1 DEF vars
<1>2. ASSUME NEW t \in Threads,
             \/ EnterRuby(t) \/ LeaveRuby(t) \/ Block(t) \/ Unblock(t)
             \/ Synchronize(t) \/ TryLock(t) \/ Exit(t)
             \/ Wait(t) \/ WaitStep(t) \/ SpuriousWakeup(t)
             \/ Signal(t) \/ Broadcast(t) \/ NotifyOne(t) \/ NotifyAll(t)
      PROVE  SectionInv'
  <2>1. CASE EnterRuby(t)
    BY <2>1 DEF EnterRuby
  <2>2. CASE LeaveRuby(t)
    BY <2>2 DEF LeaveRuby
  <2>3. CASE Block(t)
    BY <2>3 DEF Block
  <2>4. CASE Unblock(t)
    <3>1. ~Inside(t)
      BY <2>4 DEF Unblock
    <3>2. depth[t] = 0 /\ depth' = depth
      BY <2>4, <3>1 DEF Unblock
    <3>3. \A u \in Threads : u # t => pc'[u] = pc[u]
      BY <2>4 DEF Unblock
    <3>4. \A u \in Threads : Inside(u)' <=> Inside(u)
      BY <2>4, <3>2, <3>3 DEF Unblock
    <3>5. \A u \in Threads : ~Inside(u)
      BY <2>4 DEF Unblock
    <3> QED
      BY <2>4, <3>4, <3>5 DEF Unblock
  <2>5. CASE Synchronize(t)
    BY <2>5 DEF Synchronize
  <2>6. CASE TryLock(t)
    BY <2>6 DEF TryLock
  <2>7. CASE Exit(t)
    BY <2>7 DEF Exit
  <2>8. CASE Wait(t)
    BY <2>8 DEF Wait
  <2>9. CASE Capture(t)
    BY <2>9 DEF Capture
  <2>10. CASE SleepAgain(t)
    BY <2>10 DEF SleepAgain
  <2>11. CASE WakeUp(t)
    BY <2>11 DEF WakeUp
  <2>12. CASE Return(t)
    <3>1. depth' = depth /\ gvl' = t /\ locked'
      BY <2>12 DEF Return
    <3>2. Inside(t)'
      BY <2>12 DEF Return
    <3>3. \A u \in Threads : u # t => pc'[u] = pc[u]
      BY <2>12 DEF Return
    <3>4. \A u \in Threads : ~Inside(u)
      BY <2>12 DEF Return
    <3>5. \A u \in Threads : Inside(u)' => u = t
      BY <3>1, <3>3, <3>4
    <3>6. \A u \in Threads : pc'[u] \in WaitPcs => depth'[u] > 0
      BY <2>12, <3>3 DEF Return
    <3>7. FlagAroundBlock'
      BY <3>1, <3>2
    <3>8. \A u \in Threads : Inside(u)' => gvl' = u
      BY <3>1, <3>5
    <3> QED
      BY <3>6, <3>7, <3>8
  <2>13. CASE SpuriousWakeup(t)
    BY <2>13 DEF SpuriousWakeup
  <2>14. CASE Signal(t)
    BY <2>14 DEF Signal, Bump
  <2>15. CASE Broadcast(t)
    BY <2>15 DEF Broadcast, Bump
  <2>16. CASE NotifyOne(t)
    BY <2>16 DEF NotifyOne
  <2>17. CASE NotifyAll(t)
    BY <2>17 DEF NotifyAll
  <2> QED
    BY <1>2, <2>1, <2>2, <2>3, <2>4, <2>5, <2>6, <2>7, <2>8, <2>9, <2>10,
       <2>11, <2>12, <2>13, <2>14, <2>15, <2>16, <2>17
    DEF WaitStep
<1> QED
  BY <1>1, <1>2 DEF Next

\* BUGS.md: "under the GVL a critical section with no blocking call runs
\* uninterrupted".
THEOREM SectionsAreExclusive ==
  ASSUME PlainSections
  PROVE  Spec => []SectionsExclude
<1>1. SectionInv => SectionsExclude
  BY DEF SectionInv, SectionsExclude
<1>2. TypeOK /\ HolderInv /\ SectionInv /\ [Next]_vars => SectionInv'
  BY SectionStep, PlainSections
<1> QED
  BY <1>1, <1>2, TypeInit, TypeStep, HolderInit, HolderStep, SectionInit, PTL
  DEF Spec

\* BUGS.md: "synchronize holds a lock flag around the block (cleared even on a
\* raise)", under the same condition.
THEOREM FlagIsExact ==
  ASSUME PlainSections
  PROVE  Spec => []FlagAroundBlock
<1>1. SectionInv => FlagAroundBlock
  BY DEF SectionInv
<1>2. TypeOK /\ HolderInv /\ SectionInv /\ [Next]_vars => SectionInv'
  BY SectionStep, PlainSections
<1> QED
  BY <1>1, <1>2, TypeInit, TypeStep, HolderInit, HolderStep, SectionInit, PTL
  DEF Spec

-----------------------------------------------------------------------------
(* Broadcasts.                                                              *)

ParkedInv == \A t \in parked : pc[t] = "parked"

LEMMA ParkedInit == Init => ParkedInv
  BY DEF Init, ParkedInv

LEMMA ParkedStep ==
  ASSUME TypeOK, ParkedInv, [Next]_vars
  PROVE  ParkedInv'
<1> USE DEF Transition, Turn, mutex, condvar
<1> USE DEF TypeOK, ParkedInv
<1>1. CASE UNCHANGED vars
  BY <1>1 DEF vars
<1>2. ASSUME NEW t \in Threads,
             \/ EnterRuby(t) \/ LeaveRuby(t) \/ Block(t) \/ Unblock(t)
             \/ Synchronize(t) \/ TryLock(t) \/ Exit(t)
             \/ Wait(t) \/ WaitStep(t) \/ SpuriousWakeup(t)
             \/ Signal(t) \/ Broadcast(t) \/ NotifyOne(t) \/ NotifyAll(t)
      PROVE  ParkedInv'
  <2>1. CASE EnterRuby(t)
    BY <2>1 DEF EnterRuby
  <2>2. CASE LeaveRuby(t)
    BY <2>2 DEF LeaveRuby
  <2>3. CASE Block(t)
    BY <2>3 DEF Block
  <2>4. CASE Unblock(t)
    BY <2>4 DEF Unblock
  <2>5. CASE Synchronize(t)
    BY <2>5 DEF Synchronize
  <2>6. CASE TryLock(t)
    BY <2>6 DEF TryLock
  <2>7. CASE Exit(t)
    BY <2>7 DEF Exit
  <2>8. CASE Wait(t)
    BY <2>8 DEF Wait
  <2>9. CASE Capture(t)
    BY <2>9 DEF Capture
  <2>10. CASE SleepAgain(t)
    BY <2>10 DEF SleepAgain
  <2>11. CASE WakeUp(t)
    BY <2>11 DEF WakeUp
  <2>12. CASE Return(t)
    BY <2>12 DEF Return
  <2>13. CASE SpuriousWakeup(t)
    BY <2>13 DEF SpuriousWakeup
  <2>14. CASE Signal(t)
    BY <2>14 DEF Signal, Bump
  <2>15. CASE Broadcast(t)
    BY <2>15 DEF Broadcast, Bump
  <2>16. CASE NotifyOne(t)
    BY <2>16 DEF NotifyOne
  <2>17. CASE NotifyAll(t)
    BY <2>17 DEF NotifyAll
  <2> QED
    BY <1>2, <2>1, <2>2, <2>3, <2>4, <2>5, <2>6, <2>7, <2>8, <2>9, <2>10,
       <2>11, <2>12, <2>13, <2>14, <2>15, <2>16, <2>17
    DEF WaitStep
<1> QED
  BY <1>1, <1>2 DEF Next

\* Without signals only broadcasts notify.
NoSignal == \A t \in Threads : pc[t] # "notifyOne"

LEMMA WakeupInit == Init => NoSignal /\ NoMissedWakeup
  BY DEF Init, NoSignal, NoMissedWakeup

LEMMA WakeupStep ==
  ASSUME Signallers = {}, TypeOK, HolderInv, ParkedInv, NoSignal,
         NoMissedWakeup, [Next]_vars
  PROVE  NoSignal' /\ NoMissedWakeup'
<1> USE DEF Transition, Turn, mutex, condvar
<1> USE DEF TypeOK, HolderInv, GvlPcs, NotifyPcs
<1> USE DEF ParkedInv, NoSignal, NoMissedWakeup, Notifying
<1>1. CASE UNCHANGED vars
  BY <1>1 DEF vars
<1>2. ASSUME NEW t \in Threads,
             \/ EnterRuby(t) \/ LeaveRuby(t) \/ Block(t) \/ Unblock(t)
             \/ Synchronize(t) \/ TryLock(t) \/ Exit(t)
             \/ Wait(t) \/ WaitStep(t) \/ SpuriousWakeup(t)
             \/ Signal(t) \/ Broadcast(t) \/ NotifyOne(t) \/ NotifyAll(t)
      PROVE  NoSignal' /\ NoMissedWakeup'
  <2>1. CASE EnterRuby(t)
    BY <2>1 DEF EnterRuby
  <2>2. CASE LeaveRuby(t)
    BY <2>2 DEF LeaveRuby
  <2>3. CASE Block(t)
    BY <2>3 DEF Block
  <2>4. CASE Unblock(t)
    BY <2>4 DEF Unblock
  <2>5. CASE Synchronize(t)
    BY <2>5 DEF Synchronize
  <2>6. CASE TryLock(t)
    BY <2>6 DEF TryLock
  <2>7. CASE Exit(t)
    BY <2>7 DEF Exit
  <2>8. CASE Wait(t)
    BY <2>8 DEF Wait
  <2>9. CASE Capture(t)
    BY <2>9 DEF Capture
  <2>10. CASE SleepAgain(t)
    BY <2>10 DEF SleepAgain
  <2>11. CASE WakeUp(t)
    BY <2>11 DEF WakeUp
  <2>12. CASE Return(t)
    BY <2>12 DEF Return
  <2>13. CASE SpuriousWakeup(t)
    BY <2>13 DEF SpuriousWakeup
  <2>14. CASE Signal(t)
    BY <2>14 DEF Signal, Bump
  <2>15. CASE Broadcast(t)
    BY <2>15 DEF Broadcast, Bump
  <2>16. CASE NotifyOne(t)
    BY <2>16 DEF NotifyOne
  <2>17. CASE NotifyAll(t)
    BY <2>17 DEF NotifyAll
  <2> QED
    BY <1>2, <2>1, <2>2, <2>3, <2>4, <2>5, <2>6, <2>7, <2>8, <2>9, <2>10,
       <2>11, <2>12, <2>13, <2>14, <2>15, <2>16, <2>17
    DEF WaitStep
<1> QED
  BY <1>1, <1>2 DEF Next

\* condvar_notify: a broadcast wakes everybody who had captured the generation.
THEOREM BroadcastWakesAll ==
  ASSUME Signallers = {}
  PROVE  Spec => []NoMissedWakeup
<1>1. TypeOK /\ HolderInv /\ ParkedInv /\ NoSignal /\ NoMissedWakeup /\ [Next]_vars
        => NoSignal' /\ NoMissedWakeup'
  BY WakeupStep, Signallers = {}
<1> QED
  BY <1>1, TypeInit, TypeStep, HolderInit, HolderStep, ParkedInit, ParkedStep,
     WakeupInit, PTL DEF Spec
=============================================================================
