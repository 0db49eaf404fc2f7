------------------------- MODULE RubyThreadsProofs -------------------------
(***************************************************************************)
(* Theorems about RubyThreads, for any number of threads.                   *)
(***************************************************************************)
EXTENDS RubyThreads, TLAPS

\* What the actions put into the record-valued variables is of their type.
LEMMA RecordTypes ==
  ASSUME TypeOK, NEW t \in Threads
  PROVE  /\ Fresh(t) \in Context
         /\ [host EXCEPT !.exc = t] \in Context
         /\ [host EXCEPT !.exc = NoThread] \in Context
         /\ host.exc \in MaybeThread
         /\ out[t].res \in Results
         /\ out[t].exc \in MaybeThread
         /\ answer[t].of \in MaybeThread
         /\ \A r \in Results : [answer[t] EXCEPT !.res = r] \in JoinAnswer
         /\ \A e \in MaybeThread : [answer[t] EXCEPT !.exc = e] \in JoinAnswer
         /\ \A e \in MaybeThread : [host EXCEPT !.exc = e] \in Context
         /\ [res |-> "ok", exc |-> NoThread] \in Outcome
         /\ [res |-> "err", exc |-> host.exc] \in Outcome
         /\ saved[t] \in Context
         /\ \A u \in MaybeThread, b \in BOOLEAN : Asked(u, b) \in JoinAnswer
<1>1. /\ host \in Context
      /\ saved[t] \in Context
      /\ out[t] \in Outcome
      /\ answer[t] \in JoinAnswer
  BY DEF TypeOK
<1> QED
  BY <1>1 DEF Context, Outcome, JoinAnswer, MaybeThread, Results, Fresh, Asked

\* A thread that is on its way through thread_join has a thread it joins; the
\* type of what it reads depends on it.
JoinPcs == {"osjoin", "readResult", "readExc"}

HasTarget ==
  \A t \in Threads :
    pc[t] \in JoinPcs \/ resume[t] \in JoinPcs => answer[t].of \in Threads

TypeInv == TypeOK /\ HasTarget

LEMMA TypeInvariant == Spec => []TypeInv
<1>1. Init => TypeInv
  <2> SUFFICES ASSUME Init PROVE TypeInv
    OBVIOUS
  <2>1. /\ NoContext \in Context
        /\ NoOutcome \in Outcome
        /\ Asked(NoThread, FALSE) \in JoinAnswer
        /\ Fresh(Main) \in Context
    BY ThreadsAssumption DEF NoContext, Context, NoOutcome, Outcome, Asked,
       JoinAnswer, MaybeThread, Results, Fresh
  <2> QED
    BY <2>1, ThreadsAssumption
    DEF Init, TypeOK, MaybeThread, Results, AllPcs, HostPcs, BodyPcs, TypeInv,
        HasTarget, JoinPcs
<1>2. TypeInv /\ [Next]_vars => TypeInv'
  <2> SUFFICES ASSUME TypeInv, [Next]_vars
               PROVE  TypeOK' /\ HasTarget'
    BY DEF TypeInv
  <2> USE DEF Transition, LeaveGvl, EnterGvl, registers, cells, TypeInv
  <2>1. CASE UNCHANGED vars
    BY <2>1 DEF vars, TypeOK, HasTarget
  <2>2. CASE MainEnds
    <3>1. TypeOK'
      BY <2>2, ThreadsAssumption
      DEF MainEnds, TypeOK, AllPcs, HostPcs, BodyPcs, GonePcs
    <3>2. HasTarget'
      BY <2>2, ThreadsAssumption DEF MainEnds, HasTarget, JoinPcs, TypeOK
    <3> QED
      BY <3>1, <3>2
  <2>3. ASSUME NEW t \in Threads, RuntimeStep(t) \/ ProgramStep(t)
        PROVE  TypeOK'
    <3> USE DEF TypeOK, AllPcs, HostPcs, BodyPcs, GonePcs
    <3>1. CASE Lock(t)
      BY <3>1 DEF Lock, MaybeThread
    <3>2. CASE Publish(t)
      BY <3>2 DEF Publish
    <3>3. CASE Clear(t)
      BY <3>3 DEF Clear
    <3>4. CASE Unlock(t)
      BY <3>4 DEF Unlock, MaybeThread
    <3>5. CASE Install(t)
      BY <3>5, RecordTypes DEF Install
    <3>6. CASE PublishResult(t)
      BY <3>6, RecordTypes DEF PublishResult
    <3>7. CASE PublishExc(t)
      BY <3>7, RecordTypes DEF PublishExc
    <3>8. CASE PublishDone(t)
      BY <3>8 DEF PublishDone
    <3>9. CASE OsJoin(t)
      BY <3>9 DEF OsJoin
    <3>10. CASE ReadResult(t)
      <4>1. answer[t].of \in Threads
        BY <3>10 DEF ReadResult, HasTarget, JoinPcs
      <4>2. answer' \in [Threads -> JoinAnswer]
        BY <3>10, <4>1, RecordTypes DEF ReadResult
      <4> QED
        BY <3>10, <4>2 DEF ReadResult
    <3>11. CASE ReadExc(t)
      <4> DEFINE e == exc[answer[t].of]
      <4>1. e \in MaybeThread
        BY <3>11 DEF ReadExc, HasTarget, JoinPcs
      <4>2. answer' \in [Threads -> JoinAnswer]
        BY <3>11, <4>1, RecordTypes DEF ReadExc
      <4>3. host' \in Context
        BY <3>11, <4>1, RecordTypes DEF ReadExc
      <4> QED
        BY <3>11, <4>2, <4>3 DEF ReadExc
    <3>12. ASSUME NEW u \in Threads, Spawn(t, u) PROVE TypeOK'
      BY <3>12 DEF Spawn
    <3>13. ASSUME NEW u \in Threads, JoinFirst(t, u) PROVE TypeOK'
      BY <3>13, RecordTypes DEF JoinFirst, MaybeThread
    <3>14. ASSUME NEW u \in Threads, JoinLater(t, u) PROVE TypeOK'
      BY <3>14, RecordTypes DEF JoinLater, MaybeThread
    <3>15. CASE Raise(t)
      BY <3>15, RecordTypes DEF Raise
    <3>16. CASE Rescue(t)
      BY <3>16, RecordTypes DEF Rescue
    <3>17. CASE BodyReturns(t)
      <4>1. host' \in Context /\ out' \in [Threads -> Outcome]
        BY <3>17, RecordTypes DEF BodyReturns
      <4>2. pc' \in [Threads -> AllPcs] /\ resume' \in [Threads -> AllPcs]
        BY <3>17 DEF BodyReturns
      <4> QED
        BY <3>17, <4>1, <4>2 DEF BodyReturns
    <3>18. CASE BodyFails(t)
      <4>1. host' \in Context /\ out' \in [Threads -> Outcome]
        BY <3>18, RecordTypes DEF BodyFails
      <4>2. pc' \in [Threads -> AllPcs] /\ resume' \in [Threads -> AllPcs]
        BY <3>18 DEF BodyFails
      <4> QED
        BY <3>18, <4>1, <4>2 DEF BodyFails
    <3>19. CASE Block(t)
      BY <3>19 DEF Block
    <3>20. CASE Unpark(t)
      BY <3>20 DEF Unpark
    <3>21. CASE Sleep(t)
      BY <3>21 DEF Sleep
    <3>22. CASE Awake(t)
      BY <3>22 DEF Awake
    <3> QED
      BY <2>3, <3>1, <3>2, <3>3, <3>4, <3>5, <3>6, <3>7, <3>8, <3>9, <3>10,
         <3>11, <3>12, <3>13, <3>14, <3>15, <3>16, <3>17, <3>18, <3>19, <3>20,
         <3>21, <3>22
      DEF RuntimeStep, ProgramStep
  <2>4. ASSUME NEW t \in Threads, RuntimeStep(t) \/ ProgramStep(t)
        PROVE  HasTarget'
    <3> SUFFICES ASSUME NEW x \in Threads,
                        pc'[x] \in JoinPcs \/ resume'[x] \in JoinPcs
                 PROVE  answer'[x].of \in Threads
      BY DEF HasTarget
    <3> USE DEF TypeOK, HasTarget, JoinPcs
    <3>1. CASE Lock(t)
      BY <3>1 DEF Lock
    <3>2. CASE Publish(t)
      BY <3>2 DEF Publish
    <3>3. CASE Clear(t)
      BY <3>3 DEF Clear
    <3>4. CASE Unlock(t)
      BY <3>4 DEF Unlock
    <3>5. CASE Install(t)
      BY <3>5 DEF Install
    <3>6. CASE PublishResult(t)
      BY <3>6 DEF PublishResult
    <3>7. CASE PublishExc(t)
      BY <3>7 DEF PublishExc
    <3>8. CASE PublishDone(t)
      BY <3>8 DEF PublishDone
    <3>9. CASE OsJoin(t)
      BY <3>9 DEF OsJoin
    <3>10. CASE ReadResult(t)
      BY <3>10 DEF ReadResult, JoinAnswer
    <3>11. CASE ReadExc(t)
      BY <3>11 DEF ReadExc, JoinAnswer
    <3>12. ASSUME NEW u \in Threads, Spawn(t, u)
          PROVE  answer'[x].of \in Threads
      BY <3>12 DEF Spawn, Asked
    <3>13. ASSUME NEW u \in Threads, JoinFirst(t, u)
          PROVE  answer'[x].of \in Threads
      BY <3>13 DEF JoinFirst, Asked
    <3>14. ASSUME NEW u \in Threads, JoinLater(t, u)
          PROVE  answer'[x].of \in Threads
      BY <3>14 DEF JoinLater, Asked
    <3>15. CASE Raise(t)
      BY <3>15 DEF Raise
    <3>16. CASE Rescue(t)
      BY <3>16 DEF Rescue
    <3>17. CASE BodyReturns(t)
      BY <3>17 DEF BodyReturns
    <3>18. CASE BodyFails(t)
      BY <3>18 DEF BodyFails
    <3>19. CASE Block(t)
      BY <3>19 DEF Block
    <3>20. CASE Unpark(t)
      BY <3>20 DEF Unpark
    <3>21. CASE Sleep(t)
      BY <3>21 DEF Sleep
    <3>22. CASE Awake(t)
      BY <3>22 DEF Awake
    <3> QED
      BY <2>4, <3>1, <3>2, <3>3, <3>4, <3>5, <3>6, <3>7, <3>8, <3>9, <3>10,
         <3>11, <3>12, <3>13, <3>14, <3>15, <3>16, <3>17, <3>18, <3>19, <3>20,
         <3>21, <3>22
      DEF RuntimeStep, ProgramStep
  <2> QED
    BY <2>1, <2>2, <2>3, <2>4 DEF Next
<1> QED
  BY <1>1, <1>2, PTL DEF Spec

\* Every state of every behaviour is of the declared type.
THEOREM TypeCorrect == Spec => []TypeOK
<1>1. TypeInv => TypeOK
  BY DEF TypeInv
<1> QED
  BY <1>1, TypeInvariant, PTL

-----------------------------------------------------------------------------
(* The Global VM Lock.                                                      *)

LockPcs == HostPcs \cup {"publish", "unlock"}

\* Where gvl_enter and gvl_leave may go on.
AfterEnter == {"ruby", "install", "readResult"}
AfterLeave == {"pubResult", "osjoin", "parked", "ended"}

\* The lock is owned from the step that takes it to the step that drops it, the
\* pointer is live strictly in between.
LockInv ==
  \A t \in Threads :
    /\ lock = t <=> pc[t] \in LockPcs
    /\ ptr[t] <=> pc[t] \in HostPcs
    /\ pc[t] \in {"enter", "publish"} => resume[t] \in AfterEnter
    /\ pc[t] \in {"clear", "unlock"} => resume[t] \in AfterLeave

LEMMA LockInvInit == Init => LockInv
  BY ThreadsAssumption
  DEF Init, LockInv, LockPcs, HostPcs, BodyPcs, AfterEnter, AfterLeave

LEMMA LockInvStep ==
  ASSUME TypeOK, LockInv, [Next]_vars
  PROVE  LockInv'
<1> USE DEF Transition, LeaveGvl, EnterGvl, registers, cells
<1> USE DEF LockInv, LockPcs, HostPcs, BodyPcs, AfterEnter, AfterLeave
<1> USE ThreadsAssumption DEF TypeOK, MaybeThread
<1>1. CASE UNCHANGED vars
  BY <1>1 DEF vars
<1>2. CASE MainEnds
  BY <1>2 DEF MainEnds
<1>3. ASSUME NEW t \in Threads, RuntimeStep(t) \/ ProgramStep(t)
      PROVE  LockInv'
  <2>1. CASE Lock(t)
    BY <2>1 DEF Lock
  <2>2. CASE Publish(t)
    BY <2>2 DEF Publish
  <2>3. CASE Clear(t)
    BY <2>3 DEF Clear
  <2>4. CASE Unlock(t)
    BY <2>4 DEF Unlock
  <2>5. CASE Install(t)
    BY <2>5 DEF Install
  <2>6. CASE PublishResult(t)
    BY <2>6 DEF PublishResult
  <2>7. CASE PublishExc(t)
    BY <2>7 DEF PublishExc
  <2>8. CASE PublishDone(t)
    BY <2>8 DEF PublishDone
  <2>9. CASE OsJoin(t)
    BY <2>9 DEF OsJoin
  <2>10. CASE ReadResult(t)
    BY <2>10 DEF ReadResult
  <2>11. CASE ReadExc(t)
    BY <2>11 DEF ReadExc
  <2>12. ASSUME NEW u \in Threads, Spawn(t, u) PROVE LockInv'
    BY <2>12 DEF Spawn
  <2>13. ASSUME NEW u \in Threads, JoinFirst(t, u) PROVE LockInv'
    BY <2>13 DEF JoinFirst
  <2>14. ASSUME NEW u \in Threads, JoinLater(t, u) PROVE LockInv'
    BY <2>14 DEF JoinLater
  <2>15. CASE Raise(t)
    BY <2>15 DEF Raise
  <2>16. CASE Rescue(t)
    BY <2>16 DEF Rescue
  <2>17. CASE BodyReturns(t)
    BY <2>17 DEF BodyReturns
  <2>18. CASE BodyFails(t)
    BY <2>18 DEF BodyFails
  <2>19. CASE Block(t)
    BY <2>19 DEF Block
  <2>20. CASE Unpark(t)
    BY <2>20 DEF Unpark
  <2>21. CASE Sleep(t)
    BY <2>21 DEF Sleep
  <2>22. CASE Awake(t)
    BY <2>22 DEF Awake
  <2> QED
    BY <1>3, <2>1, <2>2, <2>3, <2>4, <2>5, <2>6, <2>7, <2>8, <2>9, <2>10,
       <2>11, <2>12, <2>13, <2>14, <2>15, <2>16, <2>17, <2>18, <2>19, <2>20,
       <2>21, <2>22
    DEF RuntimeStep, ProgramStep
<1> QED
  BY <1>1, <1>2, <1>3 DEF Next

\* README.md: "only one thread executes Ruby at a time".
THEOREM OneThreadAtATime == Spec => []OnlyHolderTouchesHost
<1>1. TypeInv /\ LockInv => OnlyHolderTouchesHost
  BY DEF LockInv, LockPcs, OnlyHolderTouchesHost
<1> QED
  BY <1>1, TypeInvariant, LockInvInit, LockInvStep, PTL DEF Spec, TypeInv

-----------------------------------------------------------------------------
(* What a body publishes and a join reads.                                  *)

Ended(t) == pc[t] = "ended"

\* t's body is over, its outcome settled.
BodyOver(t) ==
  \/ pc[t] \in GonePcs
  \/ pc[t] \in {"clear", "unlock"} /\ resume[t] = "pubResult"

\* The main thread runs no body.
MainHasNoBody ==
  /\ pc[Main] \notin {"unborn", "install", "pubResult", "pubExc", "pubDone"}
  /\ pc[Main] # "ended" => resume[Main] \notin {"install", "pubResult"}
  /\ ~done[Main]

\* The outcome is settled when the body is over, and each cell holds its part of
\* it from the step that publishes it.
CellInv ==
  /\ MainHasNoBody
  /\ \A t \in Threads \ {Main} :
       /\ BodyOver(t) => out[t].res # "none"
       /\ pc[t] \in {"pubExc", "pubDone", "ended"} => result[t] = out[t].res
       /\ pc[t] \in {"pubDone", "ended"} => exc[t] = out[t].exc
       /\ done[t] => Ended(t)
       /\ resume[t] # "ended"

LEMMA CellInvInit == Init => CellInv
  BY ThreadsAssumption
  DEF Init, CellInv, MainHasNoBody, BodyOver, GonePcs, Ended, TypeOK

LEMMA CellInvStep ==
  ASSUME TypeOK, LockInv, CellInv, [Next]_vars
  PROVE  CellInv'
<1> USE DEF Transition, LeaveGvl, EnterGvl, registers, cells
<1> USE DEF CellInv, MainHasNoBody, BodyOver, GonePcs, Ended
<1> USE DEF LockInv, AfterEnter, AfterLeave, Outcome
<1> USE ThreadsAssumption DEF TypeOK
<1>1. CASE UNCHANGED vars
  BY <1>1 DEF vars
<1>2. CASE MainEnds
  BY <1>2 DEF MainEnds
<1>3. ASSUME NEW t \in Threads, RuntimeStep(t) \/ ProgramStep(t)
      PROVE  CellInv'
  <2>1. CASE Lock(t)
    BY <2>1 DEF Lock
  <2>2. CASE Publish(t)
    BY <2>2 DEF Publish
  <2>3. CASE Clear(t)
    BY <2>3 DEF Clear
  <2>4. CASE Unlock(t)
    BY <2>4 DEF Unlock
  <2>5. CASE Install(t)
    BY <2>5 DEF Install
  <2>6. CASE PublishResult(t)
    BY <2>6 DEF PublishResult
  <2>7. CASE PublishExc(t)
    BY <2>7 DEF PublishExc
  <2>8. CASE PublishDone(t)
    BY <2>8 DEF PublishDone
  <2>9. CASE OsJoin(t)
    BY <2>9 DEF OsJoin
  <2>10. CASE ReadResult(t)
    BY <2>10 DEF ReadResult
  <2>11. CASE ReadExc(t)
    BY <2>11 DEF ReadExc
  <2>12. ASSUME NEW u \in Threads, Spawn(t, u) PROVE CellInv'
    BY <2>12 DEF Spawn
  <2>13. ASSUME NEW u \in Threads, JoinFirst(t, u) PROVE CellInv'
    BY <2>13 DEF JoinFirst
  <2>14. ASSUME NEW u \in Threads, JoinLater(t, u) PROVE CellInv'
    BY <2>14 DEF JoinLater
  <2>15. CASE Raise(t)
    BY <2>15 DEF Raise
  <2>16. CASE Rescue(t)
    BY <2>16 DEF Rescue
  <2>17. CASE BodyReturns(t)
    BY <2>17 DEF BodyReturns
  <2>18. CASE BodyFails(t)
    BY <2>18 DEF BodyFails
  <2>19. CASE Block(t)
    BY <2>19 DEF Block
  <2>20. CASE Unpark(t)
    BY <2>20 DEF Unpark
  <2>21. CASE Sleep(t)
    BY <2>21 DEF Sleep
  <2>22. CASE Awake(t)
    BY <2>22 DEF Awake
  <2> QED
    BY <1>3, <2>1, <2>2, <2>3, <2>4, <2>5, <2>6, <2>7, <2>8, <2>9, <2>10,
       <2>11, <2>12, <2>13, <2>14, <2>15, <2>16, <2>17, <2>18, <2>19, <2>20,
       <2>21, <2>22
    DEF RuntimeStep, ProgramStep
<1> QED
  BY <1>1, <1>2, <1>3 DEF Next

\* thread_alive is false only when the outcome is in place for thread_join.
THEOREM DeadArePublished == Spec => []DeadMeansPublished
<1>1. ASSUME TypeInv, CellInv
      PROVE  DeadMeansPublished
  <2> SUFFICES ASSUME NEW t \in Threads, done[t]
               PROVE  /\ result[t] # "none"
                      /\ [res |-> result[t], exc |-> exc[t]] = out[t]
    BY DEF DeadMeansPublished
  <2>1. t # Main /\ Ended(t)
    BY <1>1 DEF CellInv, MainHasNoBody
  <2>2. result[t] = out[t].res /\ exc[t] = out[t].exc /\ out[t].res # "none"
    BY <1>1, <2>1 DEF CellInv, Ended, BodyOver, GonePcs
  <2>3. out[t] \in Outcome
    BY <1>1 DEF TypeInv, TypeOK
  <2> QED
    BY <2>2, <2>3 DEF Outcome
<1> QED
  BY <1>1, TypeInvariant, LockInvInit, LockInvStep, CellInvInit, CellInvStep,
     PTL DEF Spec, TypeInv

\* t waits for the OS thread it joins.
Waiting(t) ==
  \/ pc[t] = "osjoin"
  \/ pc[t] \in {"clear", "unlock"} /\ resume[t] = "osjoin"

\* t is about to read the result.
AtRead(t) ==
  \/ pc[t] = "readResult"
  \/ pc[t] \in {"enter", "publish"} /\ resume[t] = "readResult"

\* The first joiner reads cells that no longer change.
JoinInv ==
  \A t \in Threads : answer[t].first =>
    LET u == answer[t].of
    IN  /\ u \in Threads \ {Main}
        /\ ~Waiting(t) => Ended(u)
        /\ ~Waiting(t) /\ ~AtRead(t) => answer[t].res = out[u].res
        /\ ~Waiting(t) /\ ~AtRead(t) /\ pc[t] # "readExc" =>
             answer[t].exc = out[u].exc

LEMMA JoinInvInit == Init => JoinInv
  BY DEF Init, JoinInv, Asked

LEMMA JoinInvStep ==
  ASSUME TypeOK, LockInv, CellInv, JoinInv, [Next]_vars
  PROVE  JoinInv'
<1> USE DEF Transition, LeaveGvl, EnterGvl, registers, cells
<1> USE DEF JoinInv, Waiting, AtRead, Ended
<1> USE DEF LockInv, AfterEnter, AfterLeave, CellInv, MainHasNoBody
<1> USE ThreadsAssumption DEF TypeOK, JoinAnswer
<1>1. CASE UNCHANGED vars
  BY <1>1 DEF vars
<1>2. CASE MainEnds
  BY <1>2 DEF MainEnds
<1>3. ASSUME NEW t \in Threads, RuntimeStep(t) \/ ProgramStep(t)
      PROVE  JoinInv'
  <2>1. CASE Lock(t)
    BY <2>1 DEF Lock
  <2>2. CASE Publish(t)
    BY <2>2 DEF Publish
  <2>3. CASE Clear(t)
    BY <2>3 DEF Clear
  <2>4. CASE Unlock(t)
    BY <2>4 DEF Unlock
  <2>5. CASE Install(t)
    BY <2>5 DEF Install
  <2>6. CASE PublishResult(t)
    BY <2>6 DEF PublishResult
  <2>7. CASE PublishExc(t)
    BY <2>7 DEF PublishExc
  <2>8. CASE PublishDone(t)
    BY <2>8 DEF PublishDone
  <2>9. CASE OsJoin(t)
    BY <2>9 DEF OsJoin
  <2>10. CASE ReadResult(t)
    BY <2>10 DEF ReadResult
  <2>11. CASE ReadExc(t)
    BY <2>11 DEF ReadExc
  <2>12. ASSUME NEW u \in Threads, Spawn(t, u) PROVE JoinInv'
    BY <2>12 DEF Spawn
  <2>13. ASSUME NEW u \in Threads, JoinFirst(t, u) PROVE JoinInv'
    BY <2>13 DEF JoinFirst, Asked
  <2>14. ASSUME NEW u \in Threads, JoinLater(t, u) PROVE JoinInv'
    BY <2>14 DEF JoinLater, Asked
  <2>15. CASE Raise(t)
    BY <2>15 DEF Raise
  <2>16. CASE Rescue(t)
    BY <2>16 DEF Rescue
  <2>17. CASE BodyReturns(t)
    BY <2>17 DEF BodyReturns
  <2>18. CASE BodyFails(t)
    BY <2>18 DEF BodyFails
  <2>19. CASE Block(t)
    BY <2>19 DEF Block
  <2>20. CASE Unpark(t)
    BY <2>20 DEF Unpark
  <2>21. CASE Sleep(t)
    BY <2>21 DEF Sleep
  <2>22. CASE Awake(t)
    BY <2>22 DEF Awake
  <2> QED
    BY <1>3, <2>1, <2>2, <2>3, <2>4, <2>5, <2>6, <2>7, <2>8, <2>9, <2>10,
       <2>11, <2>12, <2>13, <2>14, <2>15, <2>16, <2>17, <2>18, <2>19, <2>20,
       <2>21, <2>22
    DEF RuntimeStep, ProgramStep
<1> QED
  BY <1>1, <1>2, <1>3 DEF Next

\* thread_join: the caller that took the JoinHandle returns with the outcome of
\* the body it joined, whoever else joins it.
THEOREM FirstJoinHasOutcome == Spec => []FirstJoinWaits
<1>1. ASSUME TypeInv, CellInv, JoinInv
      PROVE  FirstJoinWaits
  <2> SUFFICES ASSUME NEW t \in Threads, pc[t] \in {"ruby", "raised"},
                      answer[t].first
               PROVE  /\ answer[t].res # "none"
                      /\ [res |-> answer[t].res, exc |-> answer[t].exc]
                           = out[answer[t].of]
    BY DEF FirstJoinWaits
  <2> DEFINE u == answer[t].of
  <2>1. /\ u \in Threads \ {Main}
        /\ Ended(u)
        /\ answer[t].res = out[u].res
        /\ answer[t].exc = out[u].exc
    BY <1>1 DEF JoinInv, Waiting, AtRead
  <2>2. out[u].res # "none"
    BY <1>1, <2>1 DEF CellInv, Ended, BodyOver, GonePcs
  <2>3. out[u] \in Outcome
    BY <1>1, <2>1 DEF TypeInv, TypeOK
  <2> QED
    BY <2>1, <2>2, <2>3 DEF Outcome
<1> QED
  BY <1>1, TypeInvariant, LockInvInit, LockInvStep, CellInvInit, CellInvStep,
     JoinInvInit, JoinInvStep, PTL DEF Spec, TypeInv

-----------------------------------------------------------------------------
(* Refinement of the abstract lock.                                         *)

LEMMA HolderIs ==
  ASSUME TypeOK, LockInv, NEW t \in Threads, ptr[t]
  PROVE  Holder = t
  BY DEF TypeOK, LockInv, Holder

LEMMA NobodyHolds ==
  ASSUME \A t \in Threads : ~ptr[t]
  PROVE  Holder = NoThread
  BY DEF Holder

\* A step that leaves every pointer alone leaves the holder alone.
LEMMA HolderStays ==
  ASSUME ptr' = ptr
  PROVE  Holder' = Holder
  BY DEF Holder

\* Publishing the pointer acquires the abstract lock, clearing it releases it.
THEOREM GvlRefinement == Spec => ImplementsGvl
<1>1. Init => G!Init
  BY NobodyHolds DEF Init, G!Init
<1>2. ASSUME TypeInv, LockInv, LockInv', TypeInv', [Next]_vars
      PROVE  [G!Next]_Holder
  <2> USE DEF TypeInv
  <2>1. CASE ptr' = ptr
    BY <2>1, HolderStays
  <2>2. ASSUME NEW t \in Threads, Publish(t)
        PROVE  G!Next
    <3>1. lock = t
      BY <1>2, <2>2 DEF Publish, Transition, LockInv, LockPcs
    <3>2. \A u \in Threads : ~ptr[u]
      BY <1>2, <2>2, <3>1
      DEF Publish, Transition, LockInv, LockPcs, HostPcs, BodyPcs
    <3>3. ptr'[t]
      BY <1>2, <2>2 DEF Publish, TypeOK
    <3>4. Holder = NoThread /\ Holder' = t
      <4>1. Holder = NoThread
        BY <3>2, NobodyHolds
      <4>2. \A u \in Threads : ptr'[u] => u = t
        BY <1>2, <3>3 DEF LockInv, LockPcs
      <4> QED
        BY <3>3, <4>1, <4>2 DEF Holder
    <3> QED
      BY <3>4 DEF G!Next, G!Acquire
  <2>3. ASSUME NEW t \in Threads, Clear(t)
        PROVE  G!Next
    <3>1. ptr[t]
      BY <1>2, <2>3 DEF Clear, Transition, LockInv, HostPcs
    <3>2. Holder = t
      BY <1>2, <3>1, HolderIs
    <3>3. \A u \in Threads : ~ptr'[u]
      BY <1>2, <2>3, <3>1 DEF Clear, LockInv, LockPcs, TypeOK
    <3>4. Holder' = NoThread
      BY <3>3 DEF Holder
    <3> QED
      BY <3>2, <3>4 DEF G!Next, G!Release
  <2>4. ASSUME ptr' # ptr
        PROVE  \E t \in Threads : Publish(t) \/ Clear(t)
    BY <1>2, <2>4
    DEF vars, Next, MainEnds, RuntimeStep, ProgramStep, Lock, Unlock, Install,
        PublishResult, PublishExc, PublishDone, OsJoin, ReadResult, ReadExc,
        Spawn, JoinFirst, JoinLater, Raise, Rescue, BodyReturns, BodyFails,
        Block, Unpark, Sleep, Awake
  <2> QED
    BY <2>1, <2>2, <2>3, <2>4
<1> QED
  BY <1>1, <1>2, TypeInvariant, LockInvInit, LockInvStep, PTL
  DEF Spec, TypeInv, ImplementsGvl, G!Spec

-----------------------------------------------------------------------------
(* When the registers are right.  The host has one set of them for all      *)
(* threads, exchanged when a body starts and ends.  That is enough as long  *)
(* as no body gives up the GVL in between: only the main program joins, and *)
(* nobody blocks.                                                           *)

BodiesRunThrough == MayBlock = {} /\ MayJoin \subseteq {Main} \X Threads

\* Only the main program joins, and it joins a thread a second time only after
\* that thread has ended.
SoleJoinerInv ==
  /\ \A t \in Threads \ {Main} :
       /\ answer[t].of = NoThread
       /\ pc[t] \notin JoinPcs /\ resume[t] \notin JoinPcs \cup {"ruby"}
       /\ \/ pc[t] = "unborn" \/ handle[t] \/ Ended(t)
          \/ answer[Main].of = t /\ Waiting(Main)
  /\ \A t \in Threads : pc[t] # "parked" /\ resume[t] # "parked"
  /\ LET a == answer[Main]
     IN  a.of # NoThread =>
           /\ a.of \in Threads \ {Main}
           /\ ~Waiting(Main) => Ended(a.of)
           /\ ~Waiting(Main) /\ ~AtRead(Main) => a.res = out[a.of].res
           /\ ~Waiting(Main) /\ ~AtRead(Main) /\ pc[Main] # "readExc" =>
                a.exc = out[a.of].exc

\* The main program will go on with its registers: it is not ending.
MainGoesOn ==
  /\ pc[Main] \notin {"raised", "ended"}
  /\ pc[Main] \in {"clear", "unlock"} => resume[Main] # "ended"

\* The registers are those of the body that runs, which saved the main
\* program's; while none runs, they are the main program's.
ContextInv ==
  /\ \A t \in Threads \ {Main} : pc[t] \in BodyPcs =>
       /\ host.owner = t
       /\ saved[t].owner = Main
       /\ MainGoesOn => saved[t].exc = NoThread
  /\ (\A t \in Threads \ {Main} : pc[t] \notin BodyPcs) =>
       /\ host.owner = Main
       /\ MainGoesOn => host.exc = NoThread
  /\ \A t \in Threads : pc[t] \in BodyPcs =>
       (pc[t] = "raised" <=> host.exc # NoThread)

\* A body that failed has its exception object.
ErrInv == \A t \in Threads : out[t].res = "err" <=> out[t].exc # NoThread

RegisterInv == SoleJoinerInv /\ ContextInv /\ ErrInv

LEMMA RegisterInvInit == Init => RegisterInv
  BY ThreadsAssumption
  DEF Init, RegisterInv, SoleJoinerInv, ContextInv, ErrInv, MainGoesOn, Asked,
      NoOutcome, Fresh, BodyPcs, JoinPcs, Ended, Waiting, AtRead

LEMMA SoleJoinerInvStep ==
  ASSUME BodiesRunThrough, TypeInv, LockInv, CellInv, SoleJoinerInv, [Next]_vars
  PROVE  SoleJoinerInv'
<1> USE DEF Transition, LeaveGvl, EnterGvl, registers, cells
<1> USE DEF SoleJoinerInv, Waiting, AtRead, Ended, JoinPcs
<1> USE DEF LockInv, AfterEnter, AfterLeave, CellInv, MainHasNoBody
<1> USE ThreadsAssumption DEF TypeInv, TypeOK, JoinAnswer, BodiesRunThrough
<1>1. CASE UNCHANGED vars
  BY <1>1 DEF vars
<1>2. CASE MainEnds
  BY <1>2 DEF MainEnds
<1>3. ASSUME NEW t \in Threads, RuntimeStep(t) \/ ProgramStep(t)
      PROVE  SoleJoinerInv'
  <2>1. CASE Lock(t)
    BY <2>1 DEF Lock
  <2>2. CASE Publish(t)
    BY <2>2 DEF Publish
  <2>3. CASE Clear(t)
    BY <2>3 DEF Clear
  <2>4. CASE Unlock(t)
    BY <2>4 DEF Unlock
  <2>5. CASE Install(t)
    BY <2>5 DEF Install
  <2>6. CASE PublishResult(t)
    BY <2>6 DEF PublishResult
  <2>7. CASE PublishExc(t)
    BY <2>7 DEF PublishExc
  <2>8. CASE PublishDone(t)
    BY <2>8 DEF PublishDone
  <2>9. CASE OsJoin(t)
    BY <2>9 DEF OsJoin
  <2>10. CASE ReadResult(t)
    BY <2>10 DEF ReadResult
  <2>11. CASE ReadExc(t)
    BY <2>11 DEF ReadExc
  <2>12. ASSUME NEW u \in Threads, Spawn(t, u) PROVE SoleJoinerInv'
    BY <2>12 DEF Spawn
  <2>13. ASSUME NEW u \in Threads, JoinFirst(t, u) PROVE SoleJoinerInv'
    BY <2>13 DEF JoinFirst, Asked
  <2>14. ASSUME NEW u \in Threads, JoinLater(t, u) PROVE SoleJoinerInv'
    BY <2>14 DEF JoinLater, Asked
  <2>15. CASE Raise(t)
    BY <2>15 DEF Raise
  <2>16. CASE Rescue(t)
    BY <2>16 DEF Rescue
  <2>17. CASE BodyReturns(t)
    BY <2>17 DEF BodyReturns
  <2>18. CASE BodyFails(t)
    BY <2>18 DEF BodyFails
  <2>19. CASE Block(t)
    BY <2>19 DEF Block
  <2>20. CASE Unpark(t)
    BY <2>20 DEF Unpark
  <2>21. CASE Sleep(t)
    BY <2>21 DEF Sleep
  <2>22. CASE Awake(t)
    BY <2>22 DEF Awake
  <2> QED
    BY <1>3, <2>1, <2>2, <2>3, <2>4, <2>5, <2>6, <2>7, <2>8, <2>9, <2>10,
       <2>11, <2>12, <2>13, <2>14, <2>15, <2>16, <2>17, <2>18, <2>19, <2>20,
       <2>21, <2>22
    DEF RuntimeStep, ProgramStep
<1> QED
  BY <1>1, <1>2, <1>3 DEF Next

LEMMA ContextInvStep ==
  ASSUME BodiesRunThrough, TypeInv, LockInv, CellInv, RegisterInv, [Next]_vars
  PROVE  ContextInv'
<1> USE DEF Transition, LeaveGvl, EnterGvl, registers, cells
<1> USE DEF RegisterInv, SoleJoinerInv, ContextInv, ErrInv, MainGoesOn, Ended
<1> USE DEF LockInv, LockPcs, HostPcs, BodyPcs, AfterEnter, AfterLeave
<1> USE DEF CellInv, MainHasNoBody, BodyOver, JoinPcs, AtRead, Waiting
<1> USE ThreadsAssumption DEF TypeInv, TypeOK, Context, BodiesRunThrough
<1>1. CASE UNCHANGED vars
  BY <1>1 DEF vars
<1>2. CASE MainEnds
  BY <1>2 DEF MainEnds
<1>3. ASSUME NEW t \in Threads, RuntimeStep(t) \/ ProgramStep(t)
      PROVE  ContextInv'
  <2>1. CASE Lock(t)
    BY <2>1 DEF Lock
  <2>2. CASE Publish(t)
    BY <2>2 DEF Publish
  <2>3. CASE Clear(t)
    BY <2>3 DEF Clear
  <2>4. CASE Unlock(t)
    BY <2>4 DEF Unlock
  <2>5. CASE Install(t)
    BY <2>5 DEF Install, Fresh
  <2>6. CASE PublishResult(t)
    BY <2>6 DEF PublishResult
  <2>7. CASE PublishExc(t)
    BY <2>7 DEF PublishExc
  <2>8. CASE PublishDone(t)
    BY <2>8 DEF PublishDone
  <2>9. CASE OsJoin(t)
    BY <2>9 DEF OsJoin
  <2>10. CASE ReadResult(t)
    BY <2>10 DEF ReadResult
  <2>11. CASE ReadExc(t)
    <3> DEFINE a == answer[Main]
               e == exc[a.of]
    <3>1. t = Main
      BY <2>11 DEF ReadExc
    <3>2. /\ a.of \in Threads \ {Main}
          /\ Ended(a.of)
          /\ a.res = out[a.of].res
      BY <2>11, <3>1 DEF ReadExc, HasTarget
    <3>3. a.res = "err" <=> e # NoThread
      BY <3>2
    <3>4. \A u \in Threads \ {Main} : pc[u] \notin BodyPcs /\ pc'[u] \notin BodyPcs
      BY <2>11, <3>1 DEF ReadExc
    <3>5. host.owner = Main /\ host.exc = NoThread /\ host \in Context
      BY <2>11, <3>1, <3>4 DEF ReadExc
    <3>6. /\ host'.owner = Main
          /\ host'.exc # NoThread <=> a.res = "err"
          /\ pc'[Main] = IF a.res = "err" THEN "raised" ELSE "ruby"
      BY <2>11, <3>1, <3>3, <3>5 DEF ReadExc
    <3> QED
      BY <3>4, <3>6
  <2>12. ASSUME NEW u \in Threads, Spawn(t, u) PROVE ContextInv'
    BY <2>12 DEF Spawn
  <2>13. ASSUME NEW u \in Threads, JoinFirst(t, u) PROVE ContextInv'
    BY <2>13 DEF JoinFirst
  <2>14. ASSUME NEW u \in Threads, JoinLater(t, u) PROVE ContextInv'
    BY <2>14 DEF JoinLater
  <2>15. CASE Raise(t)
    BY <2>15 DEF Raise
  <2>16. CASE Rescue(t)
    BY <2>16 DEF Rescue
  <2>17. CASE BodyReturns(t)
    BY <2>17 DEF BodyReturns
  <2>18. CASE BodyFails(t)
    BY <2>18 DEF BodyFails
  <2>19. CASE Block(t)
    BY <2>19 DEF Block
  <2>20. CASE Unpark(t)
    BY <2>20 DEF Unpark
  <2>21. CASE Sleep(t)
    BY <2>21 DEF Sleep
  <2>22. CASE Awake(t)
    BY <2>22 DEF Awake
  <2> QED
    BY <1>3, <2>1, <2>2, <2>3, <2>4, <2>5, <2>6, <2>7, <2>8, <2>9, <2>10,
       <2>11, <2>12, <2>13, <2>14, <2>15, <2>16, <2>17, <2>18, <2>19, <2>20,
       <2>21, <2>22
    DEF RuntimeStep, ProgramStep
<1> QED
  BY <1>1, <1>2, <1>3 DEF Next

LEMMA ErrInvStep ==
  ASSUME BodiesRunThrough, TypeInv, LockInv, CellInv, RegisterInv, [Next]_vars
  PROVE  ErrInv'
<1> USE DEF Transition, LeaveGvl, EnterGvl, registers, cells
<1> USE DEF RegisterInv, ContextInv, ErrInv, BodyPcs
<1> USE ThreadsAssumption DEF TypeInv, TypeOK, Outcome
<1>1. CASE UNCHANGED vars
  BY <1>1 DEF vars
<1>2. CASE MainEnds
  BY <1>2 DEF MainEnds
<1>3. ASSUME NEW t \in Threads, RuntimeStep(t) \/ ProgramStep(t)
      PROVE  ErrInv'
  <2>1. CASE Lock(t)
    BY <2>1 DEF Lock
  <2>2. CASE Publish(t)
    BY <2>2 DEF Publish
  <2>3. CASE Clear(t)
    BY <2>3 DEF Clear
  <2>4. CASE Unlock(t)
    BY <2>4 DEF Unlock
  <2>5. CASE Install(t)
    BY <2>5 DEF Install
  <2>6. CASE PublishResult(t)
    BY <2>6 DEF PublishResult
  <2>7. CASE PublishExc(t)
    BY <2>7 DEF PublishExc
  <2>8. CASE PublishDone(t)
    BY <2>8 DEF PublishDone
  <2>9. CASE OsJoin(t)
    BY <2>9 DEF OsJoin
  <2>10. CASE ReadResult(t)
    BY <2>10 DEF ReadResult
  <2>11. CASE ReadExc(t)
    BY <2>11 DEF ReadExc
  <2>12. ASSUME NEW u \in Threads, Spawn(t, u) PROVE ErrInv'
    BY <2>12 DEF Spawn
  <2>13. ASSUME NEW u \in Threads, JoinFirst(t, u) PROVE ErrInv'
    BY <2>13 DEF JoinFirst
  <2>14. ASSUME NEW u \in Threads, JoinLater(t, u) PROVE ErrInv'
    BY <2>14 DEF JoinLater
  <2>15. CASE Raise(t)
    BY <2>15 DEF Raise
  <2>16. CASE Rescue(t)
    BY <2>16 DEF Rescue
  <2>17. CASE BodyReturns(t)
    BY <2>17 DEF BodyReturns
  <2>18. CASE BodyFails(t)
    BY <2>18 DEF BodyFails
  <2>19. CASE Block(t)
    BY <2>19 DEF Block
  <2>20. CASE Unpark(t)
    BY <2>20 DEF Unpark
  <2>21. CASE Sleep(t)
    BY <2>21 DEF Sleep
  <2>22. CASE Awake(t)
    BY <2>22 DEF Awake
  <2> QED
    BY <1>3, <2>1, <2>2, <2>3, <2>4, <2>5, <2>6, <2>7, <2>8, <2>9, <2>10,
       <2>11, <2>12, <2>13, <2>14, <2>15, <2>16, <2>17, <2>18, <2>19, <2>20,
       <2>21, <2>22
    DEF RuntimeStep, ProgramStep
<1> QED
  BY <1>1, <1>2, <1>3 DEF Next

\* README.md: "each thread swaps in its own call stack".  It holds of programs
\* whose thread bodies run through without a blocking call.
THEOREM RegistersAreOwn ==
  ASSUME BodiesRunThrough
  PROVE  Spec => []OwnContext
<1>1. TypeInv /\ LockInv /\ RegisterInv => OwnContext
  BY ThreadsAssumption
  DEF OwnContext, RegisterInv, ContextInv, LockInv, LockPcs, HostPcs, TypeInv,
      TypeOK
<1>2. TypeInv /\ LockInv /\ CellInv /\ RegisterInv /\ [Next]_vars
        => RegisterInv'
  BY SoleJoinerInvStep, ContextInvStep, ErrInvStep, BodiesRunThrough
  DEF RegisterInv
<1> QED
  BY <1>1, <1>2, TypeInvariant, LockInvInit, LockInvStep, CellInvInit,
     CellInvStep, RegisterInvInit, PTL DEF Spec, TypeInv

\* thread_join "wait for the OS thread to finish": in those programs every join,
\* also a repeated one, returns the outcome with its exception object.
THEOREM JoinsWait ==
  ASSUME BodiesRunThrough
  PROVE  Spec => []JoinWaits
<1>1. ASSUME TypeInv, CellInv, RegisterInv
      PROVE  JoinWaits
  <2> SUFFICES ASSUME NEW t \in Threads, pc[t] \in {"ruby", "raised"},
                      answer[t].of # NoThread
               PROVE  /\ answer[t].res = out[answer[t].of].res
                      /\ answer[t].res # "none"
                      /\ answer[t].res = "err" <=> answer[t].exc # NoThread
    BY DEF JoinWaits
  <2> DEFINE u == answer[t].of
  <2>1. t = Main
    BY <1>1 DEF RegisterInv, SoleJoinerInv
  <2>2. /\ u \in Threads \ {Main}
        /\ Ended(u)
        /\ answer[t].res = out[u].res
        /\ answer[t].exc = out[u].exc
    BY <1>1, <2>1 DEF RegisterInv, SoleJoinerInv, Waiting, AtRead
  <2>3. out[u].res # "none"
    BY <1>1, <2>2 DEF CellInv, Ended, BodyOver, GonePcs
  <2> QED
    BY <1>1, <2>2, <2>3 DEF RegisterInv, ErrInv
<1>2. TypeInv /\ LockInv /\ CellInv /\ RegisterInv /\ [Next]_vars
        => RegisterInv'
  BY SoleJoinerInvStep, ContextInvStep, ErrInvStep, BodiesRunThrough
  DEF RegisterInv
<1> QED
  BY <1>1, <1>2, TypeInvariant, LockInvInit, LockInvStep, CellInvInit,
     CellInvStep, RegisterInvInit, PTL DEF Spec, TypeInv
=============================================================================
