----------------------- MODULE EventLoopThread_proofs -----------------------
(***************************************************************************)
(* Safety of the start and the end of the io threads, for any number of    *)
(* them, whether or not the pool is destroyed early.                       *)
(***************************************************************************)
EXTENDS EventLoopThread, TLAPS

(* The owner is in start(), at the thread cur. *)
Starting == opc \in {"start", "latch", "lock", "held", "test", "wait", "relock",
                     "unlock", "release", "return"}

(* startLoop has found the loop of thread i. *)
Found(i) ==
    \/ Starting /\ i < cur
    \/ opc \in {"unlock", "release", "return"} /\ i = cur
    \/ opc = "up" \/ Destroying

(* quit() has been called for the loop of thread i. *)
ToldToQuit(i) ==
    \/ Destroying /\ i < cur
    \/ opc \in {"wakeup", "join"} /\ i = cur

(* Where the owner is, and which threads there are. *)
StageInv ==
    /\ Starting => cur \in Threads /\ Len(loops) = cur - 1
    /\ opc = "up" => cur = NumThreads + 1 /\ Len(loops) = NumThreads
    /\ Destroying /\ opc # "gone" => cur \in Threads
    /\ opc = "gone" => cur = NumThreads + 1
    /\ \A i \in Threads :
          tpc[i] = "none" <=> Starting /\ (i > cur \/ (i = cur /\ opc = "start"))

(* Each thread sets tid_ before it lets the latch down. *)
LatchInv ==
    \A i \in Threads :
        /\ tid[i] <=> tpc[i] \notin {"none", "created"}
        /\ latch[i] = 0 => tpc[i] \notin {"none", "created", "counted"}

(* Who has the mutex, by the places of both, and whom holder_ names. *)
LockInv ==
    \A i \in Threads :
        /\ mutex[i] = "thread" <=> tpc[i] \in {"held", "publish", "unlock", "release"}
        /\ mutex[i] = "owner" <=> i = cur /\ opc \in {"held", "test", "unlock", "release"}
        /\ holder[i] = "thread" <=> tpc[i] \in {"publish", "unlock"}
        /\ holder[i] = "owner" => i = cur /\ opc \in {"test", "wait", "relock", "unlock"}

(* A loop is published from one place of its thread to another.  Once found *)
(* it stays until it is told to quit, and what start() returned was found.  *)
LoopInv ==
    /\ \A i \in Threads :
          /\ loop[i] <=> tpc[i] \in {"unlock", "release", "enter", "loop", "clear"}
          /\ quit[i] => ToldToQuit(i)
          /\ tpc[i] \in {"clear", "unwind", "ended"} => ToldToQuit(i)
          /\ Found(i) => tpc[i] \in {"unlock", "release", "enter", "loop",
                                     "clear", "unwind", "ended"}
    /\ \A i \in 1 .. Len(loops) : loops[i] = TRUE

(* The threads before the owner's place have been joined, not passed over. *)
JoinInv == Destroying => \A i \in Threads : i < cur => tpc[i] = "ended"

(* No assertion of Thread::start or ~MutexLock fails. *)
NeverAborts == ~aborted

ThreadsInv ==
    /\ TypeOK
    /\ StageInv
    /\ LatchInv
    /\ LockInv
    /\ LoopInv
    /\ JoinInv
    /\ NeverAborts

------------------------------------------------------------------------------
(* Before the pool is started nothing is locked, counted down or joined.    *)
LEMMA InitEstablishes == Init => ThreadsInv
  <1> SUFFICES ASSUME Init PROVE ThreadsInv
    OBVIOUS
  <1> USE NumThreadsAssumption DEF Init, Threads
  <1>1. TypeOK
    <2>1. loops \in Seq(BOOLEAN) /\ Len(loops) <= NumThreads
      OBVIOUS
    <2>2. cur \in 1 .. NumThreads + 1
      OBVIOUS
    <2>3. latch \in [Threads -> {0, 1}]
      OBVIOUS
    <2> QED BY <2>1, <2>2, <2>3 DEF TypeOK
  <1>2. StageInv /\ JoinInv
    BY DEF StageInv, JoinInv, Starting, Destroying
  <1>3. LatchInv /\ LockInv /\ NeverAborts
    BY DEF LatchInv, LockInv, NeverAborts
  <1>4. LoopInv
    BY DEF LoopInv, Found, Starting, Destroying
  <1> QED BY <1>1, <1>2, <1>3, <1>4 DEF ThreadsInv

(* What is said of the owner stays true while it stays where it is. *)
LEMMA OwnerStays ==
    ASSUME UNCHANGED ownerVars
    PROVE  /\ Starting' = Starting /\ Destroying' = Destroying
           /\ \A i : Found(i)' = Found(i) /\ ToldToQuit(i)' = ToldToQuit(i)
  BY DEF ownerVars, Starting, Destroying, Found, ToldToQuit

(* One step per action of the owner and of a thread, and under it one per  *)
(* part of the invariant.                                                  *)
LEMMA StepPreserves ==
    ASSUME ThreadsInv, Next
    PROVE  ThreadsInv'
  <1> USE NumThreadsAssumption
      DEF ThreadsInv, Threads, ownerVars, startVars, lockVars,
          OwnerAt, OwnerTo, At, To, Acquire, Hold, Release
  <1>1. CASE ThreadStart
    BY <1>1, SMTT(30)
       DEF ThreadStart, TypeOK, StageInv, LatchInv, LockInv, LoopInv, JoinInv,
           NeverAborts, Starting, Destroying, Found, ToldToQuit
  <1>2. CASE LatchWait
    BY <1>2, SMTT(30)
       DEF LatchWait, TypeOK, StageInv, LatchInv, LockInv, LoopInv, JoinInv,
           NeverAborts, Starting, Destroying, Found, ToldToQuit
  <1>3. CASE OwnerLock
    <2>1. TypeOK'
      BY <1>3 DEF OwnerLock, TypeOK, StageInv, Starting
    <2>2. StageInv'
      BY <1>3 DEF OwnerLock, TypeOK, StageInv, Starting, Destroying
    <2>3. LatchInv'
      BY <1>3 DEF OwnerLock, TypeOK, LatchInv
    <2>4. LockInv'
      BY <1>3 DEF OwnerLock, TypeOK, LockInv
    <2>5. LoopInv'
      BY <1>3 DEF OwnerLock, TypeOK, StageInv, LoopInv, Found, ToldToQuit, Starting, Destroying
    <2>6. JoinInv'
      BY <1>3 DEF OwnerLock, TypeOK, StageInv, JoinInv, LoopInv, Starting, Destroying, ToldToQuit
    <2>7. NeverAborts'
      BY <1>3 DEF OwnerLock, NeverAborts, TypeOK, LatchInv, LockInv
    <2> QED BY <2>1, <2>2, <2>3, <2>4, <2>5, <2>6, <2>7
  <1>4. CASE TestLoop
    BY <1>4, SMTT(30)
       DEF TestLoop, TypeOK, StageInv, LatchInv, LockInv, LoopInv, JoinInv,
           NeverAborts, Starting, Destroying, Found, ToldToQuit
  <1>5. CASE SpuriousWakeup
    BY <1>5, SMTT(30)
       DEF SpuriousWakeup, TypeOK, StageInv, LatchInv, LockInv, LoopInv, JoinInv,
           NeverAborts, Starting, Destroying, Found, ToldToQuit
  <1>6. CASE Relock
    BY <1>6, SMTT(30)
       DEF Relock, TypeOK, StageInv, LatchInv, LockInv, LoopInv, JoinInv,
           NeverAborts, Starting, Destroying, Found, ToldToQuit
  <1>7. CASE OwnerUnlock
    BY <1>7, SMTT(30)
       DEF OwnerUnlock, TypeOK, StageInv, LatchInv, LockInv, LoopInv, JoinInv,
           NeverAborts, Starting, Destroying, Found, ToldToQuit
  <1>8. CASE StartLoopReturns
    BY <1>8, SMTT(30)
       DEF StartLoopReturns, TypeOK, StageInv, LatchInv, LockInv, LoopInv, JoinInv,
           NeverAborts, Starting, Destroying, Found, ToldToQuit
  <1>9. CASE PoolDestroyed
    BY <1>9, SMTT(30)
       DEF PoolDestroyed, TypeOK, StageInv, LatchInv, LockInv, LoopInv, JoinInv,
           NeverAborts, Starting, Destroying, Found, ToldToQuit
  <1>10. CASE TestLoopAlive
    BY <1>10, SMTT(30)
       DEF TestLoopAlive, Destroyed, TypeOK, StageInv, LatchInv, LockInv, LoopInv, JoinInv,
           NeverAborts, Starting, Destroying, Found, ToldToQuit
  <1>11. CASE QuitLoop
    BY <1>11, SMTT(30)
       DEF QuitLoop, TypeOK, StageInv, LatchInv, LockInv, LoopInv, JoinInv,
           NeverAborts, Starting, Destroying, Found, ToldToQuit
  <1>12. CASE WakeupLoop
    BY <1>12, SMTT(30)
       DEF WakeupLoop, TypeOK, StageInv, LatchInv, LockInv, LoopInv, JoinInv,
           NeverAborts, Starting, Destroying, Found, ToldToQuit
  <1>13. CASE Join
    <2>1. TypeOK'
      BY <1>13 DEF Join, Destroyed, TypeOK, StageInv, Destroying
    <2>2. StageInv'
      BY <1>13, SMTT(30) DEF Join, Destroyed, TypeOK, StageInv, Starting, Destroying
    <2>3. LatchInv'
      BY <1>13 DEF Join, Destroyed, TypeOK, LatchInv
    <2>4. LockInv'
      BY <1>13 DEF Join, Destroyed, TypeOK, LockInv
    <2>5. LoopInv'
      BY <1>13, SMTT(30)
         DEF Join, Destroyed, TypeOK, StageInv, LoopInv, Starting, Destroying, Found, ToldToQuit
    <2>6. JoinInv'
      BY <1>13, SMTT(30) DEF Join, Destroyed, TypeOK, StageInv, JoinInv, Starting, Destroying
    <2>7. NeverAborts'
      BY <1>13 DEF Join, Destroyed, NeverAborts, TypeOK, StageInv, LockInv, Destroying
    <2> QED BY <2>1, <2>2, <2>3, <2>4, <2>5, <2>6, <2>7
  <1>14. ASSUME NEW i \in Threads, CountDown(i) PROVE ThreadsInv'
    <2>1. TypeOK'
      <3>1. CASE At(i, "created")
        BY <1>14, <3>1 DEF CountDown, TypeOK
      <3>2. CASE At(i, "counted")
        BY <1>14, <3>2 DEF CountDown, TypeOK
      <3> QED BY <1>14, <3>1, <3>2 DEF CountDown
    <2>2. StageInv'
      BY <1>14 DEF CountDown, TypeOK, StageInv, Starting, Destroying
    <2>3. LatchInv'
      BY <1>14 DEF CountDown, TypeOK, LatchInv
    <2>4. LockInv'
      BY <1>14 DEF CountDown, TypeOK, LockInv
    <2>5. LoopInv'
      <3>1. CASE At(i, "created")
        BY <1>14, <3>1, OwnerStays DEF CountDown, TypeOK, LoopInv
      <3>2. CASE At(i, "counted")
        BY <1>14, <3>2, OwnerStays DEF CountDown, TypeOK, LoopInv
      <3> QED BY <1>14, <3>1, <3>2 DEF CountDown
    <2>6. JoinInv'
      BY <1>14 DEF CountDown, TypeOK, StageInv, JoinInv, LoopInv, Starting, Destroying, ToldToQuit
    <2>7. NeverAborts'
      BY <1>14 DEF CountDown, NeverAborts, TypeOK, LatchInv, LockInv
    <2> QED BY <2>1, <2>2, <2>3, <2>4, <2>5, <2>6, <2>7
  <1>15. ASSUME NEW i \in Threads, BuildLoop(i) PROVE ThreadsInv'
    <2>1. TypeOK'
      BY <1>15 DEF BuildLoop, TypeOK, StageInv, Starting
    <2>2. StageInv'
      BY <1>15 DEF BuildLoop, TypeOK, StageInv, Starting, Destroying
    <2>3. LatchInv'
      BY <1>15 DEF BuildLoop, TypeOK, LatchInv
    <2>4. LockInv'
      BY <1>15 DEF BuildLoop, TypeOK, LockInv
    <2>5. LoopInv'
      BY <1>15 DEF BuildLoop, TypeOK, StageInv, LoopInv, Found, ToldToQuit, Starting, Destroying
    <2>6. JoinInv'
      BY <1>15 DEF BuildLoop, TypeOK, StageInv, JoinInv, LoopInv, Starting, Destroying, ToldToQuit
    <2>7. NeverAborts'
      BY <1>15 DEF BuildLoop, NeverAborts, TypeOK, LatchInv, LockInv
    <2> QED BY <2>1, <2>2, <2>3, <2>4, <2>5, <2>6, <2>7
  <1>16. ASSUME NEW i \in Threads, ThreadLock(i) PROVE ThreadsInv'
    <2>1. TypeOK'
      BY <1>16 DEF ThreadLock, TypeOK, StageInv, Starting
    <2>2. StageInv'
      BY <1>16 DEF ThreadLock, TypeOK, StageInv, Starting, Destroying
    <2>3. LatchInv'
      BY <1>16 DEF ThreadLock, TypeOK, LatchInv
    <2>4. LockInv'
      BY <1>16 DEF ThreadLock, TypeOK, LockInv
    <2>5. LoopInv'
      BY <1>16 DEF ThreadLock, TypeOK, StageInv, LoopInv, Found, ToldToQuit, Starting, Destroying
    <2>6. JoinInv'
      BY <1>16 DEF ThreadLock, TypeOK, StageInv, JoinInv, LoopInv, Starting, Destroying, ToldToQuit
    <2>7. NeverAborts'
      BY <1>16 DEF ThreadLock, NeverAborts, TypeOK, LatchInv, LockInv
    <2> QED BY <2>1, <2>2, <2>3, <2>4, <2>5, <2>6, <2>7
  <1>17. ASSUME NEW i \in Threads, Publish(i) PROVE ThreadsInv'
    BY <1>17, SMTT(30)
       DEF Publish, TypeOK, StageInv, LatchInv, LockInv, LoopInv, JoinInv,
           NeverAborts, Starting, Destroying, Found, ToldToQuit
  <1>18. ASSUME NEW i \in Threads, ThreadUnlock(i) PROVE ThreadsInv'
    <2>1. TypeOK'
      BY <1>18 DEF ThreadUnlock, TypeOK, StageInv, Starting
    <2>2. StageInv'
      BY <1>18 DEF ThreadUnlock, TypeOK, StageInv, Starting, Destroying
    <2>3. LatchInv'
      BY <1>18 DEF ThreadUnlock, TypeOK, LatchInv
    <2>4. LockInv'
      <3>1. CASE At(i, "unlock")
        BY <1>18, <3>1, SMTT(30) DEF ThreadUnlock, TypeOK, LockInv
      <3>2. CASE At(i, "release")
        BY <1>18, <3>2, SMTT(30) DEF ThreadUnlock, TypeOK, LockInv
      <3> QED BY <1>18, <3>1, <3>2 DEF ThreadUnlock
    <2>5. LoopInv'
      <3>1. CASE At(i, "unlock")
        BY <1>18, <3>1, OwnerStays DEF ThreadUnlock, TypeOK, LoopInv
      <3>2. CASE At(i, "release")
        BY <1>18, <3>2, OwnerStays DEF ThreadUnlock, TypeOK, LoopInv
      <3> QED BY <1>18, <3>1, <3>2 DEF ThreadUnlock
    <2>6. JoinInv'
      BY <1>18 DEF ThreadUnlock, TypeOK, StageInv, JoinInv, LoopInv, Starting, Destroying, ToldToQuit
    <2>7. NeverAborts'
      BY <1>18 DEF ThreadUnlock, NeverAborts, TypeOK, LatchInv, LockInv
    <2> QED BY <2>1, <2>2, <2>3, <2>4, <2>5, <2>6, <2>7
  <1>19. ASSUME NEW i \in Threads, EnterLoop(i) PROVE ThreadsInv'
    BY <1>19, SMTT(30)
       DEF EnterLoop, TypeOK, StageInv, LatchInv, LockInv, LoopInv, JoinInv,
           NeverAborts, Starting, Destroying, Found, ToldToQuit
  <1>20. ASSUME NEW i \in Threads, LeaveLoop(i) PROVE ThreadsInv'
    <2>1. TypeOK'
      BY <1>20 DEF LeaveLoop, TypeOK, StageInv, Starting
    <2>2. StageInv'
      BY <1>20 DEF LeaveLoop, TypeOK, StageInv, Starting, Destroying
    <2>3. LatchInv'
      BY <1>20 DEF LeaveLoop, TypeOK, LatchInv
    <2>4. LockInv'
      BY <1>20 DEF LeaveLoop, TypeOK, LockInv
    <2>5. LoopInv'
      BY <1>20 DEF LeaveLoop, TypeOK, StageInv, LoopInv, Found, ToldToQuit, Starting, Destroying
    <2>6. JoinInv'
      BY <1>20 DEF LeaveLoop, TypeOK, StageInv, JoinInv, LoopInv, Starting, Destroying, ToldToQuit
    <2>7. NeverAborts'
      BY <1>20 DEF LeaveLoop, NeverAborts, TypeOK, LatchInv, LockInv
    <2> QED BY <2>1, <2>2, <2>3, <2>4, <2>5, <2>6, <2>7
  <1>21. ASSUME NEW i \in Threads, ThreadEnds(i) PROVE ThreadsInv'
    <2>1. TypeOK'
      BY <1>21 DEF ThreadEnds, TypeOK, StageInv, Starting
    <2>2. StageInv'
      BY <1>21, SMTT(30) DEF ThreadEnds, TypeOK, StageInv, Starting, Destroying
    <2>3. LatchInv'
      BY <1>21 DEF ThreadEnds, TypeOK, LatchInv
    <2>4. LockInv'
      BY <1>21 DEF ThreadEnds, TypeOK, LockInv
    <2>5. LoopInv'
      <3>1. CASE At(i, "clear")
        BY <1>21, <3>1, SMTT(30) DEF ThreadEnds, TypeOK, LoopInv, Found, ToldToQuit, Starting, Destroying
      <3>2. CASE At(i, "unwind")
        BY <1>21, <3>2, OwnerStays DEF ThreadEnds, TypeOK, LoopInv
      <3> QED BY <1>21, <3>1, <3>2 DEF ThreadEnds
    <2>6. JoinInv'
      BY <1>21 DEF ThreadEnds, TypeOK, StageInv, JoinInv, LoopInv, Starting, Destroying, ToldToQuit
    <2>7. NeverAborts'
      BY <1>21 DEF ThreadEnds, NeverAborts, TypeOK, LatchInv, LockInv
    <2> QED BY <2>1, <2>2, <2>3, <2>4, <2>5, <2>6, <2>7
  <1> QED
    BY <1>1, <1>2, <1>3, <1>4, <1>5, <1>6, <1>7, <1>8, <1>9, <1>10, <1>11, <1>12, <1>13, <1>14, <1>15, <1>16, <1>17, <1>18, <1>19, <1>20, <1>21 DEF Next, OwnerStep, ThreadStep

(* The invariant holds in every state.                                     *)
THEOREM ThreadsInvInductive == Spec => []ThreadsInv
  <1>1. ThreadsInv /\ [Next]_vars => ThreadsInv'
    <2> SUFFICES ASSUME ThreadsInv, [Next]_vars PROVE ThreadsInv'
      OBVIOUS
    <2>1. CASE Next
      BY <2>1, StepPreserves
    <2>2. CASE UNCHANGED vars
      BY <2>2 DEF vars, ownerVars, startVars, lockVars, ThreadsInv, TypeOK, StageInv, LatchInv,
                  LockInv, LoopInv, JoinInv, NeverAborts, Starting, Destroying, Found, ToldToQuit,
                  Threads
    <2> QED BY <2>1, <2>2
  <1> QED BY InitEstablishes, <1>1, PTL DEF Spec

(* Every variable of the start and the end of the threads keeps its type.  *)
THEOREM TypeCorrect == Spec => []TypeOK
  <1>1. ThreadsInv => TypeOK
    BY DEF ThreadsInv
  <1> QED BY <1>1, ThreadsInvInductive, PTL

(* What startLoop returned is a live loop for as long as the pool is up:   *)
(* the loop was found under the mutex, and no thread leaves its loop before*)
(* it is told to.                                                          *)
THEOREM LoopsLiveHolds == Spec => []LoopsLive
  <1>1. ThreadsInv => LoopsLive
    <2> SUFFICES ASSUME ThreadsInv, ~Destroying, NEW i \in 1 .. Len(loops)
                 PROVE  loops[i] /\ tpc[i] \in {"unlock", "release", "enter", "loop"}
      BY DEF LoopsLive
    <2>1. Starting \/ opc = "up"
      BY DEF ThreadsInv, TypeOK, Starting, Destroying
    <2>2. i \in Threads /\ Found(i) /\ ~ToldToQuit(i)
      BY <2>1, NumThreadsAssumption
         DEF ThreadsInv, StageInv, TypeOK, Found, ToldToQuit, Starting, Destroying, Threads
    <2> QED BY <2>2 DEF ThreadsInv, LoopInv
  <1> QED BY <1>1, ThreadsInvInductive, PTL

(* One step of the owner or of a thread: the owner begins to wait under the *)
(* mutex when no loop is there, and the thread that publishes it ends the   *)
(* wait.                                                                    *)
LEMMA WaitStep ==
    ASSUME ThreadsInv, WaitEnds, Next
    PROVE  WaitEnds'
  <1> USE DEF WaitEnds, OwnerAt, At, To, OwnerTo
  <1>1. CASE OwnerStep
    <2>1. CASE TestLoop
      <3>1. opc' = "wait" => ~loop[cur]
        BY <2>1 DEF TestLoop
      <3>2. ~loop[cur] /\ cur \in Threads
            => tpc[cur] \in {"none", "created", "counted", "built", "lock", "held", "publish",
                            "unwind", "ended"}
        BY DEF ThreadsInv, TypeOK, LoopInv
      <3>3. opc = "test" /\ cur \in Threads
            => tpc[cur] \notin {"none", "unwind", "ended"}
        BY NumThreadsAssumption
           DEF ThreadsInv, TypeOK, StageInv, LoopInv, ToldToQuit, Starting, Destroying, Threads
      <3> QED BY <2>1, <3>1, <3>2, <3>3 DEF TestLoop
    <2>2. CASE OwnerStep /\ ~TestLoop
      <3>1. opc' # "wait"
        BY <2>2 DEF OwnerStep, ThreadStart, LatchWait, OwnerLock, Relock, OwnerUnlock,
                    StartLoopReturns, TestLoopAlive, QuitLoop, WakeupLoop, Join, Destroyed
      <3> QED BY <3>1
    <2> QED BY <1>1, <2>1, <2>2
  <1>2. CASE SpuriousWakeup
    BY <1>2 DEF SpuriousWakeup
  <1>3. CASE PoolDestroyed
    BY <1>3 DEF PoolDestroyed
  <1>4. ASSUME NEW i \in Threads, ThreadStep(i) PROVE WaitEnds'
    <2>1. tpc \in [Threads -> {"none", "created", "counted", "built", "lock", "held", "publish",
                            "unlock", "release", "enter", "loop", "clear", "unwind", "ended"}]
      BY DEF ThreadsInv, TypeOK
    <2>2. CASE CountDown(i) \/ BuildLoop(i) \/ ThreadLock(i)
      BY <1>4, <2>1, <2>2 DEF CountDown, BuildLoop, ThreadLock, ownerVars
    <2>3. CASE Publish(i)
      BY <1>4, <2>1, <2>3 DEF Publish
    <2>4. CASE ThreadUnlock(i) \/ EnterLoop(i) \/ LeaveLoop(i) \/ ThreadEnds(i)
      BY <1>4, <2>1, <2>4 DEF ThreadUnlock, EnterLoop, LeaveLoop, ThreadEnds, ownerVars
    <2> QED BY <1>4, <2>2, <2>3, <2>4 DEF ThreadStep
  <1> QED BY <1>1, <1>2, <1>3, <1>4 DEF Next

(* No notification is missed: an owner that waits waits for a thread that  *)
(* has yet to publish its loop, and will find the owner waiting.           *)
THEOREM WaitEndsAlways == Spec => []WaitEnds
  <1>1. Init => WaitEnds
    BY DEF Init, WaitEnds, OwnerAt
  <1>2. ThreadsInv /\ WaitEnds /\ [Next]_vars => WaitEnds'
    <2> SUFFICES ASSUME ThreadsInv, WaitEnds, [Next]_vars PROVE WaitEnds'
      OBVIOUS
    <2>1. CASE UNCHANGED vars
      BY <2>1 DEF vars, ownerVars, WaitEnds, OwnerAt
    <2> QED BY <2>1, WaitStep
  <1> QED BY <1>1, <1>2, ThreadsInvInductive, PTL DEF Spec

(* holder_ never names a running thread that does not have the mutex, in   *)
(* spite of Condition::wait: the order of the two steps of lock and unlock. *)
THEOREM HolderHoldsAlways == Spec => []HolderHolds
  <1>1. ThreadsInv => HolderHolds
    BY DEF ThreadsInv, LockInv, HolderHolds
  <1> QED BY <1>1, ThreadsInvInductive, PTL

(* Where the destruction of the pool ends, no thread is left.              *)
AllJoined == opc = "gone" => \A i \in Threads : At(i, "ended")

(* No assertion of Thread::start or ~MutexLock fails, and the destruction  *)
(* of the pool, where it ends, has joined every thread.                    *)
THEOREM EndsWell == Spec => [](NeverAborts /\ AllJoined)
  <1>1. ThreadsInv => NeverAborts /\ AllJoined
    BY NumThreadsAssumption
       DEF ThreadsInv, StageInv, JoinInv, AllJoined, At, Threads, Destroying
  <1> QED BY <1>1, ThreadsInvInductive, PTL
=============================================================================
