--------------------------- MODULE EventLoopThread ---------------------------
(***************************************************************************)
(* How the io loops come up and go down: EventLoopThreadPool::start makes  *)
(* one EventLoopThread after the other and collects the loops they publish,*)
(* and the destruction of the pool quits and joins them (src/src/          *)
(* EventLoopThread.cc, Thread.cc, Mutex.cc).                               *)
(*                                                                         *)
(* opc is where the owner is, the thread of the base loop, and tpc[i]      *)
(* where the i-th thread is; cur is the thread the owner is busy with.     *)
(* Each EventLoopThread has its own mutex_, of which both the pthread      *)
(* mutex and the holder_ beside it are modelled, since Condition::wait     *)
(* gives the former away without telling the latter.  The latch of         *)
(* Thread::start is abstracted to its count.                               *)
(***************************************************************************)
EXTENDS Naturals, Sequences

CONSTANTS
    NumThreads,       \* numThreads_ of the pool
    QuitEarly         \* the pool may be destroyed before its loops are in loop()

ASSUME NumThreadsAssumption == NumThreads \in Nat
ASSUME QuitEarlyAssumption == QuitEarly \in BOOLEAN

VARIABLES
    opc, cur,         \* the owner's place, and the thread it is at
    tpc,              \* the place of each thread
    tid, latch,       \* tid_ is set; the count of latch_
    mutex, holder,    \* who has the pthread mutex; holder_
    loop,             \* loop_ is not null
    quit,             \* quit_ of the EventLoop
    loops,            \* loops_: for each startLoop, whether it returned a loop
    aborted           \* an assertion has failed

ownerVars == <<opc, cur, loops, aborted>>
startVars == <<tid, latch>>
lockVars == <<mutex, holder>>
vars == <<ownerVars, tpc, startVars, lockVars, loop, quit>>

Threads == 1 .. NumThreads

TypeOK ==
    /\ opc \in {"start", "latch", "lock", "held", "test", "wait", "relock", "unlock",
                "release", "return", "up", "destroy", "quit", "wakeup", "join", "gone"}
    /\ cur \in 1 .. NumThreads + 1
    /\ tpc \in [Threads -> {"none", "created", "counted", "built", "lock", "held", "publish",
                            "unlock", "release", "enter", "loop", "clear", "unwind", "ended"}]
    /\ tid \in [Threads -> BOOLEAN]
    /\ latch \in [Threads -> {0, 1}]
    /\ mutex \in [Threads -> {"free", "owner", "thread"}]
    /\ holder \in [Threads -> {"nobody", "owner", "thread"}]
    /\ loop \in [Threads -> BOOLEAN]
    /\ quit \in [Threads -> BOOLEAN]
    /\ loops \in Seq(BOOLEAN) /\ Len(loops) <= NumThreads
    /\ aborted \in BOOLEAN

Init ==
    /\ opc = IF NumThreads = 0 THEN "up" ELSE "start"
    /\ cur = 1
    /\ tpc = [i \in Threads |-> "none"]
    /\ tid = [i \in Threads |-> FALSE]
    /\ latch = [i \in Threads |-> 1]
    /\ mutex = [i \in Threads |-> "free"]
    /\ holder = [i \in Threads |-> "nobody"]
    /\ loop = [i \in Threads |-> FALSE]
    /\ quit = [i \in Threads |-> FALSE]
    /\ loops = <<>>
    /\ aborted = FALSE

------------------------------------------------------------------------------
(* MutexLock: two steps to lock, the mutex and then holder_, and two to    *)
(* unlock, in the opposite order.                                          *)

Acquire(i, who) == mutex[i] = "free" /\ mutex' = [mutex EXCEPT ![i] = who]
Hold(i, who)    == holder' = [holder EXCEPT ![i] = who]
Release(i)      == mutex' = [mutex EXCEPT ![i] = "free"]

OwnerAt(place) == opc = place /\ cur \in Threads
OwnerTo(place) == opc' = place /\ UNCHANGED <<cur, loops, aborted>>

At(i, place) == tpc[i] = place
To(i, place) == tpc' = [tpc EXCEPT ![i] = place]

------------------------------------------------------------------------------
(* EventLoopThreadPool::start and EventLoopThread::startLoop, on the owner *)

ThreadStart ==
    /\ OwnerAt("start")
    /\ To(cur, "created")
    /\ OwnerTo("latch")
    /\ UNCHANGED <<startVars, lockVars, loop, quit>>

(* The latch is down; Thread::start asserts that the thread has set tid_. *)
LatchWait ==
    /\ OwnerAt("latch")
    /\ latch[cur] = 0
    /\ opc' = "lock"
    /\ aborted' = ~tid[cur]
    /\ UNCHANGED <<cur, loops, tpc, startVars, lockVars, loop, quit>>

OwnerLock ==
    \/ /\ OwnerAt("lock")
       /\ Acquire(cur, "owner")
       /\ OwnerTo("held")
       /\ UNCHANGED <<tpc, startVars, holder, loop, quit>>
    \/ /\ OwnerAt("held")
       /\ Hold(cur, "owner")
       /\ OwnerTo("test")
       /\ UNCHANGED <<tpc, startVars, mutex, loop, quit>>

(* while (loop_ == nullptr) cond_.wait(): the wait gives the mutex away and *)
(* leaves holder_ as it is.                                                 *)
TestLoop ==
    /\ OwnerAt("test")
    /\ IF loop[cur]
       THEN OwnerTo("unlock") /\ UNCHANGED mutex
       ELSE OwnerTo("wait") /\ Release(cur)
    /\ UNCHANGED <<tpc, startVars, holder, loop, quit>>

(* pthread_cond_wait may return without a signal. *)
SpuriousWakeup ==
    /\ OwnerAt("wait")
    /\ OwnerTo("relock")
    /\ UNCHANGED <<tpc, startVars, lockVars, loop, quit>>

(* Mutant: if in place of while, so that a spurious wakeup goes unnoticed. *)
Relock_NoRetest ==
    /\ OwnerAt("relock")
    /\ Acquire(cur, "owner")
    /\ OwnerTo("unlock")
    /\ UNCHANGED <<tpc, startVars, holder, loop, quit>>

Relock ==
    /\ OwnerAt("relock")
    /\ Acquire(cur, "owner")
    /\ OwnerTo("test")
    /\ UNCHANGED <<tpc, startVars, holder, loop, quit>>

OwnerUnlock ==
    \/ /\ OwnerAt("unlock")
       /\ Hold(cur, "nobody")
       /\ OwnerTo("release")
       /\ UNCHANGED <<tpc, startVars, mutex, loop, quit>>
    \/ /\ OwnerAt("release")
       /\ Release(cur)
       /\ OwnerTo("return")
       /\ UNCHANGED <<tpc, startVars, holder, loop, quit>>

(* return loop_, read without the mutex, and loops_.push_back *)
StartLoopReturns ==
    /\ OwnerAt("return")
    /\ loops' = Append(loops, loop[cur])
    /\ cur' = cur + 1
    /\ opc' = IF cur = NumThreads THEN "up" ELSE "start"
    /\ UNCHANGED <<aborted, tpc, startVars, lockVars, loop, quit>>

------------------------------------------------------------------------------
(* ThreadData::runInThread and EventLoopThread::threadFunc, on a thread *)

CountDown(i) ==
    /\ \/ /\ At(i, "created")
          /\ tid' = [tid EXCEPT ![i] = TRUE]
          /\ To(i, "counted")
          /\ UNCHANGED latch
       \/ /\ At(i, "counted")
          /\ latch' = [latch EXCEPT ![i] = 0]
          /\ To(i, "built")
          /\ UNCHANGED tid
    /\ UNCHANGED <<ownerVars, lockVars, loop, quit>>

(* EventLoop loop; and threadCB_(&loop) *)
BuildLoop(i) ==
    /\ At(i, "built")
    /\ To(i, "lock")
    /\ UNCHANGED <<ownerVars, startVars, lockVars, loop, quit>>

ThreadLock(i) ==
    \/ /\ At(i, "lock")
       /\ Acquire(i, "thread")
       /\ To(i, "held")
       /\ UNCHANGED <<ownerVars, startVars, holder, loop, quit>>
    \/ /\ At(i, "held")
       /\ Hold(i, "thread")
       /\ To(i, "publish")
       /\ UNCHANGED <<ownerVars, startVars, mutex, loop, quit>>

(* Mutant: nobody is notified. *)
Publish_Silent(i) ==
    /\ At(i, "publish")
    /\ loop' = [loop EXCEPT ![i] = TRUE]
    /\ To(i, "unlock")
    /\ UNCHANGED <<ownerVars, startVars, lockVars, quit>>

(* loop_ = &loop and cond_.notify() *)
Publish(i) ==
    /\ At(i, "publish")
    /\ loop' = [loop EXCEPT ![i] = TRUE]
    /\ opc' = IF opc = "wait" /\ cur = i THEN "relock" ELSE opc
    /\ To(i, "unlock")
    /\ UNCHANGED <<cur, loops, aborted, startVars, lockVars, quit>>

(* Mutant: the order of unlock is changed. *)
ThreadUnlock_Swapped(i) ==
    \/ /\ At(i, "unlock")
       /\ Release(i)
       /\ To(i, "release")
       /\ UNCHANGED <<ownerVars, startVars, holder, loop, quit>>
    \/ /\ At(i, "release")
       /\ Hold(i, "nobody")
       /\ To(i, "enter")
       /\ UNCHANGED <<ownerVars, startVars, mutex, loop, quit>>

ThreadUnlock(i) ==
    \/ /\ At(i, "unlock")
       /\ Hold(i, "nobody")
       /\ To(i, "release")
       /\ UNCHANGED <<ownerVars, startVars, mutex, loop, quit>>
    \/ /\ At(i, "release")
       /\ Release(i)
       /\ To(i, "enter")
       /\ UNCHANGED <<ownerVars, startVars, holder, loop, quit>>

(* loop_->loop(): it begins by clearing quit_. *)
EnterLoop(i) ==
    /\ At(i, "enter")
    /\ quit' = [quit EXCEPT ![i] = FALSE]
    /\ To(i, "loop")
    /\ UNCHANGED <<ownerVars, startVars, lockVars, loop>>

(* It sees quit_ when epoll_wait has returned, after CPollTimeMs at last. *)
LeaveLoop(i) ==
    /\ At(i, "loop")
    /\ quit[i]
    /\ To(i, "clear")
    /\ UNCHANGED <<ownerVars, startVars, lockVars, loop, quit>>

(* loop_ = nullptr, without the mutex; then the EventLoop is destroyed. *)
ThreadEnds(i) ==
    \/ /\ At(i, "clear")
       /\ loop' = [loop EXCEPT ![i] = FALSE]
       /\ To(i, "unwind")
       /\ UNCHANGED <<ownerVars, startVars, lockVars, quit>>
    \/ /\ At(i, "unwind")
       /\ To(i, "ended")
       /\ UNCHANGED <<ownerVars, startVars, lockVars, loop, quit>>

------------------------------------------------------------------------------
(* The destruction of the pool: ~EventLoopThread of one after the other *)

PoolDestroyed ==
    /\ opc = "up"
    /\ QuitEarly \/ \A i \in Threads : At(i, "loop")
    /\ opc' = IF NumThreads = 0 THEN "gone" ELSE "destroy"
    /\ cur' = 1
    /\ UNCHANGED <<loops, aborted, tpc, startVars, lockVars, loop, quit>>

(* After the destructor's body the members go; ~MutexLock asserts that     *)
(* nobody is named as the holder, and ~Thread detaches what is not joined. *)
Destroyed ==
    /\ aborted' = (holder[cur] # "nobody")
    /\ cur' = cur + 1
    /\ opc' = IF cur = NumThreads THEN "gone" ELSE "destroy"
    /\ UNCHANGED loops

TestLoopAlive ==
    /\ OwnerAt("destroy")
    /\ IF loop[cur] THEN OwnerTo("quit") ELSE Destroyed
    /\ UNCHANGED <<tpc, startVars, lockVars, loop, quit>>

(* loop_->quit() *)
QuitLoop ==
    /\ OwnerAt("quit")
    /\ quit' = [quit EXCEPT ![cur] = TRUE]
    /\ OwnerTo("wakeup")
    /\ UNCHANGED <<tpc, startVars, lockVars, loop>>

(* The rest of quit() may use an EventLoop that is destroyed already, as    *)
(* its comment says; whatever is read or written there, LeaveLoop stands.   *)
WakeupLoop ==
    /\ OwnerAt("wakeup")
    /\ OwnerTo("join")
    /\ UNCHANGED <<tpc, startVars, lockVars, loop, quit>>

Join ==
    /\ OwnerAt("join")
    /\ At(cur, "ended")
    /\ Destroyed
    /\ UNCHANGED <<tpc, startVars, lockVars, loop, quit>>

------------------------------------------------------------------------------
OwnerStep ==
    \/ ThreadStart \/ LatchWait \/ OwnerLock \/ TestLoop \/ Relock \/ OwnerUnlock
    \/ StartLoopReturns \/ TestLoopAlive \/ QuitLoop \/ WakeupLoop \/ Join

ThreadStep(i) ==
    \/ CountDown(i) \/ BuildLoop(i) \/ ThreadLock(i) \/ Publish(i) \/ ThreadUnlock(i)
    \/ EnterLoop(i) \/ LeaveLoop(i) \/ ThreadEnds(i)

Next ==
    /\ ~aborted
    /\ \/ OwnerStep
       \/ SpuriousWakeup
       \/ PoolDestroyed
       \/ \E i \in Threads : ThreadStep(i)

Spec == Init /\ [][Next]_vars

(* Every thread is scheduled, and a mutex that is free again and again is   *)
(* obtained: spurious wakeups of the owner do not come in time with every   *)
(* attempt of the thread.  Whether the pool is ever destroyed is open.      *)
FairSpec ==
    /\ Spec
    /\ WF_vars(~aborted /\ OwnerStep)
    /\ \A i \in Threads : /\ WF_vars(~aborted /\ ThreadStep(i))
                          /\ SF_vars(~aborted /\ ThreadLock(i))

------------------------------------------------------------------------------
Destroying == opc \in {"destroy", "quit", "wakeup", "join", "gone"}

(* What startLoop has returned is the address of an EventLoop that exists,  *)
(* for as long as the pool does, although loop_ is read without the mutex   *)
(* and the EventLoop lives on the stack of its thread.                      *)
LoopsLive ==
    ~Destroying => \A i \in 1 .. Len(loops) :
                        /\ loops[i]
                        /\ tpc[i] \in {"unlock", "release", "enter", "loop"}

(* isLockedByThisThread is never true of a running thread that does not     *)
(* have the mutex, in spite of what Condition::wait leaves in holder_: the  *)
(* order of lock and unlock, which "can't be changed".                      *)
HolderHolds ==
    \A i \in Threads :
        /\ holder[i] = "thread" => mutex[i] = "thread"
        /\ holder[i] = "owner" /\ ~(cur = i /\ opc \in {"wait", "relock"})
           => mutex[i] = "owner"

(* The owner never waits for a notification that is past: the thread it     *)
(* waits for has its cond_.notify() yet to come, whichever of them came     *)
(* first to the mutex (EventLoopThread.cc:31-34, :44-48).                   *)
WaitEnds ==
    OwnerAt("wait") =>
        tpc[cur] \in {"created", "counted", "built", "lock", "held", "publish"}

(* The owner comes back from start and from the destruction of the pool: it *)
(* misses no notification, though the thread may publish its loop before    *)
(* the owner tests for it or while it waits; every loop obeys its quit, and *)
(* no thread is left; and no assertion of Thread::start or ~MutexLock fails *)
(* on the way, which would end the process.                                 *)
OwnerReturns ==
    /\ <>(opc = "up")
    /\ (opc = "destroy") ~> (opc = "gone")
    /\ [](opc = "gone" => \A i \in Threads : At(i, "ended"))
==============================================================================
