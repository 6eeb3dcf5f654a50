------------------------------ MODULE EventLoop ------------------------------
(***************************************************************************)
(* One EventLoop (src/src/EventLoop.cc): the thread that owns it runs      *)
(* loop(), and any other thread hands it functors through runInLoop or     *)
(* queueInLoop and stops it through quit().                                *)
(*                                                                         *)
(* The owner's program counter lpc names the places of loop() between      *)
(* which other threads can be observed:                                    *)
(*   "out"       outside loop(), before the first call or after a return   *)
(*   "check"     about to evaluate while (!quit_)                          *)
(*   "poll"      inside epoll_wait                                         *)
(*   "handle"    dispatching activeChannels_                               *)
(*   "functors"  running the batch swapped out of pendingFunctor_          *)
(* looping_ and callingPendingFunctor_ are functions of lpc.               *)
(*                                                                         *)
(* The channels are the wakeup channel and one channel "io" standing for   *)
(* all others; both are registered edge-triggered.  A handler of "io" and  *)
(* a functor may call queueInLoop and quit any number of times.            *)
(***************************************************************************)
EXTENDS Naturals, Sequences

CONSTANTS
    Threads,          \* the threads that do not own the loop
    Functors,         \* the functors, each handed over at most once
    IntSizes          \* what sizeof(int) may be: 4 on the targets of src/

ASSUME IntSizesAssumption == IntSizes \subseteq Nat

VARIABLES
    lpc,              \* where the owner is in loop()
    quit,             \* quit_
    active,           \* the channels of activeChannels_ not yet dispatched
    pending,          \* pendingFunctor_
    batch,            \* what is left of the local vector of doPendingFunctors
    efd,              \* the counter of the eventfd is not zero
    efdReady,         \* the eventfd is on the ready list of the epoll instance
    ioReady,          \* so is some other channel
    tpc,              \* per thread: "idle", or "wakeup" inside queueInLoop or
                      \* quit with the call of wakeup() still to come
    wakeupBytes,      \* sizeof(one) in wakeup() and handleRead(), of this build
    woken,            \* history: wakeup() was called since the last swap
    early,            \* history: the functors the owner queued outside loop()
    submitted,        \* history: every functor pushed, in order
    executed          \* history: every functor run, in order

loopVars   == <<lpc, quit, active>>
queueVars  == <<pending, batch, submitted, executed, early>>
kernelVars == <<efd, efdReady, ioReady, woken>>
vars == <<loopVars, queueVars, kernelVars, tpc, wakeupBytes>>

LoopChannels == {"wakeup", "io"}

looping == lpc # "out"
callingPendingFunctor == lpc = "functors"

Posted == {submitted[i] : i \in DOMAIN submitted}

TypeOK ==
    /\ lpc \in {"out", "check", "poll", "handle", "functors"}
    /\ quit \in BOOLEAN
    /\ active \in SUBSET LoopChannels
    /\ pending \in Seq(Functors)
    /\ batch \in Seq(Functors)
    /\ efd \in BOOLEAN
    /\ efdReady \in BOOLEAN
    /\ ioReady \in BOOLEAN
    /\ tpc \in [Threads -> {"idle", "wakeup"}]
    /\ wakeupBytes \in IntSizes
    /\ woken \in BOOLEAN
    /\ early \in SUBSET Functors
    /\ submitted \in Seq(Functors)
    /\ executed \in Seq(Functors)

Init ==
    /\ lpc = "out"
    /\ quit = FALSE
    /\ active = {}
    /\ pending = <<>>
    /\ batch = <<>>
    /\ efd = FALSE
    /\ efdReady = FALSE
    /\ ioReady = FALSE
    /\ tpc = [t \in Threads |-> "idle"]
    /\ wakeupBytes \in IntSizes
    /\ woken = FALSE
    /\ early = {}
    /\ submitted = <<>>
    /\ executed = <<>>

------------------------------------------------------------------------------
(* The eventfd.  A transfer of fewer than eight bytes fails with EINVAL and *)
(* changes nothing; neither caller looks at the result.                     *)

EventfdAccepts == wakeupBytes >= 8

wakeup ==
    /\ woken' = TRUE
    /\ IF EventfdAccepts
       THEN efd' = TRUE /\ efdReady' = TRUE
       ELSE UNCHANGED <<efd, efdReady>>

Readable(c) == IF c = "wakeup" THEN efdReady /\ efd ELSE ioReady

------------------------------------------------------------------------------
(* loop(), on the owner's thread *)

LoopStart ==
    /\ lpc = "out"
    /\ lpc' = "check"
    /\ quit' = FALSE
    /\ UNCHANGED <<active, queueVars, kernelVars, tpc, wakeupBytes>>

(* Mutant: the loop does not test quit_. *)
EnterPoll_IgnoresQuit ==
    /\ lpc = "check"
    /\ lpc' = "poll"
    /\ active' = {}
    /\ UNCHANGED <<quit, queueVars, kernelVars, tpc, wakeupBytes>>

EnterPoll ==
    /\ lpc = "check"
    /\ ~quit
    /\ lpc' = "poll"
    /\ active' = {}
    /\ UNCHANGED <<quit, queueVars, kernelVars, tpc, wakeupBytes>>

LoopExit ==
    /\ lpc = "check"
    /\ quit
    /\ lpc' = "out"
    /\ quit' = TRUE
    /\ UNCHANGED <<active, queueVars, kernelVars, tpc, wakeupBytes>>

(* epoll_wait reports what is ready and, edge-triggered, forgets it. *)
PollReady ==
    /\ lpc = "poll"
    /\ active' = {c \in LoopChannels : Readable(c)}
    /\ active' # {}
    /\ efdReady' = FALSE
    /\ ioReady' = FALSE
    /\ lpc' = "handle"
    /\ UNCHANGED <<quit, queueVars, efd, woken, tpc, wakeupBytes>>

(* Mutant: epoll_wait without a timeout. *)
PollEmpty_Forever == FALSE

(* Nothing is ready: the 10 s of CPollTimeMs elapse, or a signal arrives. *)
PollEmpty ==
    /\ lpc = "poll"
    /\ \A c \in LoopChannels : ~Readable(c)
    /\ efdReady' = FALSE
    /\ lpc' = "handle"
    /\ UNCHANGED <<quit, active, queueVars, efd, ioReady, woken, tpc, wakeupBytes>>

handleRead ==
    /\ lpc = "handle"
    /\ "wakeup" \in active
    /\ active' = active \ {"wakeup"}
    /\ efd' = IF EventfdAccepts THEN FALSE ELSE efd
    /\ UNCHANGED <<lpc, quit, queueVars, efdReady, ioReady, woken, tpc, wakeupBytes>>

HandleIo ==
    /\ lpc = "handle"
    /\ "io" \in active
    /\ active' = active \ {"io"}
    /\ UNCHANGED <<lpc, quit, queueVars, kernelVars, tpc, wakeupBytes>>

(* Mutant: the functors are copied out, and the queue is not emptied. *)
SwapPending_Copies ==
    /\ lpc = "handle"
    /\ active = {}
    /\ batch' = pending
    /\ woken' = FALSE
    /\ lpc' = "functors"
    /\ UNCHANGED <<quit, active, pending, submitted, executed, early, efd, efdReady, ioReady,
                   tpc, wakeupBytes>>

SwapPending ==
    /\ lpc = "handle"
    /\ active = {}
    /\ batch' = pending
    /\ pending' = <<>>
    /\ woken' = FALSE
    /\ lpc' = "functors"
    /\ UNCHANGED <<quit, active, submitted, executed, early, efd, efdReady, ioReady,
                   tpc, wakeupBytes>>

RunFunctor ==
    /\ lpc = "functors"
    /\ batch # <<>>
    /\ executed' = Append(executed, Head(batch))
    /\ batch' = Tail(batch)
    /\ UNCHANGED <<loopVars, pending, submitted, early, kernelVars, tpc, wakeupBytes>>

BatchDone ==
    /\ lpc = "functors"
    /\ batch = <<>>
    /\ lpc' = "check"
    /\ UNCHANGED <<quit, active, queueVars, kernelVars, tpc, wakeupBytes>>

------------------------------------------------------------------------------
(* Calls made on the owner's thread: by the handler or the functor that is *)
(* running, or outside loop(), where queueInLoop writes no wakeup.         *)
(* runInLoop runs its functor at once there and changes nothing here.      *)

InCallback ==
    \/ lpc = "handle" /\ "io" \in active
    \/ lpc = "functors" /\ batch # <<>>

push(f) ==
    /\ f \notin Posted
    /\ pending' = Append(pending, f)
    /\ submitted' = Append(submitted, f)
    /\ UNCHANGED <<batch, executed>>

(* Mutant: the owner never wakes itself up, not even from a functor. *)
OwnerQueueInLoop_NoWakeup(f) ==
    /\ InCallback \/ ~looping
    /\ push(f)
    /\ early' = IF looping THEN early ELSE early \cup {f}
    /\ UNCHANGED <<loopVars, kernelVars, tpc, wakeupBytes>>

OwnerQueueInLoop(f) ==
    /\ InCallback \/ ~looping
    /\ push(f)
    /\ early' = IF looping THEN early ELSE early \cup {f}
    /\ IF callingPendingFunctor THEN wakeup ELSE UNCHANGED <<efd, efdReady, woken>>
    /\ UNCHANGED <<loopVars, ioReady, tpc, wakeupBytes>>

OwnerQuit ==
    /\ InCallback
    /\ quit' = TRUE
    /\ UNCHANGED <<lpc, active, queueVars, kernelVars, tpc, wakeupBytes>>

------------------------------------------------------------------------------
(* Calls made by the other threads.  runInLoop is queueInLoop there.  The  *)
(* mutex covers the push alone: the write to the eventfd is a second step. *)

ForeignQueueInLoop(t, f) ==
    /\ tpc[t] = "idle"
    /\ push(f)
    /\ tpc' = [tpc EXCEPT ![t] = "wakeup"]
    /\ UNCHANGED <<loopVars, kernelVars, early, wakeupBytes>>

(* Mutant: quit() only sets the flag. *)
ForeignQuit_NoWakeup(t) ==
    /\ tpc[t] = "idle"
    /\ quit' = TRUE
    /\ UNCHANGED <<lpc, active, queueVars, kernelVars, tpc, wakeupBytes>>

ForeignQuit(t) ==
    /\ tpc[t] = "idle"
    /\ quit' = TRUE
    /\ tpc' = [tpc EXCEPT ![t] = "wakeup"]
    /\ UNCHANGED <<lpc, active, queueVars, kernelVars, wakeupBytes>>

ForeignWakeup(t) ==
    /\ tpc[t] = "wakeup"
    /\ wakeup
    /\ tpc' = [tpc EXCEPT ![t] = "idle"]
    /\ UNCHANGED <<loopVars, queueVars, ioReady, wakeupBytes>>

(* Some other descriptor becomes ready. *)
IoEvent ==
    /\ ioReady' = TRUE
    /\ UNCHANGED <<loopVars, queueVars, efd, efdReady, woken, tpc, wakeupBytes>>

------------------------------------------------------------------------------
LoopStep ==
    \/ EnterPoll
    \/ LoopExit
    \/ PollReady
    \/ PollEmpty
    \/ handleRead
    \/ HandleIo
    \/ SwapPending
    \/ RunFunctor
    \/ BatchDone

Next ==
    \/ LoopStart
    \/ LoopStep
    \/ \E f \in Functors : OwnerQueueInLoop(f)
    \/ OwnerQuit
    \/ \E t \in Threads :
          \/ \E f \in Functors : ForeignQueueInLoop(t, f)
          \/ ForeignQuit(t)
          \/ ForeignWakeup(t)
    \/ IoEvent

Spec == Init /\ [][Next]_vars

(***************************************************************************)
(* Fairness.  Inside loop() the owner keeps running: epoll_wait returns    *)
(* after CPollTimeMs at the latest, and handlers and functors return.  A   *)
(* thread that pushed goes on to call wakeup().  Nobody has to enter       *)
(* loop(), to submit, to quit, or to make a descriptor ready.              *)
(***************************************************************************)
Fairness ==
    /\ WF_vars(LoopStep)
    /\ \A t \in Threads : WF_vars(ForeignWakeup(t))

FairSpec == Spec /\ Fairness

------------------------------------------------------------------------------
(* Properties *)

(* Every functor pushed is in exactly one place, and in order: what has     *)
(* run, the rest of the batch being run, and the queue are together the     *)
(* history of queueInLoop.  Swapping under the mutex and running outside it *)
(* neither loses a functor pushed meanwhile nor runs one twice.             *)
OnceInOrder == executed \o batch \o pending = submitted

(* Whenever the owner waits in epoll_wait over work - a quit, or a functor   *)
(* that was not queued outside loop() - wakeup() was called since the queue  *)
(* was last swapped out, or the thread that made the call is still about to  *)
(* call it: no interleaving of push, quit, swap, the test of quit_ and       *)
(* epoll_wait leaves work uncovered (queueInLoop, EventLoop.cc:91; quit,     *)
(* :132).  What the eventfd makes of the call is the next question.          *)
Work == quit \/ \E i \in DOMAIN pending : pending[i] \notin early

WakeupCalled ==
    lpc = "poll" /\ Work => woken \/ \E t \in Threads : tpc[t] = "wakeup"

(* The loop never blocks in epoll_wait over work: the eventfd is readable,  *)
(* or the thread that made the call is still about to write it              *)
(* (EventLoop.cc:91, :132).                                                 *)
WakeComing == (efdReady /\ efd) \/ \E t \in Threads : tpc[t] = "wakeup"

NoLostWakeup == lpc = "poll" /\ Work => WakeComing

(* That is so in a build whose eventfd takes what wakeup() writes: neither   *)
(* the edge nor the counter is used up by an earlier wakeup, read by         *)
(* handleRead between a push and the sleep.                                  *)
WakesIfAccepted == EventfdAccepts => NoLostWakeup

(* quit() called while loop() runs makes it return. *)
QuitStops == (looping /\ quit) ~> ~looping

(* The loop is a serial executor: accepted functors run once, in order, and *)
(* none waits forever while loop() runs.                                    *)
Executor == INSTANCE FunctorExecutor WITH
                backlog <- batch \o pending,
                open <- looping

IsExecutor == Executor!Spec
==============================================================================
