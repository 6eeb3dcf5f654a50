-------------------------- MODULE EventLoop_proofs --------------------------
(***************************************************************************)
(* Theorems about EventLoop, for every set of threads and functors, and    *)
(* about the Poller that it dispatches from, for every set of Channels.    *)
(***************************************************************************)
EXTENDS EventLoop, Poller, SequenceTheorems, FiniteSetTheorems, TLAPS

(* Every variable keeps its type: in particular pendingFunctor_ and the     *)
(* batch of doPendingFunctors only ever hold functors that were submitted.  *)
THEOREM TypeCorrect == Spec => []TypeOK
<1>1. Init => TypeOK
  <2>1. <<>> \in Seq(Functors)
    BY EmptySeq
  <2> SUFFICES ASSUME Init
               PROVE  TypeOK
    OBVIOUS
  <2>2. /\ quit \in BOOLEAN /\ efd \in BOOLEAN /\ efdReady \in BOOLEAN
        /\ ioReady \in BOOLEAN /\ woken \in BOOLEAN
    BY Zenon DEF Init
  <2>3. active \in SUBSET LoopChannels
    BY Zenon DEF Init
  <2>4. tpc \in [Threads -> {"idle", "wakeup"}]
    BY SMT DEF Init
  <2> QED
    BY <2>1, <2>2, <2>3, <2>4 DEF Init, TypeOK
<1>2. TypeOK /\ [Next]_vars => TypeOK'
  <2> SUFFICES ASSUME TypeOK, [Next]_vars
               PROVE  TypeOK'
    OBVIOUS
  <2> USE DEF TypeOK, loopVars, queueVars, kernelVars
  <2>1. CASE LoopStart
    BY <2>1 DEF LoopStart
  <2>2. CASE LoopStep
    <3>1. CASE EnterPoll
      BY <3>1 DEF EnterPoll
    <3>2. CASE LoopExit
      BY <3>2 DEF LoopExit
    <3>3. CASE PollReady
      BY <3>3 DEF PollReady
    <3>4. CASE PollEmpty
      BY <3>4 DEF PollEmpty
    <3>5. CASE handleRead
      BY <3>5 DEF handleRead
    <3>6. CASE HandleIo
      BY <3>6 DEF HandleIo
    <3>7. CASE SwapPending
      <4>1. woken' \in BOOLEAN /\ lpc' = "functors"
        BY <3>7, Zenon DEF SwapPending
      <4>2. pending' \in Seq(Functors)
        BY <3>7, EmptySeq DEF SwapPending
      <4> QED
        BY <3>7, <4>1, <4>2 DEF SwapPending
    <3>8. CASE RunFunctor
      <4>1. Head(batch) \in Functors /\ Tail(batch) \in Seq(Functors)
        BY <3>8, HeadTailProperties DEF RunFunctor
      <4> QED
        BY <3>8, <4>1 DEF RunFunctor
    <3>9. CASE BatchDone
      BY <3>9 DEF BatchDone
    <3> QED
      BY <2>2, <3>1, <3>2, <3>3, <3>4, <3>5, <3>6, <3>7, <3>8, <3>9 DEF LoopStep
  <2>3. ASSUME NEW f \in Functors, OwnerQueueInLoop(f)
        PROVE  TypeOK'
    <3>1. efd' \in BOOLEAN /\ efdReady' \in BOOLEAN /\ woken' \in BOOLEAN
      BY <2>3, Zenon DEF OwnerQueueInLoop, wakeup
    <3> QED
      BY <2>3, <3>1 DEF OwnerQueueInLoop, push
  <2>4. CASE OwnerQuit
    BY <2>4 DEF OwnerQuit
  <2>5. ASSUME NEW t \in Threads, NEW f \in Functors, ForeignQueueInLoop(t, f)
        PROVE  TypeOK'
    BY <2>5 DEF ForeignQueueInLoop, push
  <2>6. ASSUME NEW t \in Threads, ForeignQuit(t)
        PROVE  TypeOK'
    BY <2>6 DEF ForeignQuit
  <2>7. ASSUME NEW t \in Threads, ForeignWakeup(t)
        PROVE  TypeOK'
    BY <2>7 DEF ForeignWakeup, wakeup
  <2>8. CASE IoEvent
    BY <2>8 DEF IoEvent
  <2>9. CASE UNCHANGED vars
    BY <2>9 DEF vars
  <2> QED
    BY <2>1, <2>2, <2>3, <2>4, <2>5, <2>6, <2>7, <2>8, <2>9 DEF Next
<1> QED
  BY <1>1, <1>2, PTL DEF Spec

------------------------------------------------------------------------------
(* Pushing at the end of a queue is pushing at the end of what the queue    *)
(* ends: the lemma behind queueInLoop.                                      *)
LEMMA AppendToConcat ==
    ASSUME NEW S, NEW s \in Seq(S), NEW q \in Seq(S), NEW e \in S
    PROVE  s \o Append(q, e) = Append(s \o q, e)
<1>1. <<e>> \in Seq(S) /\ s \o q \in Seq(S)
  BY ConcatProperties
<1>2. s \o Append(q, e) = s \o (q \o <<e>>)
  BY AppendIsConcat
<1>3. @ = (s \o q) \o <<e>>
  BY <1>1, ConcatAssociative
<1>4. @ = Append(s \o q, e)
  BY <1>1, AppendIsConcat
<1> QED
  BY <1>2, <1>3, <1>4

(* Moving the head of a batch behind what was run before it changes nothing *)
(* in their concatenation: the lemma behind doPendingFunctors.              *)
LEMMA MoveHead ==
    ASSUME NEW S, NEW s \in Seq(S), NEW b \in Seq(S), b # <<>>
    PROVE  Append(s, Head(b)) \o Tail(b) = s \o b
<1>1. Head(b) \in S /\ Tail(b) \in Seq(S)
  BY HeadTailProperties
<1>2. <<Head(b)>> \in Seq(S)
  BY <1>1
<1>3. b = <<Head(b)>> \o Tail(b)
  <2>1. Len(b) \in Nat \ {0} /\ b \in [1..Len(b) -> S]
    BY EmptySeq, LenProperties
  <2>2. 1 \in 1 .. Len(b) /\ Len(b) \in 1 .. Len(b)
    BY <2>1
  <2>3. SubSeq(b, 1, Len(b)) = <<b[1]>> \o SubSeq(b, 1 + 1, Len(b))
    BY <2>2, SubSeqRecursiveFirst
  <2>4. SubSeq(b, 1, Len(b)) = b /\ SubSeq(b, 2, Len(b)) = Tail(b)
    BY SubSeqFull, TailIsSubSeq
  <2>5. b[1] = Head(b)
    BY <2>1
  <2> QED
    BY <2>3, <2>4, <2>5
<1>4. Append(s, Head(b)) \o Tail(b) = (s \o <<Head(b)>>) \o Tail(b)
  BY <1>1, AppendIsConcat
<1>5. @ = s \o (<<Head(b)>> \o Tail(b))
  BY <1>1, <1>2, ConcatAssociative
<1> QED
  BY <1>3, <1>4, <1>5

(* OnceInOrder is not inductive: swapping pendingFunctor_ into the batch     *)
(* keeps it only because the previous batch was run to its end.             *)
OrderInv == OnceInOrder /\ (lpc # "functors" => batch = <<>>)

(* Every step keeps the order: only pushes, the swap and runs touch it.     *)
LEMMA OrderInvInductive == TypeOK /\ OrderInv /\ [Next]_vars => OrderInv'
<1> SUFFICES ASSUME TypeOK, OrderInv, [Next]_vars
             PROVE  OrderInv'
  OBVIOUS
<1> DEFINE ran == executed \o batch
<1>t. /\ pending \in Seq(Functors)
      /\ batch \in Seq(Functors)
      /\ executed \in Seq(Functors)
      /\ ran \in Seq(Functors)
  BY ConcatProperties DEF TypeOK
<1>u. ran \o pending = submitted
  BY DEF OrderInv, OnceInOrder
<1>1. ASSUME UNCHANGED queueVars, lpc' = "functors" \/ lpc # "functors" \/ batch = <<>>
      PROVE  OrderInv'
  BY <1>1 DEF queueVars, OrderInv, OnceInOrder
<1>2. ASSUME NEW f \in Functors, push(f), UNCHANGED lpc
      PROVE  OrderInv'
  <2>1. ran \o Append(pending, f) = Append(ran \o pending, f)
    BY <1>t, AppendToConcat
  <2> QED
    BY <1>2, <1>u, <2>1 DEF push, OrderInv, OnceInOrder
<1>3. CASE SwapPending
  <2>1. /\ executed' = executed /\ batch' = pending
        /\ pending' = <<>> /\ submitted' = submitted
        /\ batch = <<>> /\ lpc' = "functors"
    BY <1>3 DEF SwapPending, OrderInv
  <2>2. executed \o batch = executed
    BY <1>t, <2>1, ConcatEmptySeq
  <2>3. executed \o pending \in Seq(Functors)
    BY <1>t, ConcatProperties
  <2>4. (executed \o pending) \o <<>> = executed \o pending
    BY <2>3, ConcatEmptySeq
  <2> QED
    BY <1>u, <2>1, <2>2, <2>4 DEF OrderInv, OnceInOrder
<1>4. CASE RunFunctor
  <2>1. Append(executed, Head(batch)) \o Tail(batch) = executed \o batch
    BY <1>4, <1>t, MoveHead DEF RunFunctor
  <2> QED
    BY <1>4, <2>1 DEF RunFunctor, OrderInv, OnceInOrder, loopVars
<1>5. CASE LoopStart
  BY <1>1, <1>5 DEF LoopStart
<1>6. CASE LoopStep
  <2>1. CASE EnterPoll
    BY <1>1, <2>1 DEF EnterPoll
  <2>2. CASE LoopExit
    BY <1>1, <2>2 DEF LoopExit
  <2>3. CASE PollReady
    BY <1>1, <2>3 DEF PollReady
  <2>4. CASE PollEmpty
    BY <1>1, <2>4 DEF PollEmpty
  <2>5. CASE handleRead
    BY <1>1, <2>5 DEF handleRead
  <2>6. CASE HandleIo
    BY <1>1, <2>6 DEF HandleIo
  <2>7. CASE BatchDone
    BY <1>1, <2>7 DEF BatchDone
  <2> QED
    BY <1>3, <1>4, <1>6, <2>1, <2>2, <2>3, <2>4, <2>5, <2>6, <2>7 DEF LoopStep
<1>7. ASSUME NEW f \in Functors, OwnerQueueInLoop(f)
      PROVE  OrderInv'
  BY <1>2, <1>7 DEF OwnerQueueInLoop, loopVars
<1>8. CASE OwnerQuit
  BY <1>1, <1>8 DEF OwnerQuit
<1>9. ASSUME NEW t \in Threads, NEW f \in Functors, ForeignQueueInLoop(t, f)
      PROVE  OrderInv'
  BY <1>2, <1>9 DEF ForeignQueueInLoop, loopVars
<1>10. ASSUME NEW t \in Threads, ForeignQuit(t)
       PROVE  OrderInv'
  BY <1>1, <1>10 DEF ForeignQuit
<1>11. ASSUME NEW t \in Threads, ForeignWakeup(t)
       PROVE  OrderInv'
  BY <1>1, <1>11 DEF ForeignWakeup, loopVars
<1>12. CASE IoEvent
  BY <1>1, <1>12 DEF IoEvent, loopVars
<1>13. CASE UNCHANGED vars
  BY <1>1, <1>13 DEF vars, loopVars
<1> QED
  BY <1>5, <1>6, <1>7, <1>8, <1>9, <1>10, <1>11, <1>12, <1>13 DEF Next

(* The head of a concatenation whose first part is not empty is the head of *)
(* that part.                                                               *)
LEMMA HeadTailOfConcat ==
    ASSUME NEW S, NEW b \in Seq(S), NEW q \in Seq(S), b # <<>>
    PROVE  /\ b \o q # <<>>
           /\ Head(b \o q) = Head(b)
           /\ Tail(b \o q) = Tail(b) \o q
<1>1. Len(b) \in Nat \ {0} /\ Len(q) \in Nat
  BY EmptySeq, LenProperties
<1>2. b \o q \in Seq(S) /\ Len(b \o q) = Len(b) + Len(q)
  BY ConcatProperties
<1>3. b \o q # <<>>
  BY <1>1, <1>2, EmptySeq
<1>4. Head(b \o q) = Head(b)
  BY <1>1, <1>2, ConcatProperties
<1>5. Tail(b) \in Seq(S) /\ Len(Tail(b)) = Len(b) - 1
      /\ \A i \in 1 .. Len(Tail(b)) : Tail(b)[i] = b[i+1]
  BY HeadTailProperties
<1>6. Tail(b \o q) \in Seq(S) /\ Len(Tail(b \o q)) = Len(b \o q) - 1
      /\ \A i \in 1 .. Len(Tail(b \o q)) : Tail(b \o q)[i] = (b \o q)[i+1]
  BY <1>2, <1>3, HeadTailProperties
<1>7. Tail(b) \o q \in Seq(S) /\ Len(Tail(b) \o q) = Len(Tail(b)) + Len(q)
      /\ \A i \in 1 .. Len(Tail(b)) + Len(q) : (Tail(b) \o q)[i] =
            IF i <= Len(Tail(b)) THEN Tail(b)[i] ELSE q[i - Len(Tail(b))]
  BY <1>5, ConcatProperties
<1>8. ASSUME NEW i \in 1 .. Len(Tail(b \o q))
      PROVE  Tail(b \o q)[i] = (Tail(b) \o q)[i]
  <2>1. i \in 1 .. Len(b) - 1 + Len(q) /\ i + 1 \in 1 .. Len(b) + Len(q)
    BY <1>1, <1>2, <1>6
  <2>2. (b \o q)[i+1] = IF i + 1 <= Len(b) THEN b[i+1] ELSE q[i + 1 - Len(b)]
    BY <2>1, ConcatProperties
  <2>3. CASE i + 1 <= Len(b)
    BY <1>1, <1>5, <1>6, <1>7, <2>1, <2>2, <2>3
  <2>4. CASE ~(i + 1 <= Len(b))
    BY <1>1, <1>5, <1>6, <1>7, <2>1, <2>2, <2>4
  <2> QED
    BY <2>3, <2>4
<1>9. Len(Tail(b \o q)) = Len(Tail(b) \o q)
  BY <1>1, <1>2, <1>5, <1>6, <1>7
<1> QED
  BY <1>3, <1>4, <1>6, <1>7, <1>8, <1>9, SeqEqual

(* No functor is lost, duplicated or overtaken between queueInLoop and the  *)
(* end of doPendingFunctors, whatever the other threads push meanwhile.     *)
THEOREM OnceInOrderHolds == Spec => []OnceInOrder
<1>1. Init => OrderInv
  BY EmptySeq, ConcatEmptySeq DEF Init, OrderInv, OnceInOrder
<1>2. OrderInv => OnceInOrder
  BY DEF OrderInv
<1> QED
  BY <1>1, <1>2, OrderInvInductive, TypeCorrect, PTL DEF Spec

------------------------------------------------------------------------------
(* The wakeup protocol.  Queued work is covered by a call of wakeup()       *)
(* wherever the owner may go to epoll_wait without swapping pendingFunctor_ *)
(* first; quit_ is tested on the way there, so it needs covering inside     *)
(* epoll_wait only.                                                         *)
CallComing == woken \/ \E t \in Threads : tpc[t] = "wakeup"

Queued == \E i \in 1 .. Len(pending) : pending[i] \notin early

CalledInv ==
    /\ lpc # "handle" /\ Queued => CallComing
    /\ lpc = "poll" /\ quit => CallComing

(* A push adds one functor to the work that is queued, and none if it is    *)
(* made outside loop().                                                     *)
LEMMA PushQueues ==
    ASSUME TypeOK, NEW f \in Functors, push(f),
           early' = early \/ early' = early \cup {f}
    PROVE  Queued' => Queued \/ f \notin early'
<1>1. /\ pending' = Append(pending, f)
      /\ Len(pending) \in Nat /\ Len(pending') = Len(pending) + 1
      /\ \A i \in 1 .. Len(pending) : pending'[i] = pending[i]
      /\ pending'[Len(pending) + 1] = f
  BY AppendProperties, LenProperties DEF TypeOK, push
<1> SUFFICES ASSUME NEW i \in 1 .. Len(pending'), pending'[i] \notin early'
             PROVE  Queued \/ f \notin early'
  BY DEF Queued
<1>2. CASE i \in 1 .. Len(pending)
  BY <1>1, <1>2 DEF Queued
<1>3. CASE i = Len(pending) + 1
  BY <1>1, <1>3
<1> QED
  BY <1>1, <1>2, <1>3

(* Every step keeps the call coming.                                        *)
LEMMA CalledInvInductive == TypeOK /\ CalledInv /\ [Next]_vars => CalledInv'
<1> SUFFICES ASSUME TypeOK, CalledInv, [Next]_vars
             PROVE  CalledInv'
  OBVIOUS
<1> USE DEF CalledInv, CallComing, Queued, loopVars, queueVars, kernelVars
<1>1. CASE LoopStart
  BY <1>1 DEF LoopStart
<1>2. CASE LoopStep
  <2>1. CASE EnterPoll
    BY <2>1 DEF EnterPoll
  <2>2. CASE LoopExit
    BY <2>2 DEF LoopExit
  <2>3. CASE PollReady \/ PollEmpty \/ handleRead \/ HandleIo
    BY <2>3 DEF PollReady, PollEmpty, handleRead, HandleIo
  <2>4. CASE SwapPending
    BY <2>4, EmptySeq DEF SwapPending
  <2>5. CASE RunFunctor \/ BatchDone
    BY <2>5 DEF RunFunctor, BatchDone
  <2> QED
    BY <1>2, <2>1, <2>2, <2>3, <2>4, <2>5 DEF LoopStep
<1>3. ASSUME NEW f \in Functors, OwnerQueueInLoop(f)
      PROVE  CalledInv'
  <2>1. push(f) /\ UNCHANGED <<lpc, quit, tpc>>
    BY <1>3 DEF OwnerQueueInLoop
  <2>2. CASE lpc = "functors"
    BY <1>3, <2>1, <2>2 DEF OwnerQueueInLoop, wakeup, callingPendingFunctor
  <2>3. CASE lpc = "handle"
    BY <2>1, <2>3
  <2>4. CASE lpc = "out"
    <3>1. early' = early \cup {f} /\ woken' = woken
      BY <1>3, <2>4 DEF OwnerQueueInLoop, looping, callingPendingFunctor
    <3>2. Queued' => Queued
      BY <2>1, <3>1, PushQueues
    <3> QED
      BY <2>1, <2>4, <3>1, <3>2
  <2> QED
    BY <1>3, <2>2, <2>3, <2>4 DEF OwnerQueueInLoop, InCallback, looping
<1>4. CASE OwnerQuit
  BY <1>4 DEF OwnerQuit, InCallback
<1>5. ASSUME NEW t \in Threads,
             ForeignQuit(t) \/ \E f \in Functors : ForeignQueueInLoop(t, f)
      PROVE  CalledInv'
  <2>1. tpc'[t] = "wakeup"
    BY <1>5 DEF ForeignQuit, ForeignQueueInLoop, TypeOK
  <2> QED
    BY <2>1
<1>6. ASSUME NEW t \in Threads, ForeignWakeup(t)
      PROVE  CalledInv'
  BY <1>6 DEF ForeignWakeup, wakeup
<1>7. CASE IoEvent
  BY <1>7 DEF IoEvent
<1>8. CASE UNCHANGED vars
  BY <1>8 DEF vars
<1> QED
  BY <1>1, <1>2, <1>3, <1>4, <1>5, <1>6, <1>7, <1>8 DEF Next

(* The order "push, then wakeup" of queueInLoop, the rule of EventLoop.cc:91 *)
(* and the place of the swap leave no quit() and no functor queued inside    *)
(* loop() or by another thread under epoll_wait without a call of wakeup(). *)
(* Nothing is assumed of the eventfd.                                       *)
THEOREM WakeupCalledHolds == Spec => []WakeupCalled
<1>1. Init => CalledInv
  BY EmptySeq DEF Init, CalledInv, Queued
<1>2. TypeOK /\ CalledInv /\ [Next]_vars => CalledInv'
  BY CalledInvInductive
<1>3. TypeOK /\ CalledInv => WakeupCalled
  <2> SUFFICES ASSUME TypeOK, CalledInv
               PROVE  WakeupCalled
    OBVIOUS
  <2>1. DOMAIN pending = 1 .. Len(pending)
    BY LenProperties DEF TypeOK
  <2> QED
    BY <2>1 DEF CalledInv, CallComing, Queued, WakeupCalled, Work
<1> QED
  BY <1>1, <1>2, <1>3, TypeCorrect, PTL DEF Spec

------------------------------------------------------------------------------
(* The loop implements the serial executor: pushing is Submit, running one  *)
(* functor is Execute, entering and leaving loop() is Open and Close, and   *)
(* polling, dispatching and swapping are invisible.                         *)
THEOREM ImplementsExecutor == Spec => Executor!SafeSpec
<1>1. Init => Executor!Init
  <2>1. <<>> \o <<>> = <<>>
    BY EmptySeq, ConcatEmptySeq
  <2> QED
    BY <2>1 DEF Init, Executor!Init, looping
<1>2. TypeOK /\ OrderInv /\ [Next]_vars => [Executor!Next]_(Executor!vars)
  <2> SUFFICES ASSUME TypeOK, OrderInv, [Next]_vars
               PROVE  [Executor!Next]_(Executor!vars)
    OBVIOUS
  <2>t. pending \in Seq(Functors) /\ batch \in Seq(Functors)
    BY DEF TypeOK
  <2>1. ASSUME UNCHANGED <<pending, batch, executed>>,
               looping' = looping \/ looping' = TRUE \/ looping' = FALSE
        PROVE  [Executor!Next]_(Executor!vars)
    BY <2>1 DEF Executor!Next, Executor!Open, Executor!Close, Executor!vars
  <2>2. ASSUME NEW f \in Functors, push(f), UNCHANGED lpc
        PROVE  [Executor!Next]_(Executor!vars)
    <3>1. batch \o Append(pending, f) = Append(batch \o pending, f)
      BY <2>t, AppendToConcat
    <3>2. Executor!Submit(f)
      BY <2>2, <3>1 DEF push, Executor!Submit, looping
    <3> QED
      BY <3>2 DEF Executor!Next
  <2>3. CASE SwapPending
    <3>1. batch = <<>> /\ batch' = pending /\ pending' = <<>> /\ executed' = executed
          /\ looping' = looping
      BY <2>3 DEF SwapPending, OrderInv, looping
    <3>2. batch \o pending = pending /\ pending \o <<>> = pending
      BY <2>t, <3>1, ConcatEmptySeq
    <3> QED
      BY <3>1, <3>2 DEF Executor!vars
  <2>4. CASE RunFunctor
    <3>1. /\ lpc = "functors" /\ lpc' = lpc /\ batch # <<>>
          /\ executed' = Append(executed, Head(batch))
          /\ batch' = Tail(batch) /\ pending' = pending
      BY <2>4 DEF RunFunctor, loopVars
    <3>2. /\ batch \o pending # <<>>
          /\ Head(batch \o pending) = Head(batch)
          /\ Tail(batch \o pending) = Tail(batch) \o pending
      BY <2>t, <3>1, HeadTailOfConcat
    <3>3. Executor!Execute
      BY <3>1, <3>2 DEF Executor!Execute, looping
    <3> QED
      BY <3>3 DEF Executor!Next
  <2>5. CASE LoopStart
    BY <2>1, <2>5 DEF LoopStart, queueVars, looping
  <2>6. CASE LoopStep
    <3>1. CASE EnterPoll \/ LoopExit \/ PollReady \/ PollEmpty
      BY <2>1, <3>1 DEF EnterPoll, LoopExit, PollReady, PollEmpty, queueVars, looping
    <3>2. CASE handleRead \/ HandleIo \/ BatchDone
      BY <2>1, <3>2 DEF handleRead, HandleIo, BatchDone, queueVars, looping
    <3> QED
      BY <2>3, <2>4, <2>6, <3>1, <3>2 DEF LoopStep
  <2>7. ASSUME NEW f \in Functors, OwnerQueueInLoop(f)
        PROVE  [Executor!Next]_(Executor!vars)
    BY <2>2, <2>7 DEF OwnerQueueInLoop, loopVars
  <2>8. CASE OwnerQuit
    BY <2>1, <2>8 DEF OwnerQuit, queueVars, looping
  <2>9. ASSUME NEW t \in Threads, NEW f \in Functors, ForeignQueueInLoop(t, f)
        PROVE  [Executor!Next]_(Executor!vars)
    BY <2>2, <2>9 DEF ForeignQueueInLoop, loopVars
  <2>10. ASSUME NEW t \in Threads, ForeignQuit(t) \/ ForeignWakeup(t)
         PROVE  [Executor!Next]_(Executor!vars)
    BY <2>1, <2>10 DEF ForeignQuit, ForeignWakeup, loopVars, queueVars, looping
  <2>11. CASE IoEvent \/ UNCHANGED vars
    BY <2>1, <2>11 DEF IoEvent, vars, loopVars, queueVars, looping
  <2> QED
    BY <2>5, <2>6, <2>7, <2>8, <2>9, <2>10, <2>11 DEF Next
<1>3. Init => OrderInv
  BY EmptySeq, ConcatEmptySeq DEF Init, OrderInv, OnceInOrder
<1> QED
  BY <1>1, <1>2, <1>3, OrderInvInductive, TypeCorrect, PTL DEF Spec, Executor!SafeSpec

------------------------------------------------------------------------------
(* Poller, for any set of Channels and any size of eventVec_.  One         *)
(* inductive invariant carries all results: the records of every Channel   *)
(* agree, so that the poller's own assertions hold.                        *)

(* Outside handling nothing is dispatched, and the current Channel is not   *)
(* among those still to come: that is why it may remove itself.             *)
DispatchInOrder ==
    /\ ~handling => current = {} /\ todo = {}
    /\ current \cap todo = {}

PollerInv ==
    /\ PollerTypeOK
    /\ KernelMatches
    /\ MapMatches
    /\ DispatchInOrder
    /\ OwnAssertsHold

(* With no Channel created the map is empty and nothing is dispatched.       *)
LEMMA PollerInitEstablishes == PollerInit => PollerInv
  <1>. SUFFICES ASSUME PollerInit PROVE PollerInv
    OBVIOUS
  <1>1. PollerTypeOK
    BY DEF PollerInit, PollerTypeOK, NotRegistered, Masks, CNoneEvent, CReadEvent, CWriteEvent
  <1>2. KernelMatches /\ MapMatches
    BY DEF PollerInit, KernelMatches, MapMatches
  <1>3. DispatchInOrder /\ OwnAssertsHold
    BY DEF PollerInit, DispatchInOrder, OwnAssertsHold
  <1>. QED
    BY <1>1, <1>2, <1>3 DEF PollerInv

(* What any change of interest does, whichever branch updateChannel takes:   *)
(* the Channel is in the map, and added with the new mask or deleted.        *)
LEMMA UpdateRegisters ==
  ASSUME PollerInv, NEW c \in Channels, NEW m \in Masks, update(c, m)
  PROVE  /\ events' = [events EXCEPT ![c] = m]
         /\ addToLoop' = [addToLoop EXCEPT ![c] = TRUE]
         /\ channels' = channels \cup {c}
         /\ \/ /\ status' = [status EXCEPT ![c] = "Added"]
               /\ interest' = [interest EXCEPT ![c] = Registered(m)]
            \/ /\ status' = [status EXCEPT ![c] = "Deleted"]
               /\ interest' = [interest EXCEPT ![c] = NotRegistered]
  <1>1. /\ events' = [events EXCEPT ![c] = m]
        /\ addToLoop' = [addToLoop EXCEPT ![c] = TRUE]
    BY DEF update
  <1>2. CASE AddChannel(c, m)
    <2>1. ~interest[c].on
      BY <1>2 DEF AddChannel, PollerInv, KernelMatches, NotRegistered
    <2>2. interest' = [interest EXCEPT ![c] = Registered(m)]
      BY <1>2, <2>1 DEF AddChannel, ctlAdd, PollerInv, PollerTypeOK
    <2>. QED
      BY <1>1, <1>2, <2>2 DEF AddChannel
  <1>3. CASE ModifyChannel(c, m)
    <2>1. status[c] = "Added" /\ c \in channels
      BY <1>3 DEF ModifyChannel, PollerInv, MapMatches
    <2>. interest[c] = Registered(events[c])
      BY <1>3 DEF ModifyChannel, PollerInv, KernelMatches
    <2>. interest[c].on
      BY DEF Registered
    <2>2. interest' = [interest EXCEPT ![c] = Registered(m)]
      BY <1>3, <2>1 DEF ModifyChannel, ctlMod, PollerInv, PollerTypeOK
    <2>3. status' = [status EXCEPT ![c] = "Added"]
      BY <1>3 DEF ModifyChannel, PollerInv, PollerTypeOK
    <2>. QED
      BY <1>1, <1>3, <2>1, <2>2, <2>3 DEF ModifyChannel
  <1>4. CASE DisableChannel(c, m)
    <2>1. c \in channels
      BY <1>4 DEF DisableChannel, PollerInv, MapMatches
    <2>. QED
      BY <1>1, <1>4, <2>1 DEF DisableChannel, ctlDel
  <1>. QED
    BY <1>2, <1>3, <1>4 DEF update

------------------------------------------------------------------------------
(* The steps.  A change of interest or a removal is made by the loop's own   *)
(* thread while a handler runs, or outside dispatch.                         *)

(* enableRead ... disableAll keep the invariant, from a handler or outside.  *)
LEMMA UpdatePreserves ==
  ASSUME PollerInv, NEW c \in Channels, NEW m \in Masks, update(c, m)
  PROVE  PollerInv'
  <1>0. /\ events' = [events EXCEPT ![c] = m]
        /\ addToLoop' = [addToLoop EXCEPT ![c] = TRUE]
        /\ channels' = channels \cup {c}
        /\ \/ /\ status' = [status EXCEPT ![c] = "Added"]
              /\ interest' = [interest EXCEPT ![c] = Registered(m)]
           \/ /\ status' = [status EXCEPT ![c] = "Deleted"]
              /\ interest' = [interest EXCEPT ![c] = NotRegistered]
    BY UpdateRegisters
  <1>d. UNCHANGED dispatch
    BY DEF update
  <1>a. aborted' = "no"
    BY DEF update, AddChannel, ModifyChannel, DisableChannel, Check, PollerInv, MapMatches
  <1>1. PollerTypeOK'
    <2>1. /\ Registered(m) \in [on : BOOLEAN, mask : Masks]
          /\ NotRegistered \in [on : BOOLEAN, mask : Masks]
      BY DEF Registered, NotRegistered, Masks
    <2>2. interest' \in [Channels -> [on : BOOLEAN, mask : Masks]]
      BY <1>0, <2>1 DEF PollerInv, PollerTypeOK
    <2>. QED
      BY <1>0, <1>a, <1>d, <2>2 DEF PollerInv, PollerTypeOK, dispatch
  <1>2. KernelMatches'
    BY <1>0 DEF PollerInv, PollerTypeOK, KernelMatches
  <1>3. MapMatches'
    BY <1>0 DEF PollerInv, PollerTypeOK, MapMatches
  <1>4. DispatchInOrder'
    BY <1>d DEF PollerInv, DispatchInOrder, dispatch
  <1>5. OwnAssertsHold'
    BY <1>a DEF OwnAssertsHold
  <1>. QED
    BY <1>1, <1>2, <1>3, <1>4, <1>5 DEF PollerInv

(* Channel::remove keeps it, where its caller does what is asserted of it.   *)
LEMMA RemovePreserves ==
  ASSUME PollerInv, NEW c \in Channels, RemoveChannel(c)
  PROVE  PollerInv'
  <1>1. /\ addToLoop' = [addToLoop EXCEPT ![c] = FALSE]
        /\ channels' = channels \ {c}
        /\ status' = [status EXCEPT ![c] = "New"]
        /\ events[c] = CNoneEvent
        /\ UNCHANGED events
        /\ UNCHANGED dispatch
    BY DEF RemoveChannel, Misused
  <1>2. interest' = [interest EXCEPT ![c] = NotRegistered]
    <2>1. CASE status[c] = "Added"
      BY <2>1 DEF RemoveChannel, ctlDel
    <2>2. CASE status[c] # "Added"
      BY <2>2 DEF RemoveChannel, PollerInv, KernelMatches, PollerTypeOK
    <2>. QED
      BY <2>1, <2>2
  <1>3. aborted' = "no"
    BY DEF RemoveChannel, Misused, Check, PollerInv, MapMatches
  <1>4. PollerTypeOK'
    <2>1. NotRegistered \in [on : BOOLEAN, mask : Masks]
      BY DEF NotRegistered, Masks
    <2>2. interest' \in [Channels -> [on : BOOLEAN, mask : Masks]]
      BY <1>2, <2>1 DEF PollerInv, PollerTypeOK
    <2>. QED
      BY <1>1, <1>3, <2>2 DEF PollerInv, PollerTypeOK, dispatch
  <1>5. KernelMatches'
    BY <1>1, <1>2 DEF PollerInv, PollerTypeOK, KernelMatches
  <1>6. MapMatches'
    BY <1>1 DEF PollerInv, PollerTypeOK, MapMatches
  <1>7. DispatchInOrder'
    BY <1>1 DEF PollerInv, DispatchInOrder, dispatch
  <1>8. OwnAssertsHold'
    BY <1>3 DEF OwnAssertsHold
  <1>. QED
    BY <1>4, <1>5, <1>6, <1>7, <1>8 DEF PollerInv

(* What epoll_wait reports is registered, so fillActiveChannel finds it.     *)
LEMMA PollPreserves ==
  ASSUME PollerInv, NEW reported \in SUBSET Channels, Poll(reported)
  PROVE  PollerInv'
  <1>1. reported \subseteq channels
    BY DEF Poll, Report, PollerInv, KernelMatches, MapMatches, NotRegistered
  <1>2. aborted' = "no"
    BY <1>1 DEF Poll, Check
  <1>3. PollerTypeOK'
    BY <1>2 DEF Poll, Report, PollerInv, PollerTypeOK, DispatchInOrder, registration
  <1>4. KernelMatches' /\ MapMatches'
    BY DEF Poll, PollerInv, KernelMatches, MapMatches, registration
  <1>5. DispatchInOrder' /\ OwnAssertsHold'
    BY <1>2 DEF Poll, Report, PollerInv, DispatchInOrder, OwnAssertsHold
  <1>. QED
    BY <1>3, <1>4, <1>5 DEF PollerInv

(* An assertion about the caller, or about room in eventVec_, ends the       *)
(* process and leaves the records as they are.                               *)
LEMMA AbortPreserves ==
  ASSUME PollerInv,
         \/ \E c \in Channels : RemoveMisused(c)
         \/ \E reported \in SUBSET Channels : PollFull(reported)
  PROVE  PollerInv'
  <1>1. UNCHANGED <<registration, dispatch>> /\ aborted' \in {"misuse", "full"}
    BY DEF RemoveMisused, PollFull
  <1>2. PollerTypeOK' /\ DispatchInOrder' /\ OwnAssertsHold'
    BY <1>1 DEF registration, dispatch, PollerInv, PollerTypeOK, DispatchInOrder,
                OwnAssertsHold
  <1>3. KernelMatches' /\ MapMatches'
    BY <1>1 DEF registration, PollerInv, KernelMatches, MapMatches
  <1>. QED
    BY <1>2, <1>3 DEF PollerInv

(* Going on to the next active Channel, or ending the batch, keeps it.       *)
LEMMA DispatchPreserves ==
  ASSUME PollerInv,
         (\E c \in Channels : HandleEvent(c)) \/ HandlerReturns \/ HandlingDone
  PROVE  PollerInv'
  <1>1. UNCHANGED <<registration, activeChannels, aborted>>
    BY DEF HandleEvent, HandlerReturns, HandlingDone
  <1>2. PollerTypeOK' /\ DispatchInOrder'
    BY DEF HandleEvent, HandlerReturns, HandlingDone, registration, PollerInv,
           PollerTypeOK, DispatchInOrder
  <1>3. KernelMatches' /\ MapMatches' /\ OwnAssertsHold'
    BY <1>1 DEF registration, PollerInv, KernelMatches, MapMatches, OwnAssertsHold
  <1>. QED
    BY <1>2, <1>3 DEF PollerInv

(* Every operation of the poller keeps its map, the kernel's set, the flags  *)
(* of the Channels and the active ones in step with each other.             *)
THEOREM PollerInvInductive == PollerSpec => []PollerInv
  <1>1. PollerInv /\ [PollerNext]_pollerVars => PollerInv'
    <2>. SUFFICES ASSUME PollerInv, [PollerNext]_pollerVars PROVE PollerInv'
      OBVIOUS
    <2>1. ASSUME NEW c \in Channels, NEW m \in Masks, update(c, m)
          PROVE  PollerInv'
      BY <2>1, UpdatePreserves
    <2>2. ASSUME NEW c \in Channels, ChannelCall(c)
          PROVE  PollerInv'
      <3>1. events[c] \in Masks
        BY DEF PollerInv, PollerTypeOK
      <3>2. /\ events[c] \cup CReadEvent \in Masks
            /\ events[c] \ CReadEvent \in Masks
            /\ events[c] \cup CWriteEvent \in Masks
            /\ events[c] \cap CWriteEvent \in Masks
            /\ CNoneEvent \in Masks
        BY <3>1 DEF Masks, CNoneEvent
      <3>. QED
        BY <2>1, <2>2, <3>2, RemovePreserves, AbortPreserves
           DEF ChannelCall, enableRead, disableRead, enableWrite, disableWrite, disableAll,
               remove
    <2>3. CASE \E reported \in (SUBSET Channels) \ {{}} : Poll(reported) \/ PollFull(reported)
      BY <2>3, PollPreserves, AbortPreserves
    <2>4. CASE UNCHANGED pollerVars
      BY <2>4 DEF pollerVars, registration, dispatch, PollerInv, PollerTypeOK, KernelMatches,
                  MapMatches, DispatchInOrder, OwnAssertsHold
    <2>. QED
      BY <2>2, <2>3, <2>4, DispatchPreserves DEF PollerNext
  <1>. QED
    BY <1>1, PollerInitEstablishes, PTL DEF PollerSpec

------------------------------------------------------------------------------
(* The results *)

(* Every variable of the poller and the Channels keeps its type. *)
THEOREM PollerTypeCorrect == PollerSpec => []PollerTypeOK
  BY PollerInvInductive, PTL DEF PollerInv

(* Whatever enableRead ... disableAll and remove are called, and by whom,   *)
(* the three records of a Channel agree: epoll_ctl is never refused, and    *)
(* channels_ never has or lacks what the flags say (EpollPoller.cc:55-98).  *)
THEOREM RecordsAgreeHolds == PollerSpec => []RecordsAgree
  <1>1. PollerInv => RecordsAgree
    BY DEF PollerInv, RecordsAgree
  <1> QED BY <1>1, PollerInvInductive, PTL

(* The assertions of updateChannel, removeChannel and fillActiveChannel      *)
(* about the poller's own records never fail, however many Channels the loop *)
(* has, whatever eventVec_ holds and whatever handlers and callers do.       *)
THEOREM OwnAssertsHoldAlways == PollerSpec => []OwnAssertsHold
  BY PollerInvInductive, PTL DEF PollerInv
==============================================================================
