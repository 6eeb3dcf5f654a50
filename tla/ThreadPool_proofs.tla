-------------------------- MODULE ThreadPool_proofs --------------------------
(* Safety of the v0.1 thread pool for any number of workers and jobs. *)
EXTENDS ThreadPool, FiniteSetTheorems, WellFoundedInduction, TLAPS

(* keepAlive is cleared by destroy and by nothing else. *)
AliveInv == keepAlive <=> dpc = "up"

(* The queue is freed when every worker has returned. *)
JoinInv == dpc = "freed" => \A w \in Workers : wpc[w] = "gone"

(* The jobs of the list are distinct, so that relinking one leaves the     *)
(* others alone, and have been added, so that a new one is not among them. *)
FifoInv ==
    /\ \A i, k \in 1 .. Len(fifo) : fifo[i] = fifo[k] => i = k
    /\ \A i \in 1 .. Len(fifo) : fifo[i] \in Posted

PoolInv ==
    /\ TypeOK
    /\ AliveInv
    /\ JoinInv
    /\ FifoInv
    /\ TokensMatch
    /\ NoNullJob
    /\ WellLinked
    /\ TakenInOrder

------------------------------------------------------------------------------
(* The workers at one place are finitely many. *)
LEMMA AtIsFinite ==
    ASSUME NEW p
    PROVE  IsFiniteSet(At(p)) /\ Cardinality(At(p)) \in Nat
  BY WorkersAssumption, FS_Subset, FS_CardinalityType DEF At

(* A worker that goes from one place to another takes one from the workers *)
(* at the former and adds one to those at the latter.                      *)
LEMMA MoveCounts ==
    ASSUME TypeOK, NEW w \in Workers, NEW p, NEW q, p # q,
           wpc[w] = p, wpc' = [wpc EXCEPT ![w] = q]
    PROVE  /\ Cardinality(At(p)) >= 1
           /\ Cardinality(At(p)') = Cardinality(At(p)) - 1
           /\ Cardinality(At(q)') = Cardinality(At(q)) + 1
           /\ \A r : r # p /\ r # q => At(r)' = At(r)
  <1>1. At(p)' = At(p) \ {w} /\ w \in At(p)
    BY DEF At, TypeOK
  <1>2. At(q)' = At(q) \cup {w} /\ w \notin At(q)
    BY DEF At, TypeOK
  <1>3. \A r : r # p /\ r # q => At(r)' = At(r)
    BY DEF At, TypeOK
  <1>4. Cardinality(At(p)') = Cardinality(At(p)) - 1
    BY <1>1, AtIsFinite, FS_RemoveElement
  <1>5. Cardinality(At(q)') = Cardinality(At(q)) + 1
    BY <1>2, AtIsFinite, FS_AddElement
  <1>6. Cardinality(At(p)) >= 1
    <2>1. Cardinality(At(p)) # 0
      BY <1>1, AtIsFinite, FS_EmptySet
    <2> QED BY <2>1, AtIsFinite
  <1> QED BY <1>3, <1>4, <1>5, <1>6

(* As many workers, and as many counts, as before at every place. *)
LEMMA StayCounts ==
    ASSUME wpc' = wpc, NEW p
    PROVE  At(p)' = At(p)
  BY DEF At

------------------------------------------------------------------------------
(* What only the lists and the history decide stays as they stay. *)
LEMMA ListStays ==
    ASSUME PoolInv, UNCHANGED <<head, tail, number, prev, next, historyVars>>,
           dpc' # "freed" => dpc # "freed"
    PROVE  FifoInv' /\ WellLinked' /\ TakenInOrder'
  <1>1. Posted' = Posted
    BY DEF Posted, historyVars
  <1>2. FifoInv'
    BY <1>1 DEF PoolInv, FifoInv, historyVars
  <1>3. WellLinked'
    BY DEF PoolInv, WellLinked, historyVars
  <1>4. TakenInOrder'
    BY DEF PoolInv, TakenInOrder, historyVars
  <1> QED BY <1>2, <1>3, <1>4

(* The pool starts with an empty list and no worker past sem_wait. *)
LEMMA InitEstablishes == Init => PoolInv
  <1> SUFFICES ASSUME Init PROVE PoolInv
    OBVIOUS
  <1>1. At("test") = {} /\ At("take") = {}
    BY DEF Init, At
  <1>2. TokensMatch
    <2>1. Cardinality({}) = 0
      BY FS_EmptySet
    <2>2. number = 0 /\ sem = 0
      BY DEF Init
    <2>3. Cardinality(At("test")) = 0 /\ Cardinality(At("take")) = 0
      BY <1>1, <2>1
    <2> QED BY <2>2, <2>3 DEF TokensMatch
  <1>3. TypeOK
    <2>1. <<>> \in Seq(Jobs) /\ NULL \in Pointer
      BY DEF Pointer
    <2> QED BY <2>1 DEF Init, TypeOK
  <1>4. AliveInv /\ JoinInv /\ FifoInv /\ NoNullJob /\ TakenInOrder
    BY DEF Init, AliveInv, JoinInv, FifoInv, NoNullJob, TakenInOrder
  <1>5. WellLinked
    BY DEF Init, WellLinked
  <1> QED BY <1>2, <1>3, <1>4, <1>5 DEF PoolInv

(* jobQueue_add puts the job at the head and keeps the links in step with  *)
(* the order of the jobs.                                                  *)
LEMMA AddPreserves ==
    ASSUME PoolInv, NEW j \in Jobs, add_work(j), dpc # "freed"
    PROVE  PoolInv'
  <1> USE DEF add_work, jobQueue_add, workerVars, destroyVars
  <1>1. TypeOK'
    <2>1. Append(added, j) \in Seq(Jobs) /\ Append(fifo, j) \in Seq(Jobs) /\ j \in Pointer
          /\ NULL \in Pointer
      BY DEF PoolInv, TypeOK, Pointer
    <2>2. prev' \in [Jobs -> Pointer] /\ next' \in [Jobs -> Pointer]
      BY <2>1 DEF PoolInv, TypeOK
    <2> QED BY <2>1, <2>2 DEF PoolInv, TypeOK
  <1>2. Len(fifo') = Len(fifo) + 1 /\ fifo'[Len(fifo) + 1] = j
        /\ \A i \in 1 .. Len(fifo) : fifo'[i] = fifo[i]
    BY DEF PoolInv, TypeOK
  <1>3. \A i \in 1 .. Len(fifo) : fifo[i] # j /\ fifo[i] \in Jobs
    BY DEF PoolInv, FifoInv, TypeOK
  <1>4. Posted' = Posted \cup {j}
    <2>1. DOMAIN added' = DOMAIN added \cup {Len(added) + 1}
          /\ added'[Len(added) + 1] = j
          /\ \A i \in DOMAIN added : added'[i] = added[i]
      BY DEF PoolInv, TypeOK
    <2> QED BY <2>1 DEF Posted
  <1>5. FifoInv'
    BY <1>2, <1>3, <1>4 DEF PoolInv, FifoInv, TypeOK
  <1>6. TakenInOrder'
    BY DEF PoolInv, TypeOK, TakenInOrder
  <1>7. TokensMatch'
    BY StayCounts, AtIsFinite DEF PoolInv, TypeOK, TokensMatch
  <1>8. WellLinked'
    <2>1. number = Len(fifo) /\ number' = Len(fifo')
      BY <1>2 DEF PoolInv, TypeOK, WellLinked
    <2>2. CASE number = 0
      BY <1>2, <2>1, <2>2 DEF PoolInv, TypeOK, WellLinked
    <2>3. CASE number > 0
      <3>1. head = fifo[number] /\ tail = fifo[1] /\ head \in Jobs /\ tail \in Jobs
            /\ head # j /\ tail # j
        BY <1>3, <2>1, <2>3 DEF PoolInv, TypeOK, WellLinked
      <3>2. tail' = fifo'[1] /\ head' = fifo'[number'] /\ next'[tail'] = NULL
            /\ prev'[head'] = NULL
        BY <1>2, <2>1, <2>3, <3>1 DEF PoolInv, TypeOK, WellLinked
      <3>3. ASSUME NEW i \in 1 .. number' - 1
            PROVE  prev'[fifo'[i]] = fifo'[i + 1] /\ next'[fifo'[i + 1]] = fifo'[i]
        <4>1. CASE i = number
          BY <1>2, <2>1, <2>3, <3>1, <4>1 DEF PoolInv, TypeOK
        <4>2. CASE i < number
          <5>1. fifo[i] # head
            BY <2>1, <2>3, <3>1, <4>2 DEF PoolInv, TypeOK, FifoInv
          <5>2. fifo[i] # j /\ fifo[i + 1] # j /\ fifo[i] \in Jobs /\ fifo[i + 1] \in Jobs
                /\ fifo'[i] = fifo[i] /\ fifo'[i + 1] = fifo[i + 1]
            BY <1>2, <1>3, <2>1, <4>2 DEF PoolInv, TypeOK
          <5>3. prev[fifo[i]] = fifo[i + 1] /\ next[fifo[i + 1]] = fifo[i]
            BY <2>1, <4>2 DEF PoolInv, TypeOK, WellLinked
          <5> QED BY <2>3, <5>1, <5>2, <5>3 DEF PoolInv, TypeOK
        <4> QED BY <2>1, <4>1, <4>2 DEF PoolInv, TypeOK
      <3> QED BY <2>1, <2>3, <3>2, <3>3 DEF PoolInv, TypeOK, WellLinked
    <2> QED BY <2>2, <2>3 DEF PoolInv, TypeOK
  <1> QED BY <1>1, <1>5, <1>6, <1>7, <1>8
          DEF PoolInv, AliveInv, JoinInv, NoNullJob

(* A worker that got through finds a job, and takes the oldest. *)
LEMMA TakePreserves ==
    ASSUME PoolInv, NEW w \in Workers, Take(w)
    PROVE  PoolInv'
  <1> USE DEF Take, jobQueue_removeLast, Goto, destroyVars
  <1>1. dpc # "freed"
    BY DEF PoolInv, JoinInv
  <1>2. number = Len(fifo) /\ number > 0 /\ tail = fifo[1] /\ tail \in Jobs
    BY <1>1 DEF PoolInv, TypeOK, WellLinked, Pointer
  <1>3. fifo # <<>> /\ Len(Tail(fifo)) = Len(fifo) - 1 /\ Tail(fifo) \in Seq(Jobs)
        /\ \A i \in 1 .. Len(fifo) - 1 : Tail(fifo)[i] = fifo[i + 1]
    BY <1>2 DEF PoolInv, TypeOK
  <1>4. number > 1 => prev[tail] = fifo[2] /\ prev[tail] \in Jobs
    BY <1>1, <1>2 DEF PoolInv, TypeOK, WellLinked
  <1>5. TypeOK'
    <2>1. Append(taken, tail) \in Seq(Jobs) /\ NULL \in Pointer /\ tail \in Pointer
      BY <1>2 DEF PoolInv, TypeOK, Pointer
    <2>2. tail' \in Pointer /\ head' \in Pointer /\ number' \in Nat
      BY <1>2, <1>4, <2>1 DEF PoolInv, TypeOK, Pointer
    <2>3. next' \in [Jobs -> Pointer]
      BY <1>4, <2>1 DEF PoolInv, TypeOK
    <2>4. wpc' \in [Workers -> {"while", "wait", "test", "take", "run", "gone"}]
          /\ job' \in [Workers -> Pointer]
      BY <2>1 DEF PoolInv, TypeOK
    <2> QED BY <1>3, <2>1, <2>2, <2>3, <2>4 DEF PoolInv, TypeOK
  <1>6. FifoInv'
    <2>1. Posted' = Posted
      BY DEF Posted
    <2> QED BY <1>3, <2>1 DEF PoolInv, TypeOK, FifoInv
  <1>7. TakenInOrder'
    BY <1>2, <1>3 DEF PoolInv, TypeOK, TakenInOrder
  <1>8. TokensMatch'
    <2>1. /\ Cardinality(At("take")) >= 1
          /\ Cardinality(At("take")') = Cardinality(At("take")) - 1
          /\ At("test")' = At("test")
      <3>1. TypeOK /\ wpc[w] = "take" /\ wpc' = [wpc EXCEPT ![w] = "run"]
        BY DEF PoolInv
      <3>2. "take" # "run" /\ "test" # "run" /\ "test" # "take"
        OBVIOUS
      <3> HIDE DEF Take, jobQueue_removeLast, Goto, destroyVars
      <3>3. Cardinality(At("take")) >= 1
        BY <3>1, <3>2, MoveCounts
      <3>4. Cardinality(At("take")') = Cardinality(At("take")) - 1
        BY <3>1, <3>2, MoveCounts
      <3>5. At("test")' = At("test")
        BY <3>1, <3>2 DEF At, TypeOK
      <3> QED BY <3>3, <3>4, <3>5
    <2> QED BY <1>1, <2>1, AtIsFinite DEF PoolInv, TypeOK, TokensMatch
  <1>9. WellLinked'
    <2>1. CASE number = 1
      BY <1>2, <1>3, <2>1, SMTT(30) DEF PoolInv, TypeOK, WellLinked
    <2>2. CASE number > 1
      <3>1. tail' = fifo'[1] /\ head' = fifo'[number'] /\ number' = Len(fifo')
        BY <1>1, <1>2, <1>3, <1>4, <2>2 DEF PoolInv, TypeOK, WellLinked
      <3>2. next'[tail'] = NULL /\ prev'[head'] = NULL
        BY <1>1, <1>2, <1>4, <2>2, SMTT(30) DEF PoolInv, TypeOK, WellLinked
      <3>3. ASSUME NEW i \in 1 .. number' - 1
            PROVE  prev'[fifo'[i]] = fifo'[i + 1] /\ next'[fifo'[i + 1]] = fifo'[i]
        <4>1. fifo'[i] = fifo[i + 1] /\ fifo'[i + 1] = fifo[i + 2]
              /\ i + 1 \in 1 .. number - 1 /\ i + 2 \in 1 .. Len(fifo) /\ i + 2 # 2
          BY <1>2, <1>3, <2>2 DEF PoolInv, TypeOK
        <4>2. fifo[i + 2] # fifo[2]
          BY <1>2, <2>2, <4>1 DEF PoolInv, FifoInv, TypeOK
        <4>3. prev[fifo[i + 1]] = fifo[i + 2] /\ next[fifo[i + 2]] = fifo[i + 1]
          BY <1>1, <4>1 DEF PoolInv, WellLinked, TypeOK
        <4> QED BY <1>2, <1>4, <2>2, <4>1, <4>2, <4>3 DEF PoolInv, TypeOK
      <3> QED BY <1>2, <2>2, <3>1, <3>2, <3>3 DEF PoolInv, TypeOK, WellLinked
    <2> QED BY <1>2, <2>1, <2>2 DEF PoolInv, TypeOK
  <1> QED BY <1>1, <1>5, <1>6, <1>7, <1>8, <1>9
          DEF PoolInv, AliveInv, JoinInv, NoNullJob

(* The other steps of a worker move it and the count of the semaphore. *)
LEMMA WorkerPreserves ==
    ASSUME PoolInv, NEW w \in Workers, WorkerStep(w)
    PROVE  PoolInv'
  <1> USE DEF Goto, queueVars, workerVars, destroyVars, historyVars
  <1>1. CASE While(w)
    <2> USE <1>1 DEF While
    <2>1. At("test")' = At("test") /\ At("take")' = At("take")
      BY DEF PoolInv, TypeOK, At
    <2>2. TokensMatch'
      BY <2>1 DEF PoolInv, TokensMatch
    <2>3. TypeOK'
      BY DEF PoolInv, TypeOK, Pointer
    <2> QED BY <2>2, <2>3, ListStays DEF PoolInv, AliveInv, JoinInv, NoNullJob
  <1>2. CASE SemWait(w)
    <2> USE <1>2 DEF SemWait
    <2>1. Cardinality(At("test")') = Cardinality(At("test")) + 1 /\ At("take")' = At("take")
      <3>1. TypeOK /\ wpc[w] = "wait" /\ wpc' = [wpc EXCEPT ![w] = "test"]
        BY DEF PoolInv
      <3>2. "wait" # "test" /\ "wait" # "take" /\ "test" # "take"
        OBVIOUS
      <3> HIDE <1>2
      <3> HIDE DEF SemWait, Goto, queueVars, workerVars, destroyVars, historyVars
      <3>3. Cardinality(At("test")') = Cardinality(At("test")) + 1
        BY <3>1, <3>2, MoveCounts
      <3>4. At("take")' = At("take")
        BY <3>1, <3>2 DEF At, TypeOK
      <3> QED BY <3>3, <3>4
    <2>2. TokensMatch'
      BY <2>1, AtIsFinite DEF PoolInv, TypeOK, TokensMatch
    <2>3. TypeOK'
      BY DEF PoolInv, TypeOK, Pointer
    <2> QED BY <2>2, <2>3, ListStays DEF PoolInv, AliveInv, JoinInv, NoNullJob
  <1>3. CASE TestAgain(w)
    <2> USE <1>3 DEF TestAgain
    <2>1. TokensMatch'
      <3>1. CASE keepAlive
        <4>1. Cardinality(At("test")') = Cardinality(At("test")) - 1
              /\ Cardinality(At("take")') = Cardinality(At("take")) + 1
              /\ Cardinality(At("test")) >= 1
          <5>1. TypeOK /\ wpc[w] = "test" /\ wpc' = [wpc EXCEPT ![w] = "take"]
            BY <3>1 DEF PoolInv
          <5> HIDE DEF TestAgain, Goto
          <5> QED BY <5>1, MoveCounts
        <4> QED BY <3>1, <4>1, AtIsFinite DEF PoolInv, TypeOK, TokensMatch, AliveInv
      <3>2. CASE ~keepAlive
        <4>1. At("take")' = At("take")
          BY <3>2 DEF PoolInv, TypeOK, At
        <4> QED BY <3>2, <4>1 DEF PoolInv, TokensMatch
      <3> QED BY <3>1, <3>2
    <2>3. TypeOK'
      BY DEF PoolInv, TypeOK, Pointer
    <2> QED BY <2>1, <2>3, ListStays DEF PoolInv, AliveInv, JoinInv, NoNullJob
  <1>4. CASE TakeNull(w)
    <2>1. dpc # "freed" /\ Cardinality(At("take")) # 0
      <3>1. w \in At("take")
        BY <1>4 DEF TakeNull, At
      <3> QED BY <1>4, <3>1, AtIsFinite, FS_EmptySet DEF TakeNull, PoolInv, JoinInv
    <2>2. number > 0
      BY <2>1, AtIsFinite DEF PoolInv, TypeOK, TokensMatch
    <2>3. tail \in Jobs
      BY <2>1, <2>2 DEF PoolInv, TypeOK, WellLinked
    <2> QED BY <1>4, <2>3, NullAssumption DEF TakeNull
  <1>5. CASE Take(w)
    BY <1>5, TakePreserves
  <1>6. CASE Finish(w)
    <2> USE <1>6 DEF Finish
    <2>1. At("test")' = At("test") /\ At("take")' = At("take")
      BY DEF PoolInv, TypeOK, At
    <2>2. TokensMatch'
      BY <2>1 DEF PoolInv, TokensMatch
    <2>3. TypeOK'
      BY DEF PoolInv, TypeOK, Pointer
    <2> QED BY <2>2, <2>3, ListStays DEF PoolInv, AliveInv, JoinInv, NoNullJob
  <1> QED BY <1>1, <1>2, <1>3, <1>4, <1>5, <1>6 DEF WorkerStep

(* destroy stops the count from meaning anything before it spoils it, and  *)
(* frees the queue when nobody is left to take from it.                    *)
LEMMA DestroyPreserves ==
    ASSUME PoolInv, Destroy \/ Post \/ Joined
    PROVE  PoolInv'
  <1> USE DEF queueVars, workerVars, historyVars
  <1>0. wpc' = wpc
    BY DEF Destroy, Post, Joined
  <1>1. TokensMatch'
    BY <1>0, StayCounts, AtIsFinite
       DEF Destroy, Post, Joined, PoolInv, TypeOK, AliveInv, TokensMatch
  <1>2. CASE Destroy
    BY <1>1, <1>2, ListStays DEF Destroy, PoolInv, TypeOK, Pointer, AliveInv, JoinInv, NoNullJob
  <1>3. CASE Post
    BY <1>1, <1>3, ListStays DEF Post, PoolInv, TypeOK, Pointer, AliveInv, JoinInv, NoNullJob
  <1>4. CASE Joined
    <2>1. TypeOK'
      BY <1>4 DEF Joined, PoolInv, TypeOK, Pointer
    <2>2. AliveInv' /\ JoinInv' /\ NoNullJob'
      BY <1>4 DEF Joined, PoolInv, AliveInv, JoinInv, NoNullJob
    <2>3. FifoInv' /\ TakenInOrder'
      BY <1>4 DEF Joined, PoolInv, FifoInv, Posted, TakenInOrder
    <2>4. WellLinked'
      BY <1>4 DEF Joined, WellLinked
    <2> QED BY <1>1, <2>1, <2>2, <2>3, <2>4 DEF PoolInv
  <1> QED BY <1>2, <1>3, <1>4

------------------------------------------------------------------------------
(* The list, the semaphore and the workers stay in step for ever. *)
THEOREM PoolInvInductive == Spec => []PoolInv
  <1>1. PoolInv /\ [Next]_vars => PoolInv'
    <2> SUFFICES ASSUME PoolInv, [Next]_vars PROVE PoolInv'
      OBVIOUS
    <2>1. CASE \E w \in Workers : WorkerStep(w)
      BY <2>1, WorkerPreserves
    <2>2. CASE AddFromOutside
      BY <2>2, AddPreserves DEF AddFromOutside
    <2>3. CASE AddFromJob
      <3>1. dpc # "freed"
        BY <2>3 DEF AddFromJob, At, PoolInv, JoinInv
      <3> QED BY <2>3, <3>1, AddPreserves DEF AddFromJob
    <2>4. CASE Destroy \/ Post \/ Joined
      BY <2>4, DestroyPreserves
    <2>5. CASE UNCHANGED vars
      BY <2>5, StayCounts, SMTT(30) DEF vars, queueVars, workerVars, destroyVars, historyVars, PoolInv,
         TypeOK, Pointer, AliveInv, JoinInv, FifoInv, Posted, TokensMatch, NoNullJob,
         WellLinked, TakenInOrder
    <2> QED BY <2>1, <2>2, <2>3, <2>4, <2>5 DEF Next
  <1> QED BY InitEstablishes, <1>1, PTL DEF Spec

(* Every variable of the pool keeps its type. *)
THEOREM TypeCorrect == Spec => []TypeOK
  BY PoolInvInductive, PTL DEF PoolInv

(* The semaphore's count and the workers it has let through are the number  *)
(* of jobs in the list, however many workers and producers there are.       *)
THEOREM TokensMatchHolds == Spec => []TokensMatch
  BY PoolInvInductive, PTL DEF PoolInv

(* No worker peeks into an empty list, during destroy neither.              *)
THEOREM NoNullJobHolds == Spec => []NoNullJob
  BY PoolInvInductive, PTL DEF PoolInv

(* The links always describe the jobs waiting, in the order of add_work.    *)
THEOREM WellLinkedHolds == Spec => []WellLinked
  BY PoolInvInductive, PTL DEF PoolInv

(* Jobs are taken once each and in the order in which they were added.      *)
THEOREM TakenInOrderHolds == Spec => []TakenInOrder
  BY PoolInvInductive, PTL DEF PoolInv

------------------------------------------------------------------------------
(* Who owns the memory of a job: the list, or the worker that runs it. *)
Waiting == {fifo[i] : i \in 1 .. Len(fifo)}
Running == {job[w] : w \in At("run")}

FreedInv ==
    /\ Running \subseteq Posted /\ Running \cap Waiting = {}
    /\ \A v, w \in At("run") : v # w => job[v] # job[w]
    /\ heap = IF dpc = "freed" THEN {} ELSE Waiting \cup Running

(* Every set of natural numbers that is not empty has a least element. *)
LEMMA LeastNatural ==
    ASSUME NEW T \in SUBSET Nat, T # {}
    PROVE  \E x \in T : \A y \in T : x <= y
  <1> DEFINE R == OpToRel(<, Nat)
  <1>1. IsWellFoundedOn(R, Nat)
    BY NatLessThanWellFounded
  <1> HIDE DEF R
  <1>2. PICK x \in T : \A y \in T : <<y, x>> \notin R
    BY <1>1, WFMin
  <1>3. ASSUME NEW y \in T, y < x PROVE FALSE
    <2>1. <<y, x>> \in R
      BY <1>3 DEF R, OpToRel
    <2> QED BY <1>2, <2>1
  <1> QED BY <1>2, <1>3

(* jobQueue_empty, which follows prev from the tail, frees every job that  *)
(* waits and no other: the i-th job it comes to is the i-th oldest.        *)
LEMMA ListedIsWaiting ==
    ASSUME PoolInv, dpc # "freed"
    PROVE  Listed = Waiting
  <1> DEFINE Follows(f) ==
               f = [i \in 1 .. number |-> IF i = 1 THEN tail ELSE prev[f[i - 1]]]
             node == CHOOSE f : Follows(f)
             order == [i \in 1 .. number |-> fifo[i]]
  <1>1. number \in Nat /\ number = Len(fifo) /\ (number > 0 => tail = fifo[1])
        /\ \A i \in 1 .. number - 1 : prev[fifo[i]] = fifo[i + 1]
    BY DEF PoolInv, TypeOK, WellLinked
  <1>2. Follows(order)
    <2>1. ASSUME NEW i \in 1 .. number
          PROVE  order[i] = IF i = 1 THEN tail ELSE prev[order[i - 1]]
      <3>1. CASE i = 1
        BY <1>1, <3>1
      <3>2. CASE i # 1
        <4>1. i - 1 \in 1 .. number - 1 /\ i - 1 \in 1 .. number /\ (i - 1) + 1 = i
          BY <1>1, <3>2
        <4> QED BY <1>1, <3>2, <4>1
      <3> QED BY <3>1, <3>2
    <2> QED BY <2>1
  <1>3. Follows(node)
    <2> HIDE DEF Follows, order
    <2> QED BY <1>2
  <1>4. Listed = {node[i] : i \in 1 .. number}
    BY DEF Listed
  <1> HIDE DEF node
  <1>5. \A i \in 1 .. number : node[i] = fifo[i]
    <2> DEFINE Wrong == {i \in 1 .. number : node[i] # fifo[i]}
    <2>1. SUFFICES ASSUME Wrong # {} PROVE FALSE
      OBVIOUS
    <2>2. Wrong \in SUBSET Nat
      BY <1>1
    <2>3. PICK i \in Wrong : \A k \in Wrong : i <= k
      <3> HIDE DEF Wrong
      <3> QED BY <2>1, <2>2, LeastNatural
    <2>4. i \in 1 .. number /\ node[i] # fifo[i]
      OBVIOUS
    <2>5. node[i] = IF i = 1 THEN tail ELSE prev[node[i - 1]]
      BY <1>3, <2>4
    <2>6. i # 1
      BY <1>1, <2>4, <2>5
    <2>7. i - 1 \in 1 .. number - 1 /\ i - 1 \in 1 .. number /\ (i - 1) + 1 = i
          /\ ~(i <= i - 1)
      BY <1>1, <2>4, <2>6
    <2>8. node[i - 1] = fifo[i - 1]
      BY <2>3, <2>7
    <2> QED BY <1>1, <2>4, <2>5, <2>6, <2>7, <2>8
  <1> QED BY <1>1, <1>4, <1>5 DEF Waiting

(* Each step hands the memory on, or frees it. *)
LEMMA FreedInvStep ==
    ASSUME PoolInv, FreedInv, [Next]_vars
    PROVE  FreedInv'
  <1> USE DEF Goto, queueVars, workerVars, destroyVars, historyVars
  <1>0. /\ \A i \in 1 .. Len(fifo) : fifo[i] \in Posted
        /\ dpc = "freed" => At("run") = {}
        /\ fifo \in Seq(Jobs) /\ added \in Seq(Jobs)
        /\ wpc \in [Workers -> {"while", "wait", "test", "take", "run", "gone"}]
        /\ job \in [Workers -> Pointer]
    BY DEF PoolInv, TypeOK, FifoInv, JoinInv, At
  <1>1. ASSUME UNCHANGED <<added, fifo, job, dpc, heap>>, At("run")' = At("run")
        PROVE  FreedInv'
    <2>1. Posted' = Posted /\ Waiting' = Waiting /\ Running' = Running
      BY <1>1 DEF Posted, Waiting, Running
    <2> QED BY <1>1, <2>1 DEF FreedInv
  <1>2. ASSUME NEW w \in Workers, While(w) \/ SemWait(w) \/ TestAgain(w) \/ TakeNull(w)
        PROVE  FreedInv'
    <2>1. At("run")' = At("run")
      BY <1>0, <1>2 DEF At, While, SemWait, TestAgain, TakeNull
    <2>2. UNCHANGED <<added, fifo, job, dpc, heap>>
      BY <1>2 DEF While, SemWait, TestAgain, TakeNull
    <2> QED BY <1>1, <2>1, <2>2
  <1>3. ASSUME NEW w \in Workers, Take(w)
        PROVE  FreedInv'
    <2>1. dpc # "freed" /\ dpc' = dpc
      BY <1>3 DEF Take, PoolInv, JoinInv
    <2>2. number = Len(fifo) /\ number > 0 /\ tail = fifo[1]
      BY <1>3, <2>1 DEF Take, PoolInv, TypeOK, WellLinked
    <2>3. /\ Len(fifo') = Len(fifo) - 1
          /\ \A i \in 1 .. Len(fifo) - 1 : fifo'[i] = fifo[i + 1]
      BY <1>0, <1>3, <2>2 DEF Take
    <2>4. tail \in Waiting /\ Waiting' = Waiting \ {tail}
      <3>1. \A i, k \in 1 .. Len(fifo) : fifo[i] = fifo[k] => i = k
        BY DEF PoolInv, FifoInv
      <3>2. \A x \in Waiting : x # tail => x \in Waiting'
        <4> TAKE x \in Waiting
        <4> HAVE x # tail
        <4>1. PICK i \in 1 .. Len(fifo) : x = fifo[i]
          BY DEF Waiting
        <4>2. i - 1 \in 1 .. Len(fifo) - 1 /\ (i - 1) + 1 = i
          BY <1>0, <2>2, <4>1
        <4> QED BY <2>3, <4>1, <4>2 DEF Waiting
      <3>3. \A x \in Waiting' : x \in Waiting /\ x # tail
        <4> TAKE x \in Waiting'
        <4>1. PICK i \in 1 .. Len(fifo') : x = fifo'[i]
          BY DEF Waiting
        <4>2. i \in 1 .. Len(fifo) - 1 /\ i + 1 \in 1 .. Len(fifo) /\ i + 1 # 1
              /\ 1 \in 1 .. Len(fifo)
          BY <1>0, <2>2, <2>3, <4>1
        <4> QED BY <2>2, <2>3, <3>1, <4>1, <4>2 DEF Waiting
      <3>4. tail \in Waiting
        BY <1>0, <2>2 DEF Waiting
      <3> QED BY <3>2, <3>3, <3>4
    <2>5. At("run")' = At("run") \cup {w} /\ w \notin At("run")
          /\ job'[w] = tail /\ \A v \in At("run") : job'[v] = job[v]
      BY <1>0, <1>3 DEF Take, At
    <2>6. Running' = Running \cup {tail}
      BY <2>5 DEF Running
    <2>7. Posted' = Posted /\ heap' = heap
      BY <1>3 DEF Take, Posted
    <2>8. tail \in Posted
      BY <1>0, <2>2
    <2>9. \A v \in At("run") : job[v] # tail
      BY <2>4 DEF FreedInv, Running
    <2> QED BY <2>1, <2>4, <2>5, <2>6, <2>7, <2>8, <2>9 DEF FreedInv
  <1>4. ASSUME NEW w \in Workers, Finish(w)
        PROVE  FreedInv'
    <2>1. At("run")' = At("run") \ {w} /\ w \in At("run")
          /\ \A v \in At("run") \ {w} : job'[v] = job[v]
      BY <1>0, <1>4 DEF Finish, At
    <2>2. Running' = Running \ {job[w]} /\ job[w] \in Running
      BY <2>1 DEF Running, FreedInv
    <2>3. Posted' = Posted /\ Waiting' = Waiting /\ heap' = heap \ {job[w]}
          /\ dpc' = dpc /\ dpc # "freed"
      BY <1>0, <1>4, <2>1 DEF Finish, Posted, Waiting
    <2> QED BY <2>1, <2>2, <2>3 DEF FreedInv
  <1>5. ASSUME NEW j \in Jobs, add_work(j), dpc # "freed"
        PROVE  FreedInv'
    <2>1. /\ Len(fifo') = Len(fifo) + 1 /\ fifo'[Len(fifo) + 1] = j
          /\ \A i \in 1 .. Len(fifo) : fifo'[i] = fifo[i]
      BY <1>0, <1>5 DEF add_work
    <2>2. Waiting' = Waiting \cup {j}
      BY <1>0, <2>1 DEF Waiting
    <2>3. Posted' = Posted \cup {j} /\ j \notin Posted
      <3>1. DOMAIN added' = DOMAIN added \cup {Len(added) + 1}
            /\ added'[Len(added) + 1] = j
            /\ \A i \in DOMAIN added : added'[i] = added[i]
        BY <1>0, <1>5 DEF add_work
      <3> QED BY <1>5, <3>1 DEF Posted, add_work
    <2>4. At("run")' = At("run") /\ Running' = Running
      BY <1>5 DEF add_work, At, Running
    <2>5. heap' = heap \cup {j} /\ job' = job /\ dpc' = dpc
      BY <1>5 DEF add_work
    <2> QED BY <1>5, <2>2, <2>3, <2>4, <2>5 DEF FreedInv
  <1>6. ASSUME Destroy \/ Post
        PROVE  FreedInv'
    <2>1. Posted' = Posted /\ Waiting' = Waiting /\ Running' = Running
          /\ At("run")' = At("run")
      BY <1>6 DEF Destroy, Post, Posted, Waiting, Running, At
    <2>2. heap' = heap /\ job' = job /\ dpc # "freed" /\ dpc' # "freed"
      BY <1>6 DEF Destroy, Post
    <2> QED BY <2>1, <2>2 DEF FreedInv
  <1>7. ASSUME Joined
        PROVE  FreedInv'
    <2>1. At("run") = {} /\ At("run")' = {} /\ dpc # "freed" /\ dpc' = "freed"
      BY <1>7 DEF Joined, At
    <2>2. Running = {} /\ Running' = {}
      BY <2>1 DEF Running
    <2>3. heap' = {}
      BY <1>7, <2>1, <2>2, ListedIsWaiting DEF Joined, FreedInv
    <2> QED BY <2>1, <2>2, <2>3 DEF FreedInv
  <1>8. CASE UNCHANGED vars
    BY <1>1, <1>8 DEF vars, At
  <1>9. CASE Next
    <2>1. CASE \E w \in Workers : WorkerStep(w)
      BY <1>2, <1>3, <1>4, <2>1 DEF WorkerStep
    <2>2. CASE AddFromOutside \/ AddFromJob
      BY <1>0, <1>5, <2>2 DEF AddFromOutside, AddFromJob
    <2>3. CASE Destroy \/ Post \/ Joined
      BY <1>6, <1>7, <2>3
    <2> QED BY <1>9, <2>1, <2>2, <2>3 DEF Next
  <1> QED BY <1>8, <1>9

(* A job is freed once: by the worker that ran it or with the queue, never *)
(* while it is in the list or run; threadPool_destroy leaves none behind.  *)
THEOREM FreedOnceHolds == Spec => []FreedOnce
  <1>1. Init => FreedInv
    BY DEF Init, FreedInv, Waiting, Running, At
  <1>2. PoolInv /\ FreedInv => FreedOnce
    <2> SUFFICES ASSUME PoolInv, FreedInv PROVE FreedOnce
      OBVIOUS
    <2>1. DOMAIN fifo = 1 .. Len(fifo)
      BY DEF PoolInv, TypeOK
    <2>2. dpc = "freed" => At("run") = {}
      BY DEF PoolInv, JoinInv, At
    <2> QED BY <2>1, <2>2 DEF FreedInv, FreedOnce, Waiting, Running
  <1> QED BY <1>1, <1>2, FreedInvStep, PoolInvInductive, PTL DEF Spec
==============================================================================
