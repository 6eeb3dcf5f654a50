------------------------------ MODULE ThreadPool ------------------------------
(***************************************************************************)
(* The thread pool of v0.1 (src/v0.1/thread_pool.cc): workers take jobs    *)
(* from a doubly linked list that a mutex guards, and a semaphore counts   *)
(* the jobs of the list for those that wait for one.                       *)
(*                                                                         *)
(* A worker's program counter wpc names the places of job_do:              *)
(*   "while"   about to test threadPool_keepAlive in the while             *)
(*   "wait"    in sem_wait                                                 *)
(*   "test"    back from it, about to test threadPool_keepAlive again      *)
(*   "take"    about to lock the mutex, peek and remove the last job       *)
(*   "run"     in the job's function, which may itself call add_work       *)
(*   "gone"    returned                                                    *)
(* The places of destroy are in dpc: "up" before the call, then "posting", *)
(* "joining" and "freed".  Its caller adds no work after calling it; jobs  *)
(* that still run may.                                                     *)
(*                                                                         *)
(* What the mutex guards is one step.  The semaphore is posted inside such *)
(* a step, and who is woken by it needs the mutex to go on.                *)
(***************************************************************************)
EXTENDS Integers, Sequences, FiniteSets

CONSTANTS
    Workers,          \* the threads of the pool
    Jobs,             \* the thread_job_t, each added at most once
    NULL

ASSUME WorkersAssumption == IsFiniteSet(Workers)
ASSUME NullAssumption == NULL \notin Jobs

VARIABLES
    head, tail, number,   \* the fields of thread_job_queue
    prev, next,           \* the links of each job
    sem,                  \* the count of queueSem
    keepAlive,            \* threadPool_keepAlive
    wpc, job,             \* per worker: where it is, and its local job
    dpc, posts,           \* where destroy is, and the sem_posts it has made
    heap,                 \* the jobs allocated and not yet freed
    crashed,              \* a NULL pointer was followed
    added, taken, fifo    \* history: the jobs added and taken, in order, and
                          \* those added and never taken

queueVars == <<head, tail, number, prev, next, sem>>
workerVars == <<wpc, job>>
destroyVars == <<keepAlive, dpc, posts>>
historyVars == <<added, taken, fifo>>
vars == <<queueVars, workerVars, destroyVars, heap, crashed, historyVars>>

Pointer == Jobs \cup {NULL}

TypeOK ==
    /\ head \in Pointer /\ tail \in Pointer
    /\ number \in Nat
    /\ prev \in [Jobs -> Pointer] /\ next \in [Jobs -> Pointer]
    /\ sem \in Nat
    /\ keepAlive \in BOOLEAN
    /\ wpc \in [Workers -> {"while", "wait", "test", "take", "run", "gone"}]
    /\ job \in [Workers -> Pointer]
    /\ dpc \in {"up", "posting", "joining", "freed"}
    /\ posts \in Nat
    /\ heap \in SUBSET Jobs
    /\ crashed \in BOOLEAN
    /\ added \in Seq(Jobs) /\ taken \in Seq(Jobs) /\ fifo \in Seq(Jobs)

(* threadPool_init: the workers are created after queue and semaphore. *)
Init ==
    /\ head = NULL /\ tail = NULL /\ number = 0
    /\ prev = [j \in Jobs |-> NULL] /\ next = [j \in Jobs |-> NULL]
    /\ sem = 0
    /\ keepAlive = TRUE
    /\ wpc = [w \in Workers |-> "while"]
    /\ job = [w \in Workers |-> NULL]
    /\ dpc = "up" /\ posts = 0
    /\ heap = {}
    /\ crashed = FALSE
    /\ added = <<>> /\ taken = <<>> /\ fifo = <<>>

At(place) == {w \in Workers : wpc[w] = place}
Posted == {added[i] : i \in DOMAIN added}

------------------------------------------------------------------------------
(* The list: jobs enter at the head and leave at the tail. *)

(* Mutant: the link back from the old head is missing. *)
jobQueue_add_OneWay(j) ==
    /\ head' = j
    /\ tail' = IF number = 0 THEN j ELSE tail
    /\ next' = [next EXCEPT ![j] = head]
    /\ prev' = [prev EXCEPT ![j] = NULL]
    /\ number' = number + 1
    /\ sem' = sem + 1

(* Mutant: the semaphore is posted for the first job of the list only. *)
jobQueue_add_PostsOnce(j) ==
    /\ head' = j
    /\ tail' = IF number = 0 THEN j ELSE tail
    /\ next' = [next EXCEPT ![j] = IF number = 0 THEN NULL ELSE head]
    /\ prev' = IF number = 0
               THEN [prev EXCEPT ![j] = NULL]
               ELSE [prev EXCEPT ![j] = NULL, ![head] = j]
    /\ number' = number + 1
    /\ sem' = IF number = 0 THEN sem + 1 ELSE sem

(* Mutant: the semaphore is posted by one too many for the first job. *)
jobQueue_add_PostsTwice(j) ==
    /\ head' = j
    /\ tail' = IF number = 0 THEN j ELSE tail
    /\ next' = [next EXCEPT ![j] = IF number = 0 THEN NULL ELSE head]
    /\ prev' = IF number = 0
               THEN [prev EXCEPT ![j] = NULL]
               ELSE [prev EXCEPT ![j] = NULL, ![head] = j]
    /\ number' = number + 1
    /\ sem' = IF number = 0 THEN sem + 2 ELSE sem + 1

jobQueue_add(j) ==
    /\ head' = j
    /\ tail' = IF number = 0 THEN j ELSE tail
    /\ next' = [next EXCEPT ![j] = IF number = 0 THEN NULL ELSE head]
    /\ prev' = IF number = 0
               THEN [prev EXCEPT ![j] = NULL]
               ELSE [prev EXCEPT ![j] = NULL, ![head] = j]
    /\ number' = number + 1
    /\ sem' = sem + 1

(* Mutant: the job is left in the list. *)
jobQueue_removeLast_Keeps ==
    /\ number' = number - 1
    /\ UNCHANGED <<head, tail, prev, next>>

jobQueue_removeLast ==
    /\ \/ /\ number = 1
          /\ head' = NULL /\ tail' = NULL
          /\ UNCHANGED next
       \/ /\ number > 1
          /\ tail' = prev[tail]
          /\ next' = [next EXCEPT ![prev[tail]] = NULL]
          /\ UNCHANGED head
    /\ number' = number - 1
    /\ UNCHANGED prev

(* The jobs that jobQueue_empty frees: number of them, from the tail. *)
Listed ==
    LET node[i \in 1 .. number] == IF i = 1 THEN tail ELSE prev[node[i - 1]]
    IN  {node[i] : i \in 1 .. number}

------------------------------------------------------------------------------
(* threadPool_add_work: by the thread that runs the reactor, or by a job. *)

add_work(j) ==
    /\ j \notin Posted
    /\ heap' = heap \cup {j}
    /\ jobQueue_add(j)
    /\ added' = Append(added, j)
    /\ fifo' = Append(fifo, j)
    /\ UNCHANGED <<workerVars, destroyVars, crashed, taken>>

AddFromOutside == dpc = "up" /\ \E j \in Jobs : add_work(j)
AddFromJob == At("run") # {} /\ \E j \in Jobs : add_work(j)

------------------------------------------------------------------------------
(* threadPool_job_do, on a worker *)

Goto(w, place) == wpc' = [wpc EXCEPT ![w] = place]

While(w) ==
    /\ wpc[w] = "while"
    /\ Goto(w, IF keepAlive THEN "wait" ELSE "gone")
    /\ UNCHANGED <<queueVars, job, destroyVars, heap, crashed, historyVars>>

SemWait(w) ==
    /\ wpc[w] = "wait"
    /\ sem > 0
    /\ sem' = sem - 1
    /\ Goto(w, "test")
    /\ UNCHANGED <<head, tail, number, prev, next, job, destroyVars, heap, crashed,
                   historyVars>>

TestAgain(w) ==
    /\ wpc[w] = "test"
    /\ Goto(w, IF keepAlive THEN "take" ELSE "while")
    /\ UNCHANGED <<queueVars, job, destroyVars, heap, crashed, historyVars>>

(* job->function is read from what peek returned before anything tells     *)
(* whether the list was empty.                                             *)
TakeNull(w) ==
    /\ wpc[w] = "take"
    /\ tail = NULL
    /\ crashed' = TRUE
    /\ UNCHANGED <<queueVars, workerVars, destroyVars, heap, historyVars>>

(* Mutant: removeLast frees the job it removes, as its comment once had it. *)
Take_Frees(w) ==
    /\ wpc[w] = "take"
    /\ tail # NULL
    /\ job' = [job EXCEPT ![w] = tail]
    /\ jobQueue_removeLast
    /\ Goto(w, "run")
    /\ heap' = heap \ {tail}
    /\ taken' = Append(taken, tail)
    /\ fifo' = Tail(fifo)
    /\ UNCHANGED <<sem, destroyVars, crashed, added>>

Take(w) ==
    /\ wpc[w] = "take"
    /\ tail # NULL
    /\ job' = [job EXCEPT ![w] = tail]
    /\ jobQueue_removeLast
    /\ Goto(w, "run")
    /\ taken' = Append(taken, tail)
    /\ fifo' = Tail(fifo)
    /\ UNCHANGED <<sem, destroyVars, heap, crashed, added>>

(* The function returns and its job is freed. *)
Finish(w) ==
    /\ wpc[w] = "run"
    /\ heap' = heap \ {job[w]}
    /\ job' = [job EXCEPT ![w] = NULL]
    /\ Goto(w, "while")
    /\ UNCHANGED <<queueVars, destroyVars, crashed, historyVars>>

------------------------------------------------------------------------------
(* threadPool_destroy *)

Destroy ==
    /\ dpc = "up"
    /\ keepAlive' = FALSE
    /\ dpc' = "posting"
    /\ UNCHANGED <<queueVars, workerVars, posts, heap, crashed, historyVars>>

(* One for each worker, and one more. *)
PostTimes == Cardinality(Workers) + 1

Post ==
    /\ dpc = "posting"
    /\ IF posts < PostTimes
       THEN sem' = sem + 1 /\ posts' = posts + 1 /\ UNCHANGED dpc
       ELSE dpc' = "joining" /\ UNCHANGED <<sem, posts>>
    /\ UNCHANGED <<head, tail, number, prev, next, workerVars, keepAlive, heap, crashed,
                   historyVars>>

(* After the joins the queue is emptied and everything freed. *)
Joined ==
    /\ dpc = "joining"
    /\ \A w \in Workers : wpc[w] = "gone"
    /\ heap' = heap \ Listed
    /\ head' = NULL /\ tail' = NULL /\ number' = 0
    /\ dpc' = "freed"
    /\ UNCHANGED <<prev, next, sem, workerVars, keepAlive, posts, crashed, historyVars>>

------------------------------------------------------------------------------
WorkerStep(w) ==
    \/ While(w) \/ SemWait(w) \/ TestAgain(w)
    \/ TakeNull(w) \/ Take(w) \/ Finish(w)

Next ==
    /\ ~crashed
    /\ \/ \E w \in Workers : WorkerStep(w)
       \/ AddFromOutside \/ AddFromJob
       \/ Destroy \/ Post \/ Joined

Spec == Init /\ [][Next]_vars

(* The workers are scheduled and jobs return; destroy, once called, goes on. *)
Fairness ==
    /\ \A w \in Workers : WF_vars(~crashed /\ WorkerStep(w))
    /\ WF_vars(~crashed /\ (Post \/ Joined))

FairSpec == Spec /\ Fairness

------------------------------------------------------------------------------
(* While jobs are taken the semaphore and the workers it has let through    *)
(* account for every job of the list, although it is posted and waited for  *)
(* outside the worker's critical section.  Once destroy posts on its own    *)
(* behalf the count says nothing, but whoever still goes for a job finds    *)
(* one.                                                                     *)
TokensMatch ==
    /\ keepAlive => number = sem + Cardinality(At("test")) + Cardinality(At("take"))
    /\ dpc # "freed" => number >= Cardinality(At("take"))

(* No worker follows the NULL that peek returns for an empty list. *)
NoNullJob == ~crashed

(* The two chains of links and both ends describe the jobs that were added *)
(* and not yet taken, oldest at the tail: no job is out of reach of        *)
(* removeLast or of jobQueue_empty, which follow prev.                     *)
WellLinked ==
    dpc # "freed" =>
        /\ number = Len(fifo)
        /\ number = 0 => head = NULL /\ tail = NULL
        /\ number > 0 => tail = fifo[1] /\ head = fifo[number]
                         /\ next[tail] = NULL /\ prev[head] = NULL
        /\ \A i \in 1 .. number - 1 : prev[fifo[i]] = fifo[i + 1]
                                      /\ next[fifo[i + 1]] = fifo[i]

(* Jobs are taken in the order of add_work, none twice and none passed over, *)
(* whichever workers take them.                                              *)
TakenInOrder == added = taken \o fifo

(* A job is freed by the worker that ran it or with the queue, never twice, *)
(* and never while it is in the list or being run; destroy leaves none.     *)
FreedOnce ==
    /\ \A w \in At("run") : job[w] \in heap
    /\ \A v, w \in At("run") : v # w => job[v] # job[w]
    /\ dpc # "freed" => heap = {fifo[i] : i \in DOMAIN fifo} \cup {job[w] : w \in At("run")}
    /\ dpc = "freed" => heap = {}

(* A job that was added is run, or freed by destroy: no worker sleeps over *)
(* a job of the list.  And destroy comes back: no worker stays in sem_wait *)
(* when it joins.                                                          *)
PoolProgresses ==
    /\ \A j \in Jobs : (j \in heap) ~> (j \notin heap)
    /\ (dpc = "posting") ~> (dpc = "freed")
==============================================================================
