------------------------------ MODULE TimerHeap ------------------------------
(***************************************************************************)
(* The timer heap (src/src/Timer.cc): a binary heap in an array that grows,*)
(* under a mutex that add_timer, del_timer and the inside of pop take, and *)
(* that top, tick and empty do not.                                        *)
(*                                                                         *)
(* The mutex allows one operation at a time, so there is one record of     *)
(* where its owner is: at names the place, hole the slot it works at, item *)
(* the timer that add_timer was given, and lo the first slot that the loop *)
(* over percolate_down has reached.  Every iteration of a loop is a step,  *)
(* as the readers without the mutex see what is between them.              *)
(*                                                                         *)
(* One thread calls tick, again and again: tpc is where it is.  It may add *)
(* timers between two ticks, so may callbacks, and so may other threads if *)
(* there are any.                                                          *)
(***************************************************************************)
EXTENDS Integers, Sequences, Functions

CONSTANTS
    Timers,
    expire,           \* when each timer is due
    InitialCap,       \* the cap that the heap is made with
    MaxInitial,       \* bound on the size of the array that it may be made of
    MaxTime,          \* bound on the clock
    NULL

ASSUME ExpireAssumption == expire \in [Timers -> Nat]
ASSUME CapAssumption == InitialCap \in Nat \ {0}
ASSUME InitialAssumption == MaxInitial \in Nat
ASSUME TimeAssumption == MaxTime \in Nat
ASSUME NullAssumption == NULL \notin Timers

VARIABLES
    array, capacity, cur_size,
    freed,            \* array points to memory that resize has deleted
    mutex,            \* who has it: "ctor", "tick", "other", or "free"
    at, hole, lo, item,
    tpc, tmp, cur,    \* the place and the local variables of tick
    now,              \* the clock that time(NULL) reads
    others,           \* other threads use the heap too
    lost,             \* freed memory was used, or a timer deleted twice
    added, deleted,   \* history: the timers given to the heap, and deleted by it
    ran,              \* history: the callbacks called, each with the time of the tick
    overtook          \* history: those that became first between a callback and pop

heapVars == <<array, capacity, cur_size, freed>>
lockVars == <<mutex, at, hole, lo, item>>
tickVars == <<tpc, tmp, cur>>
historyVars == <<added, deleted, ran, overtook>>
vars == <<heapVars, lockVars, tickVars, now, others, lost, historyVars>>

Pointer == Timers \cup {NULL}
InHeap == {array[i] : i \in 0 .. cur_size - 1}
parent(i) == (i - 1) \div 2

TypeOK ==
    /\ capacity \in Nat \ {0} /\ cur_size \in 0 .. capacity
    /\ array \in [0 .. capacity - 1 -> Pointer]
    /\ mutex \in {"ctor", "tick", "other", "free"}
    /\ at \in {"out", "enter", "grow", "up", "move", "down"}
    /\ hole \in Nat /\ lo \in Nat
    /\ item \in Pointer
    /\ tpc \in {"idle", "test", "run", "callback", "pop", "popping", "next"}
    /\ tmp \in Pointer /\ cur \in Nat
    /\ now \in 0 .. MaxTime
    /\ {freed, others, lost} \subseteq BOOLEAN
    /\ added \subseteq Timers /\ deleted \subseteq added /\ overtook \subseteq added
    /\ ran \in Seq(Timers \X Nat)

(* The heap is made empty, or of an array in any order, which the          *)
(* constructor then puts in order.                                         *)
Init ==
    /\ \E n \in 0 .. MaxInitial :
          /\ cur_size = n
          /\ capacity = IF n = 0 THEN InitialCap ELSE n
          /\ array \in [0 .. capacity - 1 -> IF n = 0 THEN {NULL} ELSE Timers]
          /\ \A i, j \in 0 .. n - 1 : i # j => array[i] # array[j]
          /\ mutex = IF n = 0 THEN "free" ELSE "ctor"
          /\ at = IF n = 0 THEN "out" ELSE "down"
          /\ lo = IF n = 0 THEN 0 ELSE (n - 1) \div 2
    /\ hole = lo
    /\ item = NULL
    /\ tpc = "idle" /\ tmp = NULL /\ cur = 0
    /\ now = 0
    /\ others \in BOOLEAN
    /\ freed = FALSE /\ lost = FALSE
    /\ added = InHeap /\ deleted = {} /\ ran = <<>> /\ overtook = {}

------------------------------------------------------------------------------
(* MutexLockGuard *)

Lock(who, place) == mutex = "free" /\ mutex' = who /\ at' = place
Unlock == mutex' = "free" /\ at' = "out"

(* Who may start an operation: the thread of tick, in a callback or between *)
(* two ticks, or another thread.                                            *)
Caller(who) == \/ who = "tick" /\ tpc \in {"idle", "callback"}
               \/ who = "other" /\ others

------------------------------------------------------------------------------
(* add_timer *)

AddTimer(who, timer) ==
    /\ Caller(who)
    /\ timer \notin added
    /\ Lock(who, "enter")
    /\ item' = timer
    /\ added' = added \cup {timer}
    /\ UNCHANGED <<heapVars, hole, lo, tickVars, now, others, lost, deleted, ran, overtook>>

(* resize: the old array is deleted, and then the pointer to it replaced. *)
ResizeDelete ==
    /\ at = "enter" /\ cur_size >= capacity
    /\ freed' = TRUE
    /\ at' = "grow"
    /\ UNCHANGED <<array, capacity, cur_size, mutex, hole, lo, item, tickVars, now, others,
                   lost, historyVars>>

(* Mutant: the new array is as large as the old one. *)
ResizeAssign_SameSize ==
    /\ at = "grow"
    /\ freed' = FALSE
    /\ at' = "up" /\ hole' = cur_size /\ cur_size' = cur_size + 1
    /\ UNCHANGED <<array, capacity, mutex, lo, item, tickVars, now, others, lost, historyVars>>

(* Mutant: array goes on pointing to what was deleted. *)
ResizeAssign_KeepsOld ==
    /\ at = "grow"
    /\ array' = [i \in 0 .. 2 * capacity - 1 |-> IF i < cur_size THEN array[i] ELSE NULL]
    /\ capacity' = 2 * capacity
    /\ at' = "enter"
    /\ UNCHANGED <<cur_size, freed, mutex, hole, lo, item, tickVars, now, others, lost,
                   historyVars>>

ResizeAssign ==
    /\ at = "grow"
    /\ array' = [i \in 0 .. 2 * capacity - 1 |-> IF i < cur_size THEN array[i] ELSE NULL]
    /\ capacity' = 2 * capacity
    /\ freed' = FALSE
    /\ at' = "enter"
    /\ UNCHANGED <<cur_size, mutex, hole, lo, item, tickVars, now, others, lost, historyVars>>

TakeHole ==
    /\ at = "enter" /\ cur_size < capacity
    /\ hole' = cur_size
    /\ cur_size' = cur_size + 1
    /\ at' = "up"
    /\ UNCHANGED <<array, capacity, freed, mutex, lo, item, tickVars, now, others, lost,
                   historyVars>>

(* Mutant: off by one, no timer rises to the first slot. *)
Rises_NotToFirst == hole > 1 /\ expire[array[parent(hole)]] > expire[item]

Rises == hole > 0 /\ expire[array[parent(hole)]] > expire[item]

PercolateUp ==
    /\ at = "up" /\ Rises
    /\ array' = [array EXCEPT ![hole] = array[parent(hole)]]
    /\ hole' = parent(hole)
    /\ UNCHANGED <<capacity, cur_size, freed, mutex, at, lo, item, tickVars, now, others, lost,
                   historyVars>>

PlaceTimer ==
    /\ at = "up" /\ ~Rises
    /\ array' = [array EXCEPT ![hole] = item]
    /\ Unlock
    /\ overtook' = IF hole = 0 /\ tpc \in {"callback", "pop", "popping"}
                   THEN overtook \cup {item} ELSE overtook
    /\ UNCHANGED <<capacity, cur_size, freed, hole, lo, item, tickVars, now, others, lost,
                   added, deleted, ran>>

------------------------------------------------------------------------------
(* percolate_down, once for pop and from the middle down to 0 for          *)
(* del_timer and for the constructor.                                      *)

(* Mutant: the left child is taken even when the right one is due earlier. *)
Child_Left == 2 * hole + 1

(* The child that is due first. *)
Child ==
    LET left == 2 * hole + 1
    IN  IF left + 1 < cur_size /\ expire[array[left + 1]] < expire[array[left]]
        THEN left + 1 ELSE left

Sinks == 2 * hole + 1 < cur_size /\ expire[array[Child]] < expire[array[hole]]

PercolateDown ==
    /\ at = "down" /\ Sinks
    /\ array' = [array EXCEPT ![hole] = array[Child], ![Child] = array[hole]]
    /\ hole' = Child
    /\ UNCHANGED <<capacity, cur_size, freed, mutex, at, lo, item, tickVars, now, others, lost,
                   historyVars>>

(* pop ends where percolate_down does: its loop began at 0. *)
PercolatedDown ==
    /\ at = "down" /\ ~Sinks
    /\ IF lo = 0
       THEN /\ Unlock
            /\ tpc' = IF mutex = "tick" /\ tpc = "popping" THEN "next" ELSE tpc
            /\ UNCHANGED <<hole, lo>>
       ELSE /\ lo' = lo - 1
            /\ hole' = lo - 1
            /\ UNCHANGED <<mutex, at, tpc>>
    /\ UNCHANGED <<heapVars, item, tmp, cur, now, others, lost, historyVars>>

(* del_timer deletes nothing; it puts the heap in order. *)
DelTimer(who) ==
    /\ Caller(who)
    /\ Lock(who, "down")
    /\ lo' = IF cur_size = 0 THEN 0 ELSE (cur_size - 1) \div 2
    /\ hole' = lo'
    /\ UNCHANGED <<heapVars, item, tickVars, now, others, lost, historyVars>>

------------------------------------------------------------------------------
(* tick.  It reads array[0] and the timer there without the mutex.         *)

Misuse(ptr) == ptr \in deleted
Lose == lost' = TRUE /\ UNCHANGED <<heapVars, lockVars, tickVars, now, others, historyVars>>

TickStart ==
    /\ tpc = "idle" /\ mutex \notin {"ctor", "tick"} /\ ~freed
    /\ tmp' = array[0]
    /\ cur' = now
    /\ tpc' = "test"
    /\ UNCHANGED <<heapVars, lockVars, now, others, lost, historyVars>>

(* Mutant: whatever is first is due. *)
Due_Always == tmp # NULL

Due == tmp # NULL /\ expire[tmp] <= cur

TickTest ==
    /\ tpc = "test" /\ (cur_size > 0 => ~Misuse(tmp))
    /\ tpc' = IF cur_size > 0 /\ Due THEN "run" ELSE "idle"
    /\ UNCHANGED <<heapVars, lockVars, tmp, cur, now, others, lost, historyVars>>

(* The callback of array[0], which need not be tmp any more. *)
TickRun ==
    /\ tpc = "run" /\ ~freed /\ ~Misuse(array[0])
    /\ ran' = Append(ran, <<array[0], cur>>)
    /\ tpc' = "callback"
    /\ UNCHANGED <<heapVars, lockVars, tmp, cur, now, others, lost, added, deleted, overtook>>

CallbackReturns ==
    /\ tpc = "callback" /\ mutex # "tick"
    /\ tpc' = "pop"
    /\ UNCHANGED <<heapVars, lockVars, tmp, cur, now, others, lost, historyVars>>

(* pop tests for an empty heap before it takes the mutex. *)
PopTest ==
    /\ tpc = "pop"
    /\ tpc' = IF cur_size = 0 THEN "next" ELSE "popping"
    /\ UNCHANGED <<heapVars, lockVars, tmp, cur, now, others, lost, historyVars>>

PopDelete ==
    /\ tpc = "popping" /\ array[0] # NULL
    /\ Lock("tick", "move")
    /\ deleted' = deleted \cup {array[0]}
    /\ UNCHANGED <<heapVars, hole, lo, item, tickVars, now, others, lost, added, ran, overtook>>

PopMove ==
    /\ at = "move"
    /\ cur_size' = cur_size - 1
    /\ array' = [array EXCEPT ![0] = array[cur_size - 1]]
    /\ at' = "down" /\ hole' = 0 /\ lo' = 0
    /\ UNCHANGED <<capacity, freed, mutex, item, tickVars, now, others, lost, historyVars>>

TickNext ==
    /\ tpc = "next" /\ ~freed
    /\ tmp' = array[0]
    /\ tpc' = "test"
    /\ UNCHANGED <<heapVars, lockVars, cur, now, others, lost, historyVars>>

(* What a read of freed memory gives is anything. *)
TickMisuses ==
    /\ \/ tpc \in {"idle", "next"} /\ mutex # "tick" /\ freed
       \/ tpc = "test" /\ cur_size > 0 /\ Misuse(tmp)
       \/ tpc = "run" /\ (freed \/ Misuse(array[0]))
    /\ Lose

Clock ==
    /\ now < MaxTime
    /\ now' = now + 1
    /\ UNCHANGED <<heapVars, lockVars, tickVars, others, lost, historyVars>>

------------------------------------------------------------------------------
Next ==
    /\ ~lost
    /\ \/ \E who \in {"tick", "other"} :
             DelTimer(who) \/ \E timer \in Timers : AddTimer(who, timer)
       \/ ResizeDelete \/ ResizeAssign \/ TakeHole \/ PercolateUp \/ PlaceTimer
       \/ PercolateDown \/ PercolatedDown
       \/ TickStart \/ TickTest \/ TickRun \/ CallbackReturns
       \/ PopTest \/ PopDelete \/ PopMove \/ TickNext \/ TickMisuses
       \/ Clock

Spec == Init /\ [][Next]_vars

------------------------------------------------------------------------------
(* Whenever the mutex is free, the array is a heap: no timer is due before  *)
(* its parent, so array[0] is due first; and it holds every timer that was  *)
(* added and not deleted, once.  Adding, removing, growing and putting in   *)
(* order leave it so, whatever is read meanwhile.                           *)
HeapIntact ==
    mutex = "free" =>
        /\ \A i \in 1 .. cur_size - 1 : expire[array[parent(i)]] <= expire[array[i]]
        /\ \A i, j \in 0 .. cur_size - 1 : i # j => array[i] # array[j]
        /\ InHeap = added \ deleted

(* tick deletes what it has run: the timer that pop removes was called back *)
(* before, unless another one became first in between.  And without other   *)
(* threads no timer is called back before it is due.                        *)
RunsWhatItDeletes ==
    /\ deleted \subseteq {ran[i][1] : i \in DOMAIN ran} \cup overtook
    /\ others \/ \A i \in DOMAIN ran : expire[ran[i][1]] <= ran[i][2]

(* A heap used by one thread never reads what it has deleted, although tick *)
(* keeps array[0] in tmp over callbacks that may make the array grow, and   *)
(* pop leaves a pointer to a deleted timer in the first slot.               *)
SafeAlone == lost => others

(* The timers that have reached the array and have not been deleted. *)
Held == (added \ deleted) \ (IF at \in {"enter", "grow", "up"} THEN {item} ELSE {})

Queue == INSTANCE TimerQueue WITH queue <- Held, removed <- deleted

(* The heap is a queue of timers: what pop deletes is due no later than any *)
(* timer then in the array, whatever was added, and wherever the array grew *)
(* or was put in order, before; and a timer that add_timer has put in place *)
(* is lost by nothing but pop.                                              *)
IsTimerQueue == Queue!Spec
==============================================================================
