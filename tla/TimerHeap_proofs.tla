-------------------------- MODULE TimerHeap_proofs --------------------------
(* Safety of the timer heap, and that it implements the TimerQueue, for    *)
(* any timers, any expiry times, any initial array and capacity, and with  *)
(* and without other threads.                                              *)
EXTENDS TimerHeap, SequenceTheorems, WellFoundedInduction, TLAPS

(* The timer in slot i, if the one that add_timer carries were in its hole. *)
Entry(i) == IF at = "up" /\ i = hole THEN item ELSE array[i]

due(i) == expire[Entry(i)]

Slots == 0 .. cur_size - 1
Below == 1 .. cur_size - 1

(* tick has the mutex, for pop. *)
Popping == mutex = "tick" /\ tpc = "popping"

(* Who is where: the mutex, its owner's place and the place of tick. *)
LockInv ==
    /\ mutex = "free" <=> at = "out"
    /\ mutex = "ctor" => at = "down" /\ tpc = "idle"
    /\ mutex = "tick" => tpc \in {"idle", "callback", "popping"}
    /\ mutex = "other" => others
    /\ Popping => at \in {"move", "down"}
    /\ at = "move" => Popping
    /\ at \in {"enter", "grow", "up"} => mutex # "ctor" /\ item \in added \ deleted
    /\ freed <=> at = "grow"

(* What is in the array, slot by slot and as a set. *)
ContentInv ==
    /\ \A i \in Slots : Entry(i) \in Timers
    /\ \A i, j \in Slots : i # j => Entry(i) # Entry(j)
    /\ at \in {"out", "enter", "grow", "down"} => {Entry(i) : i \in Slots} = Held
    /\ at = "up" => hole \in Slots /\ {Entry(i) : i \in Slots} = Held \cup {item}
    /\ at = "move" => /\ cur_size > 0 /\ array[0] \in deleted
                      /\ {Entry(i) : i \in Slots} = Held \cup {array[0]}

(* The order of the heap, and what of it is missing around the hole. *)
OrderInv ==
    /\ at \in {"out", "enter", "grow", "move"} => \A i \in Below : due(parent(i)) <= due(i)
    /\ at = "up" =>
          \A i \in Below :
             /\ i # hole => due(parent(i)) <= due(i)
             /\ parent(i) = hole /\ hole > 0 => due(parent(hole)) <= due(i)
    /\ at = "down" =>
          /\ hole >= lo /\ (hole \in Slots \/ hole = 0)
          /\ \A i \in Below :
                /\ parent(i) >= lo /\ parent(i) # hole => due(parent(i)) <= due(i)
                /\ parent(i) = hole /\ hole > 0 /\ parent(hole) >= lo =>
                      due(parent(hole)) <= due(i)
    (* del_timer finds nothing to do. *)
    /\ at = "down" /\ mutex # "ctor" /\ ~Popping => \A i \in Below : due(parent(i)) <= due(i)

(* The first slot, which tick reads without the mutex. *)
FirstInv ==
    IF Held # {} /\ at # "move" THEN array[0] \in Held ELSE array[0] \in deleted \cup {NULL}

(* tick has called the first timer back and not yet deleted it. *)
CalledBack == tpc \in {"callback", "pop"} \/ (tpc = "popping" /\ ~Popping)

Called == {ran[i][1] : i \in DOMAIN ran}

(* What tick may rely on. *)
TickInv ==
    /\ tpc \in {"test", "run"} => tmp \in Held \cup deleted \cup {NULL}
    /\ tpc = "run" \/ CalledBack => Held # {}
    /\ CalledBack => array[0] \in Called \cup overtook
    /\ ~others /\ tpc \in {"test", "run"} => tmp = array[0]
    /\ ~others /\ tpc = "run" => expire[tmp] <= cur

HeapInv ==
    /\ TypeOK /\ LockInv /\ ContentInv /\ OrderInv /\ FirstInv /\ TickInv
    /\ RunsWhatItDeletes /\ SafeAlone

------------------------------------------------------------------------------
(* parent() goes up from every slot but the first, and only the slots      *)
(* 2p + 1 and 2p + 2 have the parent p.                                    *)
LEMMA ParentFacts ==
    ASSUME NEW i \in Nat, i # 0
    PROVE  /\ parent(i) \in Nat /\ parent(i) < i
           /\ i = 2 * parent(i) + 1 \/ i = 2 * parent(i) + 2
  BY DEF parent

(* The slots 2p + 1 and 2p + 2 have the parent p. *)
LEMMA ParentOf ==
    ASSUME NEW p \in Nat
    PROVE  parent(2 * p + 1) = p /\ parent(2 * p + 2) = p
  BY DEF parent

(* The loops of del_timer and the constructor begin at the last parent. *)
LEMMA LastParent ==
    ASSUME NEW n \in Nat, NEW i \in 1 .. n - 1
    PROVE  /\ (n - 1) \div 2 \in 0 .. n - 1
           /\ parent(i) >= (n - 1) \div 2 => parent(i) = (n - 1) \div 2
  BY DEF parent

(* The slots are within the array, and hold timers with an expiry. *)
LEMMA SlotFacts ==
    ASSUME TypeOK, ContentInv
    PROVE  /\ cur_size \in Nat /\ capacity \in Nat /\ cur_size <= capacity /\ capacity > 0
           /\ Slots \subseteq 0 .. capacity - 1 /\ 0 \in 0 .. capacity - 1
           /\ \A i \in Slots : Entry(i) \in Timers /\ due(i) \in Nat
           /\ \A i \in Below : i \in Slots /\ i \in Nat /\ i # 0 /\ parent(i) \in Slots
                               /\ parent(i) \in Nat /\ parent(i) # i
  <1>1. cur_size \in Nat /\ capacity \in Nat /\ cur_size <= capacity /\ capacity > 0
    BY DEF TypeOK
  <1>2. Slots \subseteq 0 .. capacity - 1 /\ 0 \in 0 .. capacity - 1
    BY <1>1 DEF Slots
  <1>3. ASSUME NEW i \in Slots
        PROVE  Entry(i) \in Timers /\ due(i) \in Nat
    BY ExpireAssumption DEF ContentInv, due
  <1>4. ASSUME NEW i \in Below
        PROVE  i \in Slots /\ i \in Nat /\ i # 0 /\ parent(i) \in Slots
               /\ parent(i) \in Nat /\ parent(i) # i
    <2>1. i \in Slots /\ i \in Nat /\ i # 0
      BY <1>1 DEF Slots, Below
    <2>2. parent(i) \in Nat /\ parent(i) < i
      BY <2>1, ParentFacts
    <2> QED BY <1>1, <2>1, <2>2 DEF Slots, Below
  <1> QED BY <1>1, <1>2, <1>3, <1>4

(* Child is the child of the hole that is due first; a timer that does not *)
(* sink is due before its children.                                        *)
LEMMA ChildFacts ==
    ASSUME TypeOK, ContentInv, at = "down", hole \in Slots
    PROVE  /\ Sinks => /\ Child \in Below /\ Child \in Slots /\ parent(Child) = hole
                       /\ due(Child) < due(hole)
                       /\ \A i \in Below : parent(i) = hole => due(Child) <= due(i)
           /\ ~Sinks => \A i \in Below : parent(i) = hole => due(hole) <= due(i)
  <1> DEFINE left == 2 * hole + 1
             right == 2 * hole + 2
  <1>1. /\ hole \in Nat /\ cur_size \in Nat /\ left \in Nat /\ right \in Nat /\ left + 1 = right
        /\ \A i \in Slots : due(i) \in Nat /\ due(i) = expire[array[i]]
    BY SlotFacts DEF TypeOK, due, Entry
  <1>2. parent(left) = hole /\ parent(right) = hole
    BY <1>1, ParentOf
  <1>3. \A i \in Below : parent(i) = hole => i = left \/ i = right
    <2> SUFFICES ASSUME NEW i \in Below, parent(i) = hole
                 PROVE  i = left \/ i = right
      OBVIOUS
    <2>1. i \in Nat /\ i # 0
      BY SlotFacts
    <2> QED BY <2>1, ParentFacts
  <1>4. \A i \in {left, right} : i < cur_size => i \in Below /\ i \in Slots
    BY <1>1 DEF Below, Slots
  <1>5. Child = IF right < cur_size /\ expire[array[right]] < expire[array[left]]
                THEN right ELSE left
    BY <1>1 DEF Child
  <1>6. Sinks <=> left < cur_size /\ expire[array[Child]] < expire[array[hole]]
    BY DEF Sinks
  <1>7. right < cur_size => left < cur_size
    BY <1>1
  <1>8. \A i \in Below : i < cur_size /\ i \in Slots
    BY <1>1 DEF Below, Slots
  <1> HIDE DEF left, right
  <1>9. CASE left < cur_size
    <2>1. Child \in {left, right} /\ Child < cur_size
      BY <1>5, <1>9
    <2>2. Child \in Below /\ Child \in Slots /\ parent(Child) = hole
      BY <1>2, <1>4, <2>1
    <2>3. \A i \in Below : parent(i) = hole => due(Child) <= due(i)
      <3> SUFFICES ASSUME NEW i \in Below, parent(i) = hole
                   PROVE  due(Child) <= due(i)
        OBVIOUS
      <3>1. (i = left \/ i = right) /\ i < cur_size /\ i \in Slots /\ left \in Slots
        BY <1>3, <1>4, <1>8, <1>9
      <3>2. due(i) = expire[array[i]] /\ due(i) \in Nat /\ due(left) = expire[array[left]]
            /\ due(left) \in Nat /\ due(Child) = expire[array[Child]] /\ due(Child) \in Nat
        BY <1>1, <2>2, <3>1
      <3> QED BY <1>5, <3>1, <3>2
    <2>4. due(Child) \in Nat /\ due(hole) \in Nat /\ (Sinks <=> due(Child) < due(hole))
      BY <1>1, <1>6, <1>9, <2>2
    <2>5. ASSUME ~Sinks, NEW i \in Below, parent(i) = hole
          PROVE  due(hole) <= due(i)
      <3>1. due(Child) <= due(i) /\ due(i) \in Nat
        BY <1>1, <1>8, <2>3, <2>5
      <3> QED BY <2>4, <2>5, <3>1
    <2> QED BY <2>2, <2>3, <2>4, <2>5
  <1>10. CASE ~(left < cur_size)
    BY <1>3, <1>6, <1>7, <1>8, <1>10
  <1> QED BY <1>9, <1>10

(* With the mutex in hand, or free, the first slot holds a timer if any. *)
LEMMA FirstHeld ==
    ASSUME TypeOK, ContentInv, at # "move"
    PROVE  /\ at # "up" => (Held # {} <=> cur_size > 0)
           /\ at # "up" /\ Held # {} => array[0] \in Held
           /\ at = "up" /\ hole # 0 => Held # {} /\ array[0] \in Held
           /\ at = "up" => cur_size > 0
  <1>1. cur_size \in Nat /\ (cur_size > 0 <=> 0 \in Slots) /\ (cur_size = 0 => Slots = {})
    BY SlotFacts DEF Slots
  <1>2. at \in {"out", "enter", "grow", "up", "down"}
    BY DEF TypeOK
  <1>3. CASE at # "up"
    <2>1. {Entry(i) : i \in Slots} = Held /\ Entry(0) = array[0]
      BY <1>2, <1>3 DEF ContentInv, Entry
    <2> QED BY <1>1, <1>3, <2>1
  <1>4. CASE at = "up"
    <2>1. hole \in Slots /\ {Entry(i) : i \in Slots} = Held \cup {item} /\ Entry(hole) = item
      BY <1>4 DEF ContentInv, Entry
    <2>2. cur_size > 0
      BY <1>1, <2>1
    <2>3. ASSUME hole # 0 PROVE array[0] \in Held
      <3>1. Entry(0) = array[0] /\ 0 \in Slots
        BY <1>1, <2>2, <2>3 DEF Entry
      <3>2. Entry(0) # Entry(hole)
        BY <2>1, <2>3, <3>1 DEF ContentInv
      <3> QED BY <2>1, <3>1, <3>2
    <2> QED BY <1>4, <2>2, <2>3
  <1> QED BY <1>3, <1>4

------------------------------------------------------------------------------
(* The heap is made empty, or of any array that the constructor puts in    *)
(* order from its last parent on.                                          *)
LEMMA InitEstablishes == Init => HeapInv
  <1> SUFFICES ASSUME Init PROVE HeapInv
    OBVIOUS
  <1>1. PICK n \in 0 .. MaxInitial :
          /\ cur_size = n
          /\ capacity = IF n = 0 THEN InitialCap ELSE n
          /\ array \in [0 .. capacity - 1 -> IF n = 0 THEN {NULL} ELSE Timers]
          /\ \A i, j \in 0 .. n - 1 : i # j => array[i] # array[j]
          /\ mutex = IF n = 0 THEN "free" ELSE "ctor"
          /\ at = IF n = 0 THEN "out" ELSE "down"
          /\ lo = IF n = 0 THEN 0 ELSE (n - 1) \div 2
    BY DEF Init
  <1>2. /\ hole = lo /\ item = NULL /\ tpc = "idle" /\ tmp = NULL /\ cur = 0 /\ now = 0
        /\ others \in BOOLEAN /\ freed = FALSE /\ lost = FALSE
        /\ added = InHeap /\ deleted = {} /\ ran = <<>> /\ overtook = {}
    BY DEF Init
  <1>3. n \in Nat
    BY InitialAssumption
  <1>4. capacity \in Nat \ {0} /\ n <= capacity /\ (n > 0 => capacity = n)
    BY <1>1, <1>3, CapAssumption
  <1>5. /\ array \in [0 .. capacity - 1 -> Pointer]
        /\ n > 0 => \A i \in 0 .. n - 1 : array[i] \in Timers
    BY <1>1, <1>4 DEF Pointer
  <1>6. added \subseteq Timers /\ (n = 0 => added = {}) /\ added = {array[i] : i \in Slots}
    BY <1>1, <1>2, <1>3, <1>5 DEF InHeap, Slots
  <1>7. lo \in Nat /\ (n > 0 => lo \in 0 .. n - 1)
    <2>1. CASE n = 0
      BY <1>1, <2>1
    <2>2. CASE n # 0
      <3>1. (n - 1) \div 2 \in 0 .. n - 1
        BY <1>3, <2>2
      <3> QED BY <1>1, <2>2, <3>1
    <2> QED BY <2>1, <2>2
  <1>8. TypeOK
    <2>1. ran \in Seq(Timers \X Nat)
      BY <1>2
    <2>2. cur_size \in 0 .. capacity
      BY <1>1, <1>3, <1>4
    <2>3. mutex \in {"free", "ctor"} /\ at \in {"out", "down"}
      BY <1>1
    <2>4. now \in 0 .. MaxTime
      BY <1>2, TimeAssumption
    <2> QED BY <1>2, <1>4, <1>5, <1>6, <1>7, <2>1, <2>2, <2>3, <2>4 DEF TypeOK, Pointer
  <1>9. LockInv
    BY <1>1, <1>2 DEF LockInv, Popping
  <1>10. Held = added /\ \A i : Entry(i) = array[i]
    BY <1>1, <1>2 DEF Held, Entry
  <1>11. ContentInv
    BY <1>1, <1>5, <1>6, <1>10 DEF ContentInv, Slots
  <1>12. OrderInv
    <2>1. CASE n = 0
      <3>1. Below = {}
        BY <1>1, <2>1 DEF Below
      <3> QED BY <1>1, <1>2, <2>1, <3>1 DEF OrderInv
    <2>2. CASE n # 0
      <3>1. at = "down" /\ mutex = "ctor" /\ hole = lo /\ hole \in Slots
        BY <1>1, <1>2, <1>3, <1>7, <2>2 DEF Slots
      <3>2. \A i \in Below : parent(i) >= lo => parent(i) = lo
        BY <1>1, <1>3, <2>2, LastParent DEF Below
      <3>3. hole > 0 => ~(parent(hole) >= lo)
        <4>1. ASSUME hole > 0 PROVE parent(hole) \in Nat /\ parent(hole) < lo
          BY <1>2, <1>7, <4>1, ParentFacts
        <4> QED BY <1>7, <4>1
      <3>4. hole >= lo
        BY <1>2, <1>7
      <3> QED BY <3>1, <3>2, <3>3, <3>4 DEF OrderInv
    <2> QED BY <2>1, <2>2
  <1>13. FirstInv
    <2>1. at # "move" /\ at # "up"
      BY <1>1
    <2>2. Held = {} => array[0] = NULL
      <3>1. n = 0 => array[0] = NULL
        BY <1>1, <1>4
      <3> QED BY <1>1, <1>3, <1>8, <1>11, <2>1, <3>1, FirstHeld
    <2> QED BY <1>8, <1>11, <2>1, <2>2, FirstHeld DEF FirstInv
  <1>14. TickInv /\ RunsWhatItDeletes /\ SafeAlone
    BY <1>2 DEF TickInv, CalledBack, RunsWhatItDeletes, SafeAlone
  <1> QED BY <1>8, <1>9, <1>11, <1>12, <1>13, <1>14 DEF HeapInv

(* A step of tick that takes no mutex disturbs nothing in the heap. *)
LEMMA TickTouchesNothing ==
    ASSUME HeapInv, UNCHANGED <<heapVars, lockVars, others, added, deleted>>,
           mutex = "tick" => tpc' = tpc, mutex = "ctor" => tpc' = "idle"
    PROVE  /\ LockInv' /\ ContentInv' /\ OrderInv' /\ FirstInv'
           /\ Held' = Held /\ Popping' = Popping /\ array' = array /\ mutex' = mutex
  <1> USE DEF heapVars, lockVars
  <1>1. Popping' = Popping /\ (mutex = "tick" => tpc \in {"idle", "callback", "popping"})
    BY DEF HeapInv, LockInv, Popping
  <1>2. LockInv'
    BY <1>1 DEF HeapInv, LockInv
  <1>3. Held' = Held
    BY DEF Held
  <1>4. ContentInv'
    BY <1>3 DEF HeapInv, ContentInv, Entry, Slots
  <1>5. OrderInv'
    BY <1>1 DEF HeapInv, OrderInv, due, Entry, Below, Slots
  <1>6. FirstInv'
    BY <1>3 DEF HeapInv, FirstInv
  <1> QED BY <1>1, <1>2, <1>3, <1>4, <1>5, <1>6

(* tick reads the first slot, when it starts and before every further test. *)
LEMMA ReadPreserves ==
    ASSUME HeapInv, TickStart \/ TickNext
    PROVE  HeapInv'
  <1>1. /\ tpc \in {"idle", "next"} /\ (tpc = "idle" => mutex \notin {"tick", "ctor"})
        /\ tmp' = array[0] /\ tpc' = "test" /\ cur' \in {now, cur}
        /\ UNCHANGED <<heapVars, lockVars, now, others, lost, historyVars>>
    BY DEF TickStart, TickNext
  <1>2. mutex \notin {"tick", "ctor"}
    BY <1>1 DEF HeapInv, LockInv
  <1>3. /\ LockInv' /\ ContentInv' /\ OrderInv' /\ FirstInv'
        /\ Held' = Held /\ Popping' = Popping /\ array' = array /\ mutex' = mutex
    BY <1>1, <1>2, TickTouchesNothing DEF historyVars
  <1>4. array[0] \in Pointer /\ cur' \in Nat
    <2>1. 0 \in 0 .. capacity - 1
      BY SlotFacts DEF HeapInv
    <2>2. now \in Nat
      BY TimeAssumption DEF HeapInv, TypeOK
    <2> QED BY <1>1, <2>1, <2>2 DEF HeapInv, TypeOK
  <1>5. TypeOK'
    BY <1>1, <1>4 DEF HeapInv, TypeOK, heapVars, lockVars, historyVars
  <1>6. TickInv'
    <2>1. array[0] \in Held \cup deleted \cup {NULL}
      BY DEF HeapInv, FirstInv
    <2> QED BY <1>1, <1>3, <2>1 DEF TickInv, CalledBack, historyVars
  <1>7. RunsWhatItDeletes' /\ SafeAlone'
    BY <1>1 DEF HeapInv, RunsWhatItDeletes, SafeAlone, historyVars
  <1> QED BY <1>3, <1>5, <1>6, <1>7 DEF HeapInv

(* What is due is there: tick's test passes for a timer in the heap only. *)
LEMMA TestPreserves ==
    ASSUME HeapInv, TickTest
    PROVE  HeapInv'
  <1>1. /\ tpc = "test" /\ (cur_size > 0 => tmp \notin deleted)
        /\ tpc' = IF cur_size > 0 /\ tmp # NULL /\ expire[tmp] <= cur THEN "run" ELSE "idle"
        /\ UNCHANGED <<heapVars, lockVars, tmp, cur, now, others, lost, historyVars>>
    BY DEF TickTest, Due, Misuse
  <1>2. mutex \notin {"tick", "ctor"}
    BY <1>1 DEF HeapInv, LockInv
  <1>3. /\ LockInv' /\ ContentInv' /\ OrderInv' /\ FirstInv'
        /\ Held' = Held /\ Popping' = Popping /\ array' = array /\ mutex' = mutex
    BY <1>1, <1>2, TickTouchesNothing DEF historyVars
  <1>4. TypeOK'
    BY <1>1 DEF HeapInv, TypeOK, heapVars, lockVars, historyVars
  <1>5. TickInv'
    BY <1>1, <1>3 DEF HeapInv, TickInv, CalledBack, historyVars
  <1>6. RunsWhatItDeletes' /\ SafeAlone'
    BY <1>1 DEF HeapInv, RunsWhatItDeletes, SafeAlone, historyVars
  <1> QED BY <1>3, <1>4, <1>5, <1>6 DEF HeapInv

(* tick calls back the timer that is first at that moment. *)
LEMMA RunPreserves ==
    ASSUME HeapInv, TickRun
    PROVE  HeapInv'
  <1>1. /\ tpc = "run" /\ array[0] \notin deleted
        /\ ran' = Append(ran, <<array[0], cur>>) /\ tpc' = "callback"
        /\ UNCHANGED <<heapVars, lockVars, tmp, cur, now, others, lost, added, deleted,
                       overtook>>
    BY DEF TickRun, Misuse
  <1>2. mutex \notin {"tick", "ctor"}
    BY <1>1 DEF HeapInv, LockInv
  <1>3. /\ LockInv' /\ ContentInv' /\ OrderInv' /\ FirstInv'
        /\ Held' = Held /\ Popping' = Popping /\ array' = array /\ mutex' = mutex
    BY <1>1, <1>2, TickTouchesNothing
  <1>4. Held # {} /\ array[0] \in Held
    <2>1. Held # {}
      BY <1>1 DEF HeapInv, TickInv
    <2>2. at # "move"
      BY <1>2 DEF HeapInv, LockInv, Popping
    <2> QED BY <2>1, <2>2 DEF HeapInv, FirstInv
  <1>5. <<array[0], cur>> \in Timers \X Nat
    BY <1>4 DEF HeapInv, TypeOK, Held
  <1>6. /\ ran' \in Seq(Timers \X Nat) /\ Len(ran) \in Nat /\ Len(ran') = Len(ran) + 1
        /\ ran'[Len(ran) + 1] = <<array[0], cur>>
        /\ \A i \in 1 .. Len(ran) : ran'[i] = ran[i]
        /\ DOMAIN ran = 1 .. Len(ran) /\ DOMAIN ran' = 1 .. Len(ran')
    <2>1. ran \in Seq(Timers \X Nat)
      BY DEF HeapInv, TypeOK
    <2>2. ran' \in Seq(Timers \X Nat)
      BY <1>1, <1>5, <2>1, AppendProperties
    <2> QED BY <1>1, <1>5, <2>1, <2>2, AppendProperties, LenProperties
  <1>7. /\ \A i \in DOMAIN ran' : \/ ran'[i] = <<array[0], cur>>
                                  \/ i \in DOMAIN ran /\ ran'[i] = ran[i]
        /\ \A i \in DOMAIN ran : i \in DOMAIN ran' /\ ran'[i] = ran[i]
        /\ Len(ran) + 1 \in DOMAIN ran'
    BY <1>6
  <1>8. TypeOK'
    BY <1>1, <1>6 DEF HeapInv, TypeOK, heapVars, lockVars
  <1>9. Called \subseteq Called' /\ array[0] \in Called'
    <2>1. array[0] \in Called'
      <3>1. ran'[Len(ran) + 1][1] = array[0]
        BY <1>6
      <3> QED BY <1>7, <3>1 DEF Called
    <2>2. ASSUME NEW i \in DOMAIN ran PROVE ran[i][1] \in Called'
      BY <1>7 DEF Called
    <2> QED BY <2>1, <2>2 DEF Called
  <1>10. TickInv'
    BY <1>1, <1>3, <1>4, <1>9 DEF HeapInv, TickInv, CalledBack
  <1>11. RunsWhatItDeletes' /\ SafeAlone'
    <2>1. deleted' \subseteq Called' \cup overtook'
      BY <1>1, <1>9 DEF HeapInv, RunsWhatItDeletes, Called
    <2>2. ASSUME ~others, NEW i \in DOMAIN ran'
          PROVE  expire[ran'[i][1]] <= ran'[i][2]
      <3>1. CASE i \in DOMAIN ran /\ ran'[i] = ran[i]
        BY <2>2, <3>1 DEF HeapInv, RunsWhatItDeletes
      <3>2. CASE ran'[i] = <<array[0], cur>>
        <4>1. tmp = array[0] /\ expire[tmp] <= cur
          BY <1>1, <2>2 DEF HeapInv, TickInv
        <4> QED BY <3>2, <4>1
      <3> QED BY <1>7, <3>1, <3>2
    <2> QED BY <1>1, <2>1, <2>2 DEF HeapInv, RunsWhatItDeletes, SafeAlone, Called
  <1> QED BY <1>3, <1>8, <1>10, <1>11 DEF HeapInv

(* The callback returns, and pop sees that the heap is not empty. *)
LEMMA ReturnPreserves ==
    ASSUME HeapInv, CallbackReturns \/ PopTest
    PROVE  HeapInv'
  <1>1. /\ tpc \in {"callback", "pop"} /\ (tpc = "callback" => mutex # "tick" /\ tpc' = "pop")
        /\ tpc = "pop" => tpc' \in {"next", "popping"}
        /\ UNCHANGED <<heapVars, lockVars, tmp, cur, now, others, lost, historyVars>>
    BY DEF CallbackReturns, PopTest
  <1>2. mutex \notin {"tick", "ctor"}
    BY <1>1 DEF HeapInv, LockInv
  <1>3. /\ LockInv' /\ ContentInv' /\ OrderInv' /\ FirstInv'
        /\ Held' = Held /\ Popping' = Popping /\ array' = array /\ mutex' = mutex
    BY <1>1, <1>2, TickTouchesNothing DEF historyVars
  <1>4. TypeOK'
    BY <1>1 DEF HeapInv, TypeOK, heapVars, lockVars, historyVars
  <1>5. TickInv'
    BY <1>1, <1>3 DEF HeapInv, TickInv, CalledBack, Called, historyVars
  <1>6. RunsWhatItDeletes' /\ SafeAlone'
    BY <1>1 DEF HeapInv, RunsWhatItDeletes, SafeAlone, historyVars
  <1> QED BY <1>3, <1>4, <1>5, <1>6 DEF HeapInv

(* Without other threads tick reads no freed array and no deleted timer. *)
LEMMA MisusePreserves ==
    ASSUME HeapInv, TickMisuses
    PROVE  HeapInv'
  <1>1. /\ lost' = TRUE
        /\ UNCHANGED <<heapVars, lockVars, tickVars, now, others, historyVars>>
        /\ \/ tpc \in {"idle", "next"} /\ mutex # "tick" /\ freed
           \/ tpc = "test" /\ cur_size > 0 /\ tmp \in deleted
           \/ tpc = "run" /\ (freed \/ array[0] \in deleted)
    BY DEF TickMisuses, Lose, Misuse
  <1>2. /\ LockInv' /\ ContentInv' /\ OrderInv' /\ FirstInv'
        /\ Held' = Held /\ Popping' = Popping /\ array' = array /\ mutex' = mutex
    BY <1>1, TickTouchesNothing DEF historyVars, tickVars, HeapInv, LockInv
  <1>3. TypeOK'
    BY <1>1 DEF HeapInv, TypeOK, heapVars, lockVars, tickVars, historyVars
  <1>4. TickInv' /\ RunsWhatItDeletes'
    BY <1>1, <1>2
       DEF HeapInv, TickInv, CalledBack, Called, RunsWhatItDeletes, tickVars, historyVars
  <1>5. ASSUME ~others PROVE FALSE
    <2>1. mutex \notin {"tick", "other"}
      BY <1>1, <1>5 DEF HeapInv, LockInv
    <2>2. ~freed /\ at \notin {"move", "up"}
      BY <2>1 DEF HeapInv, LockInv, Popping, TypeOK
    <2>3. tpc \in {"test", "run"} /\ array[0] \in deleted
      <3>1. tpc = "test" => tmp = array[0]
        BY <1>5 DEF HeapInv, TickInv
      <3> QED BY <1>1, <2>2, <3>1
    <2>4. cur_size > 0
      <3>1. tpc = "run" => Held # {}
        BY DEF HeapInv, TickInv
      <3> QED BY <1>1, <2>2, <2>3, <3>1, FirstHeld DEF HeapInv
    <2>5. array[0] \in Held
      BY <2>2, <2>4, FirstHeld DEF HeapInv
    <2> QED BY <2>3, <2>5 DEF Held
  <1>6. SafeAlone'
    BY <1>1, <1>5 DEF SafeAlone
  <1> QED BY <1>2, <1>3, <1>4, <1>6 DEF HeapInv

(* The clock disturbs nothing. *)
LEMMA ClockPreserves ==
    ASSUME HeapInv, Clock
    PROVE  HeapInv'
  <1>1. now < MaxTime /\ now' = now + 1
        /\ UNCHANGED <<heapVars, lockVars, tickVars, others, lost, historyVars>>
    BY DEF Clock
  <1>2. /\ LockInv' /\ ContentInv' /\ OrderInv' /\ FirstInv'
        /\ Held' = Held /\ Popping' = Popping /\ array' = array /\ mutex' = mutex
    BY <1>1, TickTouchesNothing DEF historyVars, tickVars, HeapInv, LockInv
  <1>3. now' \in 0 .. MaxTime
    BY <1>1, TimeAssumption DEF HeapInv, TypeOK
  <1>4. TypeOK'
    BY <1>1, <1>3 DEF HeapInv, TypeOK, heapVars, lockVars, tickVars, historyVars
  <1>5. TickInv' /\ RunsWhatItDeletes' /\ SafeAlone'
    BY <1>1, <1>2
       DEF HeapInv, TickInv, CalledBack, Called, RunsWhatItDeletes, SafeAlone, tickVars,
           historyVars
  <1> QED BY <1>2, <1>4, <1>5 DEF HeapInv

------------------------------------------------------------------------------
(* What tick knows survives a step of the heap that keeps the first slot    *)
(* and the timers held, whoever has the mutex.                             *)
LEMMA HeapStepKeepsTick ==
    ASSUME HeapInv, UNCHANGED <<tickVars, others, lost, deleted, ran, overtook>>,
           Held' = Held, Popping' = Popping, array'[0] = array[0]
    PROVE  TickInv' /\ RunsWhatItDeletes' /\ SafeAlone'
  <1>1. TickInv'
    BY DEF HeapInv, TickInv, CalledBack, Called, tickVars
  <1>2. RunsWhatItDeletes' /\ SafeAlone'
    BY DEF HeapInv, RunsWhatItDeletes, SafeAlone
  <1> QED BY <1>1, <1>2

(* add_timer takes the mutex with a timer that is not in the heap. *)
LEMMA AddPreserves ==
    ASSUME HeapInv, NEW who \in {"tick", "other"}, NEW timer \in Timers, AddTimer(who, timer)
    PROVE  HeapInv'
  <1>1. /\ who = "tick" => tpc \in {"idle", "callback"}
        /\ who = "other" => others
        /\ timer \notin added /\ mutex = "free" /\ mutex' = who /\ at' = "enter"
        /\ item' = timer /\ added' = added \cup {timer}
        /\ UNCHANGED <<heapVars, hole, lo, tickVars, now, others, lost, deleted, ran, overtook>>
    BY DEF AddTimer, Caller, Lock
  <1>2. at = "out"
    BY <1>1 DEF HeapInv, LockInv
  <1>3. TypeOK'
    BY <1>1 DEF HeapInv, TypeOK, heapVars, tickVars, Pointer
  <1>4. timer \notin deleted
    BY <1>1 DEF HeapInv, TypeOK
  <1>5. Held' = Held /\ Popping' = Popping /\ ~Popping
    BY <1>1, <1>2, <1>4 DEF Held, Popping, tickVars
  <1>6. LockInv'
    BY <1>1, <1>2, <1>4, <1>5 DEF HeapInv, LockInv, heapVars, tickVars
  <1>7. ContentInv' /\ OrderInv'
    BY <1>1, <1>2, <1>5
       DEF HeapInv, ContentInv, OrderInv, due, Entry, Slots, Below, heapVars
  <1>8. FirstInv'
    BY <1>1, <1>2, <1>5 DEF HeapInv, FirstInv, heapVars
  <1> QED BY <1>1, <1>3, <1>5, <1>6, <1>7, <1>8, HeapStepKeepsTick DEF HeapInv, heapVars

(* del_timer begins at the last parent of a heap that is in order. *)
LEMMA DelPreserves ==
    ASSUME HeapInv, NEW who \in {"tick", "other"}, DelTimer(who)
    PROVE  HeapInv'
  <1>1. /\ who = "tick" => tpc \in {"idle", "callback"}
        /\ who = "other" => others
        /\ mutex = "free" /\ mutex' = who /\ at' = "down"
        /\ lo' = IF cur_size = 0 THEN 0 ELSE (cur_size - 1) \div 2
        /\ hole' = lo'
        /\ UNCHANGED <<heapVars, item, tickVars, now, others, lost, historyVars>>
    BY DEF DelTimer, Caller, Lock
  <1>2. at = "out" /\ cur_size \in Nat
    BY <1>1 DEF HeapInv, LockInv, TypeOK
  <1>3. lo' \in Nat /\ (lo' \in Slots \/ lo' = 0)
    <2>1. CASE cur_size = 0
      BY <1>1, <2>1
    <2>2. CASE cur_size # 0
      <3>1. (cur_size - 1) \div 2 \in 0 .. cur_size - 1
        BY <1>2, <2>2
      <3> QED BY <1>1, <2>2, <3>1 DEF Slots
    <2> QED BY <2>1, <2>2
  <1>4. TypeOK'
    BY <1>1, <1>3 DEF HeapInv, TypeOK, heapVars, tickVars, historyVars
  <1>5. Held' = Held /\ Popping' = Popping /\ ~Popping
    BY <1>1, <1>2 DEF Held, Popping, tickVars, historyVars
  <1>6. LockInv'
    BY <1>1, <1>2, <1>5 DEF HeapInv, LockInv, heapVars, tickVars, historyVars
  <1>7. ContentInv'
    BY <1>1, <1>2, <1>5 DEF HeapInv, ContentInv, Entry, Slots, heapVars
  <1>8. OrderInv'
    <2>1. \A i \in Below : due(parent(i)) <= due(i)
      BY <1>2 DEF HeapInv, OrderInv
    <2>2. /\ \A i \in Below : (due(parent(i)) <= due(i))'
          /\ Below' = Below /\ Slots' = Slots
      BY <1>1, <1>2, <2>1 DEF due, Entry, Below, Slots, heapVars
    <2>3. lo' > 0 => ~(parent(lo') >= lo')
      <3>1. ASSUME lo' > 0 PROVE parent(lo') \in Nat /\ parent(lo') < lo'
        BY <1>3, <3>1, ParentFacts
      <3> QED BY <1>3, <3>1
    <2>4. hole' >= lo'
      BY <1>1, <1>3
    <2> QED BY <1>1, <1>3, <2>2, <2>3, <2>4 DEF OrderInv
  <1>9. FirstInv'
    BY <1>1, <1>2, <1>5 DEF HeapInv, FirstInv, heapVars, historyVars
  <1> QED BY <1>1, <1>4, <1>5, <1>6, <1>7, <1>8, <1>9, HeapStepKeepsTick
          DEF HeapInv, heapVars, historyVars

(* resize deletes the array, and then replaces it by a copy twice as long. *)
LEMMA ResizePreserves ==
    ASSUME HeapInv, ResizeDelete \/ ResizeAssign
    PROVE  HeapInv'
  <1>1. /\ at = "enter" /\ at' = "grow" /\ freed' /\ array' = array /\ capacity' = capacity
        \/ /\ at = "grow" /\ at' = "enter" /\ ~freed'
           /\ array' = [i \in 0 .. 2 * capacity - 1 |-> IF i < cur_size THEN array[i] ELSE NULL]
           /\ capacity' = 2 * capacity
    BY DEF ResizeDelete, ResizeAssign
  <1>2. /\ at \in {"enter", "grow"} /\ at' \in {"enter", "grow"} /\ freed' \in BOOLEAN
        /\ freed' <=> at' = "grow"
        /\ UNCHANGED <<cur_size, mutex, hole, lo, item, tickVars, now, others, lost,
                       historyVars>>
    BY DEF ResizeDelete, ResizeAssign
  <1>3. /\ cur_size \in Nat /\ capacity \in Nat /\ cur_size <= capacity /\ capacity > 0
        /\ array \in [0 .. capacity - 1 -> Pointer]
    BY SlotFacts DEF HeapInv, TypeOK
  <1>4. /\ capacity' \in Nat \ {0} /\ cur_size <= capacity'
        /\ array' \in [0 .. capacity' - 1 -> Pointer]
        /\ \A i \in Slots : array'[i] = array[i]
        /\ cur_size = 0 => array'[0] \in {array[0], NULL}
    <2>1. CASE array' = array /\ capacity' = capacity
      BY <1>3, <2>1
    <2>2. CASE /\ array' = [i \in 0 .. 2 * capacity - 1 |->
                                IF i < cur_size THEN array[i] ELSE NULL]
               /\ capacity' = 2 * capacity
      <3>1. 2 * capacity \in Nat \ {0} /\ cur_size <= 2 * capacity
        BY <1>3
      <3>2. \A i \in 0 .. 2 * capacity - 1 : i < cur_size => i \in 0 .. capacity - 1
        BY <1>3
      <3>3. \A i \in Slots : i \in 0 .. 2 * capacity - 1 /\ i < cur_size
        BY <1>3 DEF Slots
      <3>4. 0 \in 0 .. 2 * capacity - 1
        BY <3>1
      <3> QED BY <1>3, <2>2, <3>1, <3>2, <3>3, <3>4 DEF Pointer
    <2> QED BY <1>1, <2>1, <2>2
  <1>5. TypeOK'
    <2>1. cur_size' \in 0 .. capacity'
      BY <1>2, <1>3, <1>4
    <2> QED BY <1>2, <1>4, <2>1 DEF HeapInv, TypeOK, tickVars, historyVars
  <1>6. Held' = Held /\ Popping' = Popping
    BY <1>2 DEF Held, Popping, tickVars, historyVars
  <1>7. LockInv'
    BY <1>2, <1>6 DEF HeapInv, LockInv, tickVars, historyVars
  <1>8. /\ Slots' = Slots /\ Below' = Below
        /\ \A i \in Slots : Entry(i)' = Entry(i) /\ due(i)' = due(i)
    BY <1>2, <1>4 DEF Slots, Below, Entry, due
  <1>9. ContentInv'
    BY <1>2, <1>6, <1>8 DEF HeapInv, ContentInv
  <1>10. OrderInv'
    <2>1. \A i \in Below : i \in Slots /\ parent(i) \in Slots /\ due(parent(i)) <= due(i)
      BY <1>2, SlotFacts DEF HeapInv, OrderInv
    <2> QED BY <1>2, <1>8, <2>1 DEF OrderInv
  <1>11. /\ Held # {} => array'[0] = array[0] /\ array[0] \in Held
         /\ Held = {} => array'[0] \in {array[0], NULL}
    <2>1. (Held # {} <=> cur_size > 0) /\ (Held # {} => array[0] \in Held)
      BY <1>2, FirstHeld DEF HeapInv
    <2>2. IF cur_size > 0 THEN 0 \in Slots ELSE cur_size = 0
      BY <1>3 DEF Slots
    <2>3. CASE cur_size > 0
      BY <1>4, <2>1, <2>2, <2>3
    <2>4. CASE cur_size = 0
      BY <1>4, <2>1, <2>2, <2>4
    <2> QED BY <2>2, <2>3, <2>4
  <1>12. FirstInv'
    BY <1>2, <1>6, <1>11 DEF HeapInv, FirstInv, historyVars
  <1>13. TickInv'
    <2>1. mutex \in {"tick", "other"} /\ ~Popping
      BY <1>2 DEF HeapInv, LockInv, TypeOK
    <2>2. ~others => tpc \in {"idle", "callback"}
      BY <1>2, <2>1 DEF HeapInv, LockInv, Popping
    <2> QED BY <1>2, <1>6, <1>11, <2>1, <2>2
            DEF HeapInv, TickInv, CalledBack, Called, tickVars, historyVars
  <1>14. RunsWhatItDeletes' /\ SafeAlone'
    BY <1>2 DEF HeapInv, RunsWhatItDeletes, SafeAlone, historyVars
  <1> QED BY <1>5, <1>7, <1>9, <1>10, <1>12, <1>13, <1>14 DEF HeapInv

(* add_timer makes its hole behind the last slot. *)
LEMMA HolePreserves ==
    ASSUME HeapInv, TakeHole
    PROVE  HeapInv'
  <1>1. /\ at = "enter" /\ cur_size < capacity
        /\ hole' = cur_size /\ cur_size' = cur_size + 1 /\ at' = "up"
        /\ UNCHANGED <<array, capacity, freed, mutex, lo, item, tickVars, now, others, lost,
                       historyVars>>
    BY DEF TakeHole
  <1>0. PICK n \in Nat : n = cur_size
    BY DEF HeapInv, TypeOK
  <1>2. capacity \in Nat /\ n \in Slots' /\ Slots' = Slots \cup {n} /\ n \notin Slots
    BY <1>0, <1>1 DEF HeapInv, TypeOK, Slots
  <1>3. TypeOK'
    BY <1>0, <1>1, <1>2 DEF HeapInv, TypeOK, tickVars, historyVars
  <1>4. Held' = Held /\ Popping' = Popping /\ ~Popping /\ item \notin Held
        /\ item \in added \ deleted
    BY <1>1 DEF HeapInv, LockInv, Held, Popping, tickVars, historyVars
  <1>5. LockInv'
    BY <1>1, <1>4 DEF HeapInv, LockInv, tickVars, historyVars
  <1>6. Entry(n)' = item /\ \A i \in Slots : Entry(i)' = Entry(i)
    BY <1>0, <1>1, <1>2 DEF Entry
  <1>7. ContentInv'
    <2>1. {Entry(i) : i \in Slots} = Held
      BY <1>1 DEF HeapInv, ContentInv
    <2>2. \A i \in Slots : Entry(i) \in Timers /\ Entry(i) \in Held
      BY <2>1 DEF HeapInv, ContentInv
    <2>3. \A i \in Slots' : Entry(i)' \in Timers
      BY <1>2, <1>4, <1>6, <2>2 DEF HeapInv, TypeOK
    <2>4. \A i, j \in Slots' : i # j => Entry(i)' # Entry(j)'
      BY <1>2, <1>4, <1>6, <2>2 DEF HeapInv, ContentInv
    <2>5. {Entry(i)' : i \in Slots'} = Held \cup {item}
      BY <1>2, <1>6, <2>1
    <2> QED BY <1>0, <1>1, <1>2, <1>4, <2>3, <2>4, <2>5 DEF ContentInv
  <1>8. OrderInv'
    <2>1. \A i \in Below : i \in Slots /\ parent(i) \in Slots /\ due(parent(i)) <= due(i)
      BY <1>1, SlotFacts DEF HeapInv, OrderInv
    <2>2. \A i \in Below : due(i)' = due(i) /\ due(parent(i))' = due(parent(i))
      BY <1>6, <2>1 DEF due
    <2>3. \A i \in Below' : i \in Nat /\ i # 0 /\ i <= n /\ (i # n => i \in Below)
      BY <1>0, <1>1 DEF Below
    <2>4. \A i \in Below' : parent(i) # n
      <3> SUFFICES ASSUME NEW i \in Below' PROVE parent(i) # n
        OBVIOUS
      <3>1. parent(i) \in Nat /\ parent(i) < i /\ i <= n /\ i \in Nat
        BY <2>3, ParentFacts
      <3> QED BY <3>1
    <2>5. \A i \in Below' : i # hole' => (due(parent(i)) <= due(i))'
      BY <1>0, <1>1, <2>1, <2>2, <2>3
    <2> QED BY <1>0, <1>1, <2>4, <2>5 DEF OrderInv
  <1>9. FirstInv'
    BY <1>1, <1>4 DEF HeapInv, FirstInv, historyVars
  <1> QED BY <1>1, <1>3, <1>4, <1>5, <1>7, <1>8, <1>9, HeapStepKeepsTick DEF HeapInv, historyVars

(* percolate_up swaps the hole with its parent; below, the timers were due *)
(* after that parent already.                                              *)
LEMMA UpPreserves ==
    ASSUME HeapInv, PercolateUp
    PROVE  HeapInv'
  <1>1. /\ at = "up" /\ hole > 0 /\ expire[array[parent(hole)]] > expire[item]
        /\ array' = [array EXCEPT ![hole] = array[parent(hole)]]
        /\ hole' = parent(hole)
        /\ UNCHANGED <<capacity, cur_size, freed, mutex, at, lo, item, tickVars, now, others,
                       lost, historyVars>>
    BY DEF PercolateUp, Rises
  <1>2. PICK h \in Nat, p \in Nat : h = hole /\ p = parent(hole)
    <2>1. hole \in Nat /\ hole # 0
      BY <1>1 DEF HeapInv, TypeOK
    <2> QED BY <2>1, ParentFacts
  <1>3. /\ h \in Slots /\ p \in Slots /\ h \in Below /\ p # h /\ h # 0 /\ parent(h) = p
        /\ h \in 0 .. capacity - 1 /\ p \in 0 .. capacity - 1
        /\ Slots' = Slots /\ Below' = Below
    <2>1. h \in Slots /\ h > 0
      BY <1>1, <1>2 DEF HeapInv, ContentInv
    <2>2. h \in Below
      BY <1>2, <2>1, SlotFacts DEF HeapInv, Slots, Below
    <2> QED BY <1>1, <1>2, <2>1, <2>2, SlotFacts DEF HeapInv, Slots, Below
  <1>4. /\ array \in [0 .. capacity - 1 -> Pointer]
        /\ array' \in [0 .. capacity - 1 -> Pointer]
        /\ array'[h] = array[p] /\ \A i \in Slots : i # h => array'[i] = array[i]
        /\ array'[0] = array[0]
    <2>1. array \in [0 .. capacity - 1 -> Pointer]
      BY DEF HeapInv, TypeOK
    <2>2. Slots \subseteq 0 .. capacity - 1 /\ 0 \in 0 .. capacity - 1
      BY SlotFacts DEF HeapInv
    <2> QED BY <1>1, <1>2, <1>3, <2>1, <2>2
  <1>5. TypeOK'
    BY <1>1, <1>2, <1>4 DEF HeapInv, TypeOK, tickVars, historyVars
  <1>6. Held' = Held /\ Popping' = Popping
    BY <1>1 DEF Held, Popping, tickVars, historyVars
  <1>7. LockInv'
    BY <1>1, <1>6 DEF HeapInv, LockInv, tickVars, historyVars
  <1>8. /\ Entry(p)' = Entry(h) /\ Entry(h)' = Entry(p)
        /\ \A i \in Slots : i # h /\ i # p => Entry(i)' = Entry(i)
    BY <1>1, <1>2, <1>3, <1>4 DEF Entry
  <1>9. ContentInv'
    <2>1. /\ \A i \in Slots : Entry(i) \in Timers
          /\ \A i, j \in Slots : i # j => Entry(i) # Entry(j)
          /\ {Entry(i) : i \in Slots} = Held \cup {item}
      BY <1>1 DEF HeapInv, ContentInv
    <2>2. \A i \in Slots : Entry(i)' \in Timers
      BY <1>3, <1>8, <2>1
    <2>3. \A i, j \in Slots : i # j => Entry(i)' # Entry(j)'
      BY <1>3, <1>8, <2>1
    <2>4. {Entry(i)' : i \in Slots} = {Entry(i) : i \in Slots}
      BY <1>3, <1>8
    <2> QED BY <1>1, <1>2, <1>3, <1>6, <2>1, <2>2, <2>3, <2>4 DEF ContentInv
  <1>10. OrderInv'
    <2>1. /\ \A i \in Below : i # h => due(parent(i)) <= due(i)
          /\ \A i \in Below : parent(i) = h => due(p) <= due(i)
      BY <1>1, <1>2 DEF HeapInv, OrderInv
    <2>2. /\ due(p)' = due(h) /\ due(h)' = due(p)
          /\ \A i \in Slots : i # h /\ i # p => due(i)' = due(i)
      BY <1>8 DEF due
    <2>3. due(h) < due(p)
      BY <1>1, <1>2, <1>3, SlotFacts DEF HeapInv, due, Entry
    <2>4. /\ \A i \in Slots : due(i) \in Nat
          /\ \A i \in Below : i \in Slots /\ parent(i) \in Slots /\ parent(i) # i
      BY SlotFacts DEF HeapInv
    <2>5. ASSUME NEW i \in Below, i # p
          PROVE  (due(parent(i)) <= due(i))'
      <3>1. PICK q \in Slots : q = parent(i) /\ q # i
        BY <2>4
      <3>2. i \in Slots /\ due(i) \in Nat /\ due(q) \in Nat /\ due(h) \in Nat /\ due(p) \in Nat
        BY <1>3, <2>4, <3>1
      <3>3. CASE i = h
        BY <1>3, <2>2, <2>3, <3>1, <3>2, <3>3
      <3>4. CASE i # h /\ q = h
        BY <1>3, <2>1, <2>2, <2>5, <3>1, <3>2, <3>4
      <3>5. CASE i # h /\ q = p
        <4>1. due(p) <= due(i) /\ due(i)' = due(i) /\ due(q)' = due(h)
          BY <2>1, <2>2, <2>5, <3>1, <3>2, <3>5
        <4> QED BY <2>3, <3>1, <3>2, <4>1
      <3>6. CASE i # h /\ q # h /\ q # p
        BY <2>1, <2>2, <2>5, <3>1, <3>2, <3>6
      <3> QED BY <3>3, <3>4, <3>5, <3>6
    <2>6. ASSUME NEW i \in Below, parent(i) = p, p > 0
          PROVE  (due(parent(p)) <= due(i))'
      <3>1. p \in Below
        BY <1>3, <2>6 DEF Slots, Below
      <3>2. PICK g \in Slots : g = parent(p) /\ g # p
        BY <2>4, <3>1
      <3>3. g # h
        <4>1. g < p /\ p < h
          BY <1>2, <1>3, <2>6, <3>2, ParentFacts
        <4> QED BY <1>2, <2>4, <3>2, <4>1 DEF Slots
      <3>4. due(g) <= due(p) /\ due(g)' = due(g)
        BY <1>3, <2>1, <2>2, <3>1, <3>2, <3>3
      <3>5. i \in Slots /\ due(i) \in Nat /\ due(g) \in Nat /\ due(p) \in Nat /\ i # p
        BY <1>3, <2>4, <2>6, <3>2
      <3>6. CASE i = h
        BY <2>2, <3>2, <3>4, <3>6
      <3>7. CASE i # h
        <4>1. due(p) <= due(i) /\ due(i)' = due(i)
          BY <2>1, <2>2, <2>6, <3>5, <3>7
        <4>2. due(g) <= due(i)
          BY <3>4, <3>5, <4>1
        <4> QED BY <3>2, <3>4, <4>1, <4>2
      <3> QED BY <3>6, <3>7
    <2>7. at' = "up" /\ hole' = p /\ Below' = Below
      BY <1>1, <1>2, <1>3
    <2> QED BY <2>5, <2>6, <2>7 DEF OrderInv
  <1>11. FirstInv'
    BY <1>1, <1>4, <1>6 DEF HeapInv, FirstInv, historyVars
  <1> QED BY <1>1, <1>4, <1>5, <1>6, <1>7, <1>9, <1>10, <1>11, HeapStepKeepsTick
          DEF HeapInv, historyVars

(* The timer is put where its parent is due no later. *)
LEMMA PlacePreserves ==
    ASSUME HeapInv, PlaceTimer
    PROVE  HeapInv'
  <1>1. /\ at = "up" /\ ~Rises
        /\ array' = [array EXCEPT ![hole] = item]
        /\ mutex' = "free" /\ at' = "out"
        /\ overtook' = IF hole = 0 /\ tpc \in {"callback", "pop", "popping"}
                       THEN overtook \cup {item} ELSE overtook
        /\ UNCHANGED <<capacity, cur_size, freed, hole, lo, item, tickVars, now, others, lost,
                       added, deleted, ran>>
    BY DEF PlaceTimer, Unlock
  <1>2. PICK h \in Nat : h = hole /\ h \in Slots /\ h \in 0 .. capacity - 1
    <2>1. hole \in Slots
      BY <1>1 DEF HeapInv, ContentInv
    <2> QED BY <2>1, SlotFacts DEF HeapInv, TypeOK
  <1>3. item \in Timers /\ item \in added \ deleted /\ mutex \in {"tick", "other"} /\ ~Popping
    BY <1>1 DEF HeapInv, LockInv, TypeOK
  <1>4. /\ array \in [0 .. capacity - 1 -> Pointer]
        /\ array' \in [0 .. capacity - 1 -> Pointer]
        /\ array'[h] = item /\ \A i \in 0 .. capacity - 1 : i # h => array'[i] = array[i]
    <2>1. array \in [0 .. capacity - 1 -> Pointer]
      BY DEF HeapInv, TypeOK
    <2> QED BY <1>1, <1>2, <1>3, <2>1 DEF Pointer
  <1>5. TypeOK'
    BY <1>1, <1>3, <1>4 DEF HeapInv, TypeOK, tickVars
  <1>6. Held' = Held \cup {item} /\ ~Popping'
    BY <1>1, <1>3 DEF Held, Popping
  <1>7. LockInv'
    BY <1>1, <1>6 DEF HeapInv, LockInv
  <1>8. Slots' = Slots /\ Below' = Below
        /\ \A i \in Slots : Entry(i)' = Entry(i) /\ due(i)' = due(i)
    <2>1. Slots \subseteq 0 .. capacity - 1
      BY SlotFacts DEF HeapInv
    <2> QED BY <1>1, <1>2, <1>4, <2>1 DEF Slots, Below, Entry, due
  <1>9. ContentInv'
    BY <1>1, <1>6, <1>8 DEF HeapInv, ContentInv
  <1>10. OrderInv'
    <2>1. \A i \in Below : i # h => due(parent(i)) <= due(i)
      BY <1>1, <1>2 DEF HeapInv, OrderInv
    <2>2. \A i \in Below : i \in Slots /\ parent(i) \in Slots /\ parent(i) # i
      BY SlotFacts DEF HeapInv
    <2>3. h \in Below => due(parent(h)) <= due(h)
      <3>1. ASSUME h \in Below
            PROVE  /\ due(parent(h)) = expire[array[parent(h)]] /\ due(h) = expire[item]
                   /\ due(parent(h)) \in Nat /\ due(h) \in Nat /\ h > 0
        BY <1>1, <1>2, <2>2, <3>1, SlotFacts DEF HeapInv, due, Entry, Below
      <3> QED BY <1>1, <1>2, <3>1 DEF Rises
    <2>4. \A i \in Below : due(parent(i)) <= due(i)
      BY <2>1, <2>3
    <2> QED BY <1>1, <1>8, <2>2, <2>4 DEF OrderInv
  <1>11. /\ h # 0 => array'[0] = array[0] /\ array[0] \in Held
         /\ h = 0 => array'[0] = item
    <2>1. h # 0 => array[0] \in Held
      BY <1>1, <1>2, FirstHeld DEF HeapInv
    <2>2. 0 \in 0 .. capacity - 1
      BY SlotFacts DEF HeapInv
    <2> QED BY <1>2, <1>4, <2>1, <2>2
  <1>12. FirstInv'
    BY <1>1, <1>6, <1>11 DEF FirstInv
  <1>13. TickInv'
    <2>1. CalledBack' = CalledBack /\ Called' = Called
      BY <1>1, <1>3, <1>6 DEF CalledBack, Called, Popping, tickVars
    <2>2. CalledBack => array'[0] \in Called \cup overtook'
      <3>1. CASE h = 0
        BY <1>1, <1>2, <1>11, <3>1 DEF CalledBack
      <3>2. CASE h # 0
        BY <1>1, <1>2, <1>11, <3>2 DEF HeapInv, TickInv
      <3> QED BY <3>1, <3>2
    <2>3. ~others => tpc \in {"idle", "callback"}
      BY <1>1, <1>3 DEF HeapInv, LockInv, Popping
    <2> QED BY <1>1, <1>6, <2>1, <2>2, <2>3 DEF HeapInv, TickInv, tickVars
  <1>14. RunsWhatItDeletes' /\ SafeAlone'
    BY <1>1 DEF HeapInv, RunsWhatItDeletes, SafeAlone
  <1> QED BY <1>5, <1>7, <1>9, <1>10, <1>12, <1>13, <1>14 DEF HeapInv

------------------------------------------------------------------------------
(* percolate_down swaps the hole with its first child; above, the timers    *)
(* were due before that child already.                                     *)
LEMMA DownPreserves ==
    ASSUME HeapInv, PercolateDown
    PROVE  HeapInv'
  <1>1. /\ at = "down" /\ Sinks
        /\ array' = [array EXCEPT ![hole] = array[Child], ![Child] = array[hole]]
        /\ hole' = Child
        /\ UNCHANGED <<capacity, cur_size, freed, mutex, at, lo, item, tickVars, now, others,
                       lost, historyVars>>
    BY DEF PercolateDown
  <1>2. hole \in Slots /\ hole \in Nat /\ cur_size > 0
    <2>1. hole \in Nat /\ cur_size \in Nat /\ 2 * hole + 1 < cur_size
      BY <1>1 DEF HeapInv, TypeOK, Sinks
    <2> QED BY <2>1 DEF Slots
  <1>3. /\ Child \in Below /\ Child \in Slots /\ parent(Child) = hole /\ due(Child) < due(hole)
        /\ \A i \in Below : parent(i) = hole => due(Child) <= due(i)
    BY <1>1, <1>2, ChildFacts DEF HeapInv
  <1>4. PICK h \in Nat, c \in Nat : h = hole /\ c = Child
    BY <1>2, <1>3, SlotFacts DEF HeapInv
  <1>5. /\ h \in Slots /\ c \in Slots /\ c \in Below /\ parent(c) = h /\ h < c
        /\ h \in 0 .. capacity - 1 /\ c \in 0 .. capacity - 1
        /\ Slots' = Slots /\ Below' = Below
        /\ due(c) < due(h) /\ due(c) \in Nat /\ due(h) \in Nat
        /\ \A i \in Below : parent(i) = h => due(c) <= due(i)
    <2>1. h < c
      BY <1>3, <1>4, ParentFacts, SlotFacts DEF HeapInv
    <2>2. Slots' = Slots /\ Below' = Below
      BY <1>1 DEF Slots, Below
    <2> QED BY <1>2, <1>3, <1>4, <2>1, <2>2, SlotFacts DEF HeapInv
  <1>6. /\ array \in [0 .. capacity - 1 -> Pointer]
        /\ array' \in [0 .. capacity - 1 -> Pointer]
        /\ array'[h] = array[c] /\ array'[c] = array[h]
        /\ \A i \in Slots : i # h /\ i # c => array'[i] = array[i]
    <2>1. array \in [0 .. capacity - 1 -> Pointer]
      BY DEF HeapInv, TypeOK
    <2>2. Slots \subseteq 0 .. capacity - 1
      BY SlotFacts DEF HeapInv
    <2>3. array' = [array EXCEPT ![h] = array[c], ![c] = array[h]]
      BY <1>1, <1>4
    <2> QED BY <1>5, <2>1, <2>2, <2>3
  <1>7. TypeOK'
    BY <1>1, <1>4, <1>6 DEF HeapInv, TypeOK, tickVars, historyVars
  <1>8. Held' = Held /\ Popping' = Popping
    BY <1>1 DEF Held, Popping, tickVars, historyVars
  <1>9. LockInv'
    BY <1>1, <1>8 DEF HeapInv, LockInv, tickVars, historyVars
  <1>10. /\ Entry(c)' = Entry(h) /\ Entry(h)' = Entry(c)
         /\ \A i \in Slots : i # h /\ i # c => Entry(i)' = Entry(i)
         /\ \A i : Entry(i) = array[i]
    BY <1>1, <1>6 DEF Entry
  <1>11. ContentInv'
    <2>1. /\ \A i \in Slots : Entry(i) \in Timers
          /\ \A i, j \in Slots : i # j => Entry(i) # Entry(j)
          /\ {Entry(i) : i \in Slots} = Held
      BY <1>1 DEF HeapInv, ContentInv
    <2>2. \A i \in Slots : Entry(i)' \in Timers
      BY <1>5, <1>10, <2>1
    <2>3. \A i, j \in Slots : i # j => Entry(i)' # Entry(j)'
      BY <1>5, <1>10, <2>1
    <2>4. {Entry(i)' : i \in Slots} = {Entry(i) : i \in Slots}
      BY <1>5, <1>10
    <2> QED BY <1>1, <1>5, <1>8, <2>1, <2>2, <2>3, <2>4 DEF ContentInv
  <1>12. mutex = "ctor" \/ Popping
    <2>1. ASSUME mutex # "ctor", ~Popping PROVE FALSE
      <3>1. due(parent(c)) <= due(c)
        BY <1>1, <1>5, <2>1 DEF HeapInv, OrderInv
      <3> QED BY <1>5, <3>1
    <2> QED BY <2>1
  <1>13. OrderInv'
    <2>1. /\ h >= lo /\ lo \in Nat
          /\ \A i \in Below : /\ parent(i) >= lo /\ parent(i) # h => due(parent(i)) <= due(i)
                              /\ parent(i) = h /\ h > 0 /\ parent(h) >= lo =>
                                    due(parent(h)) <= due(i)
      BY <1>1, <1>4 DEF HeapInv, OrderInv, TypeOK
    <2>2. /\ due(c)' = due(h) /\ due(h)' = due(c)
          /\ \A i \in Slots : i # h /\ i # c => due(i)' = due(i)
      BY <1>10 DEF due
    <2>3. /\ \A i \in Slots : due(i) \in Nat
          /\ \A i \in Below : i \in Slots /\ parent(i) \in Slots /\ parent(i) \in Nat
                              /\ parent(i) < i /\ i \in Nat /\ i # 0
      BY SlotFacts, ParentFacts DEF HeapInv
    <2>4. ASSUME NEW i \in Below, parent(i) >= lo, parent(i) # c
          PROVE  (due(parent(i)) <= due(i))'
      <3>1. PICK q \in Slots : q = parent(i) /\ q # i /\ q # c /\ q \in Nat
        BY <2>3, <2>4
      <3>2. i \in Slots /\ due(i) \in Nat /\ due(q) \in Nat
        BY <2>3, <3>1
      <3>3. CASE i = c
        BY <1>5, <2>2, <3>1, <3>3
      <3>4. CASE i # c /\ q = h
        BY <1>5, <2>2, <3>1, <3>2, <3>4
      <3>5. CASE i = h
        <4>1. h > 0 /\ parent(h) = q /\ due(q) <= due(c)
          BY <1>5, <2>1, <2>3, <2>4, <3>1, <3>5
        <4> QED BY <2>2, <3>1, <3>5, <4>1
      <3>6. CASE i # c /\ i # h /\ q # h
        BY <2>1, <2>2, <2>4, <3>1, <3>2, <3>6
      <3> QED BY <3>3, <3>4, <3>5, <3>6
    <2>5. ASSUME NEW i \in Below, parent(i) = c
          PROVE  due(h)' <= due(i)'
      <3>1. c < i /\ i \in Slots /\ i \in Nat /\ i # c /\ i # h
        BY <1>5, <2>3, <2>5
      <3>2. due(c) <= due(i)
        BY <1>5, <2>1, <2>5
      <3> QED BY <2>2, <3>1, <3>2
    <2>6. \A i \in Below : parent(i) = c => (due(parent(c)))' <= due(i)'
      BY <1>5, <2>5
    <2>7. at' = "down" /\ hole' = c /\ lo' = lo /\ c >= lo /\ Below' = Below
          /\ (mutex' = "ctor" \/ Popping')
      BY <1>1, <1>4, <1>5, <1>8, <1>12, <2>1
    <2> QED BY <1>5, <2>4, <2>6, <2>7 DEF OrderInv
  <1>14. FirstInv'
    <2>1. Held # {}
      BY <1>1, <1>2, FirstHeld DEF HeapInv
    <2>2. {Entry(i)' : i \in Slots} = Held
      BY <1>1, <1>5, <1>8, <1>11 DEF ContentInv
    <2>3. 0 \in Slots
      BY <1>2, SlotFacts DEF HeapInv, Slots
    <2>4. Entry(0)' = array'[0]
      BY <1>1 DEF Entry
    <2> QED BY <1>1, <1>8, <2>1, <2>2, <2>3, <2>4 DEF FirstInv
  <1>15. TickInv'
    <2>1. tpc = "idle" \/ Popping
      BY <1>12 DEF HeapInv, LockInv
    <2>2. ~CalledBack' /\ tpc' \notin {"test", "run"}
      BY <1>1, <1>8, <2>1 DEF CalledBack, Popping, tickVars
    <2> QED BY <2>2 DEF TickInv
  <1>16. RunsWhatItDeletes' /\ SafeAlone'
    BY <1>1 DEF HeapInv, RunsWhatItDeletes, SafeAlone, historyVars
  <1> QED BY <1>7, <1>9, <1>11, <1>13, <1>14, <1>15, <1>16 DEF HeapInv

(* Where the timer sinks no further, its subtree is in order; at slot 0 the *)
(* whole heap is.                                                          *)
LEMMA DownEnds ==
    ASSUME HeapInv, PercolatedDown
    PROVE  HeapInv'
  <1>1. /\ at = "down" /\ ~Sinks
        /\ lo = 0 => /\ mutex' = "free" /\ at' = "out" /\ hole' = hole /\ lo' = lo
                     /\ tpc' = IF Popping THEN "next" ELSE tpc
        /\ lo # 0 => /\ lo' = lo - 1 /\ hole' = lo - 1
                     /\ UNCHANGED <<mutex, at, tpc>>
        /\ UNCHANGED <<heapVars, item, tmp, cur, now, others, lost, historyVars>>
    BY DEF PercolatedDown, Unlock, Popping
  <1>2. /\ hole \in Nat /\ lo \in Nat /\ cur_size \in Nat /\ hole >= lo
        /\ hole \in Slots \/ hole = 0
        /\ \A i \in Below : parent(i) >= lo /\ parent(i) # hole => due(parent(i)) <= due(i)
    BY <1>1 DEF HeapInv, TypeOK, OrderInv
  <1>3. \A i \in Below : i \in Slots /\ parent(i) \in Slots /\ parent(i) \in Nat
    BY SlotFacts DEF HeapInv
  <1>4. ASSUME NEW i \in Below, parent(i) >= lo
        PROVE  due(parent(i)) <= due(i)
    <2>1. CASE parent(i) = hole
      <3>1. hole \in Slots
        BY <1>3, <2>1
      <3> QED BY <1>1, <2>1, <3>1, ChildFacts DEF HeapInv
    <2>2. CASE parent(i) # hole
      BY <1>2, <1>4, <2>2
    <2> QED BY <2>1, <2>2
  <1>5. Held' = Held /\ Slots' = Slots /\ Below' = Below /\ array' = array
        /\ at' \in {"out", "down"} /\ \A i : Entry(i)' = Entry(i) /\ due(i)' = due(i)
    BY <1>1 DEF Held, Slots, Below, Entry, due, heapVars, historyVars
  <1>6. lo' \in Nat /\ hole' \in Nat /\ hole' >= lo' /\ (hole' \in Slots \/ hole' = 0)
    <2>1. CASE lo = 0
      BY <1>1, <1>2, <2>1
    <2>2. CASE lo # 0
      BY <1>1, <1>2, <2>2 DEF Slots
    <2> QED BY <2>1, <2>2
  <1>7. tpc' \in {tpc, "next"} /\ (tpc' # tpc => Popping) /\ mutex' \in {mutex, "free"}
    BY <1>1
  <1>8. TypeOK'
    BY <1>1, <1>5, <1>6, <1>7 DEF HeapInv, TypeOK, heapVars, historyVars
  <1>9. LockInv'
    BY <1>1 DEF HeapInv, LockInv, Popping, heapVars, historyVars
  <1>10. ContentInv'
    BY <1>1, <1>5 DEF HeapInv, ContentInv
  <1>11. OrderInv'
    <2>1. CASE lo = 0
      <3>1. \A i \in Below : (due(parent(i)) <= due(i))'
        BY <1>3, <1>4, <1>5, <2>1
      <3> QED BY <1>1, <1>5, <2>1, <3>1 DEF OrderInv
    <2>2. CASE lo # 0
      <3>1. PICK m \in Nat : m = lo - 1 /\ m = lo' /\ m = hole' /\ m < lo
        BY <1>1, <1>2, <2>2
      <3>2. \A i \in Below : parent(i) >= m /\ parent(i) # m => parent(i) >= lo
        BY <1>2, <1>3, <3>1
      <3>3. m > 0 => ~(parent(m) >= m)
        <4>1. ASSUME m > 0 PROVE parent(m) \in Nat /\ parent(m) < m
          BY <3>1, <4>1, ParentFacts
        <4> QED BY <3>1, <4>1
      <3>4. at' = "down" /\ mutex' = mutex /\ Popping' = Popping
        BY <1>1, <2>2 DEF Popping
      <3>5. \A i \in Below : parent(i) >= m /\ parent(i) # m => (due(parent(i)) <= due(i))'
        BY <1>4, <1>5, <3>2
      <3>6. mutex # "ctor" /\ ~Popping => \A i \in Below : (due(parent(i)) <= due(i))'
        BY <1>1, <1>5 DEF HeapInv, OrderInv
      <3> QED BY <1>5, <1>6, <3>1, <3>3, <3>4, <3>5, <3>6 DEF OrderInv
    <2> QED BY <2>1, <2>2
  <1>12. FirstInv'
    BY <1>1, <1>5 DEF HeapInv, FirstInv, historyVars
  <1>13. TickInv'
    <2>1. CalledBack' => CalledBack
      BY <1>1 DEF CalledBack, Popping
    <2>2. tpc' \in {"test", "run"} => tpc' = tpc
      BY <1>7
    <2> QED BY <1>1, <1>5, <2>1, <2>2 DEF HeapInv, TickInv, Called, historyVars
  <1>14. RunsWhatItDeletes' /\ SafeAlone'
    BY <1>1 DEF HeapInv, RunsWhatItDeletes, SafeAlone, historyVars
  <1> QED BY <1>8, <1>9, <1>10, <1>11, <1>12, <1>13, <1>14 DEF HeapInv

(* pop deletes the first timer, which was called back or came first since. *)
LEMMA PopDeletePreserves ==
    ASSUME HeapInv, PopDelete
    PROVE  HeapInv'
  <1>1. /\ tpc = "popping" /\ mutex = "free" /\ mutex' = "tick" /\ at' = "move"
        /\ deleted' = deleted \cup {array[0]}
        /\ UNCHANGED <<heapVars, hole, lo, item, tickVars, now, others, lost, added, ran,
                       overtook>>
    BY DEF PopDelete, Lock
  <1>2. at = "out" /\ ~Popping /\ Popping'
    BY <1>1 DEF HeapInv, LockInv, Popping, tickVars
  <1>3. Held # {} /\ array[0] \in Called \cup overtook
    BY <1>1, <1>2 DEF HeapInv, TickInv, CalledBack
  <1>4. array[0] \in Held /\ cur_size > 0
    BY <1>2, <1>3, FirstHeld DEF HeapInv
  <1>5. TypeOK'
    BY <1>1, <1>4 DEF HeapInv, TypeOK, Held, heapVars, tickVars
  <1>6. LockInv'
    BY <1>1, <1>2 DEF HeapInv, LockInv, heapVars, tickVars
  <1>7. Held = added \ deleted /\ Held' = Held \ {array[0]}
    BY <1>1, <1>2 DEF Held
  <1>8. ContentInv'
    BY <1>1, <1>2, <1>4, <1>7 DEF HeapInv, ContentInv, Entry, Slots, heapVars
  <1>9. OrderInv'
    BY <1>1, <1>2 DEF HeapInv, OrderInv, due, Entry, Below, heapVars
  <1>10. FirstInv'
    BY <1>1 DEF FirstInv, heapVars
  <1>11. TickInv'
    BY <1>1, <1>2 DEF TickInv, CalledBack, tickVars
  <1>12. RunsWhatItDeletes' /\ SafeAlone'
    BY <1>1, <1>3 DEF HeapInv, RunsWhatItDeletes, SafeAlone, Called
  <1> QED BY <1>5, <1>6, <1>8, <1>9, <1>10, <1>11, <1>12 DEF HeapInv

(* pop fills the first slot with the last timer. *)
LEMMA PopMovePreserves ==
    ASSUME HeapInv, PopMove
    PROVE  HeapInv'
  <1>1. /\ at = "move" /\ at' = "down" /\ hole' = 0 /\ lo' = 0
        /\ cur_size' = cur_size - 1
        /\ array' = [array EXCEPT ![0] = array[cur_size - 1]]
        /\ UNCHANGED <<capacity, freed, mutex, item, tickVars, now, others, lost, historyVars>>
    BY DEF PopMove
  <1>2. /\ mutex = "tick" /\ tpc = "popping" /\ Popping /\ Popping'
    BY <1>1 DEF HeapInv, LockInv, Popping, tickVars
  <1>3. PICK n \in Nat : n + 1 = cur_size /\ n < capacity
    <2>1. cur_size \in Nat /\ cur_size > 0 /\ capacity \in Nat /\ cur_size <= capacity
      BY <1>1 DEF HeapInv, ContentInv, TypeOK
    <2>2. cur_size - 1 \in Nat /\ (cur_size - 1) + 1 = cur_size /\ cur_size - 1 < capacity
      BY <2>1
    <2> QED BY <2>2
  <1>4. /\ Slots = 0 .. n /\ Slots' = 0 .. n - 1 /\ Below' \subseteq Below
        /\ n \in 0 .. capacity - 1 /\ 0 \in 0 .. capacity - 1 /\ 0 \in Slots /\ n \in Slots
        /\ Slots' \subseteq Slots /\ n \notin Slots'
        /\ cur_size' = n /\ cur_size - 1 = n
    BY <1>1, <1>3 DEF HeapInv, TypeOK, Slots, Below
  <1>5. /\ array \in [0 .. capacity - 1 -> Pointer]
        /\ array' \in [0 .. capacity - 1 -> Pointer]
        /\ array'[0] = array[n]
        /\ \A i \in Slots : i # 0 => array'[i] = array[i]
    <2>1. array \in [0 .. capacity - 1 -> Pointer]
      BY DEF HeapInv, TypeOK
    <2>2. Slots \subseteq 0 .. capacity - 1
      BY SlotFacts DEF HeapInv
    <2> QED BY <1>1, <1>4, <2>1, <2>2
  <1>6. TypeOK'
    BY <1>1, <1>3, <1>4, <1>5 DEF HeapInv, TypeOK, tickVars, historyVars
  <1>7. Held' = Held
    BY <1>1 DEF Held, historyVars
  <1>8. LockInv'
    BY <1>1, <1>2 DEF HeapInv, LockInv, tickVars, historyVars
  <1>9. /\ array[0] \in deleted /\ array[0] \notin Held
        /\ {array[i] : i \in Slots} = Held \cup {array[0]}
        /\ \A i \in Slots : array[i] \in Timers
        /\ \A i, j \in Slots : i # j => array[i] # array[j]
        /\ \A i : Entry(i) = array[i] /\ Entry(i)' = array'[i]
    BY <1>1 DEF HeapInv, ContentInv, Entry, Held
  <1>10. \A i \in Slots' : Entry(i)' = IF i = 0 THEN array[n] ELSE array[i]
    BY <1>4, <1>5, <1>9
  <1>11. {Entry(i)' : i \in Slots'} = Held
    <2>1. ASSUME NEW i \in Slots' PROVE Entry(i)' \in Held
      <3>1. CASE i = 0
        <4>1. n # 0
          BY <1>4, <2>1, <3>1
        <4> QED BY <1>4, <1>9, <1>10, <2>1, <3>1, <4>1
      <3>2. CASE i # 0
        BY <1>4, <1>9, <1>10, <2>1, <3>2
      <3> QED BY <3>1, <3>2
    <2>2. ASSUME NEW t \in Held PROVE \E i \in Slots' : t = Entry(i)'
      <3>1. PICK i \in Slots : t = array[i] /\ i # 0
        BY <1>9
      <3>2. CASE i = n
        <4>1. 0 \in Slots'
          BY <1>3, <1>4, <3>1, <3>2
        <4> QED BY <1>10, <3>1, <3>2, <4>1
      <3>3. CASE i # n
        <4>1. i \in Slots'
          BY <1>3, <1>4, <3>3
        <4> QED BY <1>10, <3>1, <4>1
      <3> QED BY <3>2, <3>3
    <2> QED BY <2>1, <2>2
  <1>12. ContentInv'
    <2>1. \A i \in Slots' : Entry(i)' \in Timers
      BY <1>4, <1>9, <1>10
    <2>2. \A i, j \in Slots' : i # j => Entry(i)' # Entry(j)'
      BY <1>4, <1>9, <1>10
    <2> QED BY <1>1, <1>7, <1>11, <2>1, <2>2 DEF ContentInv
  <1>13. OrderInv'
    <2>1. \A i \in Below : /\ i \in Slots /\ i # 0 /\ parent(i) \in Slots
                           /\ due(parent(i)) <= due(i)
      BY <1>1, SlotFacts DEF HeapInv, OrderInv
    <2>2. \A i \in Slots : i # 0 => due(i)' = due(i)
      BY <1>5, <1>9 DEF due
    <2>3. \A i \in Below' : parent(i) # 0 => (due(parent(i)) <= due(i))'
      BY <1>4, <2>1, <2>2
    <2> QED BY <1>1, <1>2, <2>3 DEF OrderInv
  <1>14. FirstInv'
    <2>1. CASE n = 0
      <3>1. Held = {}
        BY <1>4, <1>11, <2>1
      <3> QED BY <1>1, <1>5, <1>7, <1>9, <2>1, <3>1 DEF FirstInv, historyVars
    <2>2. CASE n # 0
      <3>1. array[n] \in Held
        BY <1>4, <1>9, <2>2
      <3> QED BY <1>1, <1>5, <1>7, <3>1 DEF FirstInv
    <2> QED BY <2>1, <2>2
  <1>15. TickInv'
    BY <1>1, <1>2 DEF TickInv, CalledBack, tickVars
  <1>16. RunsWhatItDeletes' /\ SafeAlone'
    BY <1>1 DEF HeapInv, RunsWhatItDeletes, SafeAlone, historyVars
  <1> QED BY <1>6, <1>8, <1>12, <1>13, <1>14, <1>15, <1>16 DEF HeapInv

------------------------------------------------------------------------------
(* Every step preserves the invariant. *)
LEMMA StepPreserves ==
    ASSUME HeapInv, [Next]_vars
    PROVE  HeapInv'
  <1>1. CASE UNCHANGED vars
    <2>1. UNCHANGED <<heapVars, lockVars, tickVars, now, others, lost, historyVars>>
      BY <1>1 DEF vars
    <2>2. /\ LockInv' /\ ContentInv' /\ OrderInv' /\ FirstInv'
          /\ Held' = Held /\ Popping' = Popping /\ array' = array /\ mutex' = mutex
      BY <2>1, TickTouchesNothing DEF historyVars, tickVars, HeapInv, LockInv
    <2>3. TypeOK'
      BY <2>1 DEF HeapInv, TypeOK, heapVars, lockVars, tickVars, historyVars
    <2>4. TickInv' /\ RunsWhatItDeletes' /\ SafeAlone'
      BY <2>1, <2>2, HeapStepKeepsTick DEF historyVars
    <2> QED BY <2>2, <2>3, <2>4 DEF HeapInv
  <1>2. CASE \E who \in {"tick", "other"} :
                DelTimer(who) \/ \E timer \in Timers : AddTimer(who, timer)
    BY <1>2, DelPreserves, AddPreserves
  <1>3. CASE ResizeDelete \/ ResizeAssign \/ TakeHole \/ PercolateUp \/ PlaceTimer
    BY <1>3, ResizePreserves, HolePreserves, UpPreserves, PlacePreserves
  <1>4. CASE PercolateDown \/ PercolatedDown
    BY <1>4, DownPreserves, DownEnds
  <1>5. CASE TickStart \/ TickTest \/ TickRun \/ CallbackReturns
    BY <1>5, ReadPreserves, TestPreserves, RunPreserves, ReturnPreserves
  <1>6. CASE PopTest \/ PopDelete \/ PopMove
    BY <1>6, ReturnPreserves, PopDeletePreserves, PopMovePreserves
  <1>7. CASE TickNext \/ TickMisuses \/ Clock
    BY <1>7, ReadPreserves, MisusePreserves, ClockPreserves
  <1> QED BY <1>1, <1>2, <1>3, <1>4, <1>5, <1>6, <1>7 DEF Next

(* The inductive invariant holds of every state of the timer heap. *)
THEOREM HeapInvInductive == Spec => []HeapInv
  <1>1. HeapInv /\ [Next]_vars => HeapInv'
    BY StepPreserves
  <1> QED BY InitEstablishes, <1>1, PTL DEF Spec

(* The variables of the heap and of tick keep their types. *)
THEOREM TypeCorrect == Spec => []TypeOK
  <1>1. HeapInv => TypeOK
    BY DEF HeapInv
  <1> QED BY HeapInvInductive, <1>1, PTL

(* Whenever the mutex is free, the array is a heap of the timers added and *)
(* not deleted, each once.                                                 *)
THEOREM HeapIntactHolds == Spec => []HeapIntact
  <1>1. HeapInv => HeapIntact
    <2> SUFFICES ASSUME HeapInv, mutex = "free" PROVE HeapIntact
      BY DEF HeapIntact
    <2>1. at = "out" /\ Held = added \ deleted /\ \A i : Entry(i) = array[i]
      BY DEF HeapInv, LockInv, Held, Entry
    <2>2. /\ \A i \in Slots : array[i] \in Timers
          /\ \A i, j \in Slots : i # j => array[i] # array[j]
          /\ {array[i] : i \in Slots} = Held
      BY <2>1 DEF HeapInv, ContentInv
    <2>3. \A i \in Below : expire[array[parent(i)]] <= expire[array[i]]
      BY <2>1 DEF HeapInv, OrderInv, due
    <2> QED BY <2>1, <2>2, <2>3 DEF HeapIntact, InHeap, Slots, Below
  <1> QED BY HeapInvInductive, <1>1, PTL

(* tick deletes only what it called back or what became first since then,  *)
(* and calls back nothing before it is due unless other threads interfere. *)
THEOREM RunsWhatItDeletesHolds == Spec => []RunsWhatItDeletes
  <1>1. HeapInv => RunsWhatItDeletes
    BY DEF HeapInv
  <1> QED BY HeapInvInductive, <1>1, PTL

(* Without other threads tick never uses memory that the heap has freed.   *)
THEOREM SafeAloneHolds == Spec => []SafeAlone
  <1>1. HeapInv => SafeAlone
    BY DEF HeapInv
  <1> QED BY HeapInvInductive, <1>1, PTL

------------------------------------------------------------------------------
(* Every set of natural numbers that is not empty has a least element. *)
LEMMA LeastNatural ==
    ASSUME NEW T \in SUBSET Nat, T # {}
    PROVE  \E x \in T : \A y \in T : x <= y
  <1> DEFINE R == OpToRel(<, Nat)
  <1>1. IsWellFoundedOn(R, Nat)
    BY NatLessThanWellFounded
  <1> HIDE DEF R
  <1>2. PICK x \in T : \A y \in T : <<y, x>> \notin R
    BY <1>1, WFMin
  <1>3. ASSUME NEW y \in T, y < x PROVE FALSE
    <2>1. <<y, x>> \in R
      BY <1>3 DEF R, OpToRel
    <2> QED BY <1>2, <2>1
  <1> QED BY <1>2, <1>3

(* In a heap that is in order no timer is due before the one in slot 0: the *)
(* first slot with such a timer would have a parent that is due before.    *)
LEMMA RootIsFirst ==
    ASSUME TypeOK, ContentInv, \A i \in Below : due(parent(i)) <= due(i), NEW i \in Slots
    PROVE  due(0) <= due(i)
  <1>1. /\ Slots \subseteq Nat /\ 0 \in Slots
        /\ \A j \in Slots : due(j) \in Nat /\ (j # 0 => j \in Below)
        /\ \A j \in Below : parent(j) \in Slots /\ parent(j) < j
    BY SlotFacts, ParentFacts DEF Slots, Below
  <1> DEFINE Earlier == {j \in Slots : due(j) < due(0)}
  <1>2. CASE Earlier = {}
    BY <1>1, <1>2
  <1>3. CASE Earlier # {}
    <2>1. Earlier \in SUBSET Nat
      BY <1>1
    <2>2. PICK j \in Earlier : \A k \in Earlier : j <= k
      BY <1>3, <2>1, LeastNatural
    <2>3. j \in Below /\ j \in Nat /\ due(j) < due(0)
      BY <1>1, <2>2
    <2>4. parent(j) \in Slots /\ parent(j) < j /\ parent(j) \in Nat /\ due(parent(j)) <= due(j)
      BY <1>1, <2>3
    <2>5. parent(j) \notin Earlier
      BY <2>2, <2>3, <2>4
    <2>6. ~(due(parent(j)) < due(0))
      BY <2>4, <2>5
    <2>7. due(parent(j)) \in Nat /\ due(j) \in Nat /\ due(0) \in Nat
      BY <1>1, <2>2, <2>4
    <2> QED BY <2>3, <2>4, <2>6, <2>7
  <1> QED BY <1>2, <1>3

(* A timer joins the queue when it is put in place and leaves it when pop  *)
(* deletes it; no other step changes what the heap holds.                  *)
LEMMA StepIsQueue ==
    ASSUME HeapInv, [Next]_vars
    PROVE  [Queue!Next]_(Queue!vars)
  <1>1. CASE PlaceTimer
    <2>1. /\ at = "up" /\ at' = "out" /\ UNCHANGED <<added, deleted, item>>
      BY <1>1 DEF PlaceTimer, Unlock
    <2>2. item \in added \ deleted /\ item \in Timers
      BY <2>1 DEF HeapInv, LockInv, TypeOK
    <2>3. Held = (added \ deleted) \ {item} /\ Held' = added \ deleted
      BY <2>1 DEF Held
    <2>4. Queue!Add(item)
      BY <2>1, <2>2, <2>3 DEF Queue!Add
    <2> QED BY <2>2, <2>4 DEF Queue!Next
  <1>2. CASE PopDelete
    <2>1. /\ tpc = "popping" /\ mutex = "free" /\ at' = "move"
          /\ deleted' = deleted \cup {array[0]} /\ added' = added
      BY <1>2 DEF PopDelete, Lock
    <2>2. at = "out" /\ CalledBack
      BY <2>1 DEF HeapInv, LockInv, CalledBack, Popping
    <2>3. array[0] \in Held /\ Held \subseteq Timers
      BY <2>2, FirstHeld DEF HeapInv, TickInv, TypeOK, Held
    <2>4. Held = added \ deleted /\ Held' = Held \ {array[0]}
      BY <2>1, <2>2 DEF Held
    <2>5. ASSUME NEW t \in Held PROVE expire[array[0]] <= expire[t]
      <3>1. PICK i \in Slots : Entry(i) = t
        BY <2>2 DEF HeapInv, ContentInv
      <3>2. \A j \in Below : due(parent(j)) <= due(j)
        BY <2>2 DEF HeapInv, OrderInv
      <3>3. due(0) <= due(i)
        BY <3>2, RootIsFirst DEF HeapInv
      <3> QED BY <2>2, <3>1, <3>3 DEF due, Entry
    <2>6. Queue!RemoveFirst(array[0])
      BY <2>1, <2>3, <2>4, <2>5 DEF Queue!RemoveFirst
    <2> QED BY <2>3, <2>6 DEF Queue!Next
  <1>3. ASSUME Held' = Held, deleted' = deleted
        PROVE  UNCHANGED Queue!vars
    BY <1>3 DEF Queue!vars
  <1>4. CASE \E who \in {"tick", "other"} : \E timer \in Timers : AddTimer(who, timer)
    <2>1. PICK timer \in Timers :
            /\ timer \notin added /\ mutex = "free" /\ at' = "enter" /\ item' = timer
            /\ added' = added \cup {timer} /\ deleted' = deleted
      BY <1>4 DEF AddTimer, Lock
    <2>2. at = "out" /\ deleted \subseteq added
      BY <2>1 DEF HeapInv, LockInv, TypeOK
    <2>3. Held' = Held
      BY <2>1, <2>2 DEF Held
    <2> QED BY <1>3, <2>1, <2>3
  <1>5. CASE \E who \in {"tick", "other"} : DelTimer(who)
    <2>1. mutex = "free" /\ at' = "down" /\ UNCHANGED historyVars
      BY <1>5 DEF DelTimer, Lock
    <2>2. at = "out"
      BY <2>1 DEF HeapInv, LockInv
    <2> QED BY <1>3, <2>1, <2>2 DEF Held, historyVars
  <1>6. CASE ResizeDelete \/ ResizeAssign \/ TakeHole
    <2>1. /\ at \in {"enter", "grow", "up"} /\ at' \in {"enter", "grow", "up"}
          /\ UNCHANGED <<item, historyVars>>
      BY <1>6 DEF ResizeDelete, ResizeAssign, TakeHole
    <2> QED BY <1>3, <2>1 DEF Held, historyVars
  <1>7. CASE PercolateUp \/ PercolateDown \/ PercolatedDown \/ PopMove
    <2>1. /\ \/ at' = at
             \/ at \in {"down", "move"} /\ at' \in {"out", "down"}
          /\ UNCHANGED <<item, historyVars>>
      BY <1>7 DEF PercolateUp, PercolateDown, PercolatedDown, PopMove, Unlock
    <2> QED BY <1>3, <2>1 DEF Held, historyVars
  <1>8. CASE \/ TickStart \/ TickTest \/ CallbackReturns \/ PopTest \/ TickNext \/ TickMisuses
             \/ TickRun \/ Clock \/ UNCHANGED vars
    <2>1. UNCHANGED <<lockVars, added, deleted>>
      BY <1>8 DEF TickStart, TickTest, CallbackReturns, PopTest, TickNext, TickMisuses, Lose,
                  TickRun, Clock, vars, historyVars
    <2> QED BY <1>3, <2>1 DEF Held, lockVars
  <1> QED BY <1>1, <1>2, <1>4, <1>5, <1>6, <1>7, <1>8 DEF Next

(* The timer heap implements the queue of timers: for any timers and expiry *)
(* times, any first array and capacity, and any other threads.             *)
THEOREM ImplementsTimerQueue == Spec => IsTimerQueue
  <1>1. Init => Queue!Init
    <2> SUFFICES ASSUME Init PROVE Queue!Init
      OBVIOUS
    <2>1. TypeOK
      BY InitEstablishes DEF HeapInv
    <2>2. Held \in SUBSET Timers
      BY <2>1 DEF TypeOK, Held
    <2>3. deleted = {}
      BY DEF Init
    <2> QED BY <2>2, <2>3 DEF Queue!Init
  <1>2. HeapInv /\ [Next]_vars => [Queue!Next]_(Queue!vars)
    BY StepIsQueue
  <1> QED BY <1>1, <1>2, HeapInvInductive, PTL DEF Spec, IsTimerQueue, Queue!Spec

==============================================================================
