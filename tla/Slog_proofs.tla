----------------------------- MODULE Slog_proofs -----------------------------
(* Safety of the logger for any number of threads and calls. *)
EXTENDS Slog, FiniteSetTheorems, SequenceTheorems, TLAPS

(* A stack is one call and, above it, calls of slog_error for the failures  *)
(* of the calls below.  A call that fails at ERROR itself never gets its    *)
(* turn back: the report above it waits for the lock that it has kept.      *)
StackOK(t) ==
    LET n == Len(stack[t])
    IN /\ n <= 3
       /\ \A i \in 2 .. n : stack[t][i].level = "ERROR"
       /\ \A i \in 1 .. n - 1 : stack[t][i].at = "report"
       /\ n >= 1 /\ stack[t][n].at = "report" => n = 1 /\ stack[t][1].level # "ERROR"
       /\ n >= 2 /\ stack[t][n - 1].level = "ERROR"
          => stack[t][n].at = "lock" /\ owner["ERROR"] = t

(* Whoever has a file open has its lock. *)
LockOK(t) ==
    \A i \in 1 .. Len(stack[t]) :
        stack[t][i].at \in {"open", "write", "unlock"} => owner[stack[t][i].level] = t

(* Whoever has lock_error will unlock it, or is about to lose itself. *)
ErrorLockOK(t) ==
    LET n == Len(stack[t])
    IN owner["ERROR"] = t =>
         /\ n >= 1
         /\ \/ stack[t][n].level = "ERROR" /\ stack[t][n].at \in {"open", "write", "unlock"}
            \/ n >= 2 /\ stack[t][n - 1].level = "ERROR"

(* The threads whose failure has been written and not yet been returned,   *)
(* and those in a call.                                                    *)
Reported(t) ==
    \/ Len(stack[t]) = 1 /\ stack[t][1].at = "report"
    \/ Len(stack[t]) = 2 /\ stack[t][2].at = "unlock"

ReportedSet == {t \in Threads : Reported(t)}
ActiveSet == {t \in Threads : stack[t] # <<>>}

CountInv ==
    /\ failed + Cardinality(ReportedSet) <= lines["ERROR"]
    /\ failed + Cardinality(ActiveSet) <= calls

SlogInv ==
    /\ TypeOK
    /\ \A t \in Threads : StackOK(t) /\ LockOK(t) /\ ErrorLockOK(t)
    /\ CountInv

------------------------------------------------------------------------------
(* What the three ways to change a stack do to it. *)
StackType == stack \in [Threads -> Seq(Frames)]

(* The top call goes on to another place. *)
LEMMA MoveToFacts ==
    ASSUME StackType, NEW t \in Threads, stack[t] # <<>>, NEW place,
           place \in {"lock", "open", "write", "unlock", "report"}, MoveTo(t, place)
    PROVE  /\ StackType'
           /\ \A u \in Threads : u # t => stack'[u] = stack[u]
           /\ Len(stack'[t]) = Len(stack[t])
           /\ stack'[t][Len(stack[t])].level = stack[t][Len(stack[t])].level
           /\ stack'[t][Len(stack[t])].at = place
           /\ \A i \in 1 .. Len(stack[t]) - 1 : stack'[t][i] = stack[t][i]
  <1> DEFINE s == stack[t]
             n == Len(s)
             new == [s EXCEPT ![n].at = place]
  <1>1. s \in Seq(Frames) /\ n \in 1 .. Len(s) /\ s[n] \in Frames
    BY EmptySeq, LenProperties, ElementOfSeq DEF StackType
  <1>2. [s[n] EXCEPT !.at = place] \in Frames
    BY <1>1 DEF Frames
  <1>3. new = [s EXCEPT ![n] = [s[n] EXCEPT !.at = place]]
    BY <1>1
  <1>4. new \in Seq(Frames) /\ Len(new) = n
        /\ new[n] = [s[n] EXCEPT !.at = place]
        /\ \A i \in 1 .. n - 1 : new[i] = s[i]
    BY <1>1, <1>2, <1>3, ExceptSeq
  <1>5. stack' = [stack EXCEPT ![t] = new]
    BY DEF MoveTo
  <1>6. [s[n] EXCEPT !.at = place].level = s[n].level
        /\ [s[n] EXCEPT !.at = place].at = place
    BY <1>1 DEF Frames
  <1> HIDE DEF new
  <1> QED BY <1>4, <1>5, <1>6 DEF StackType

(* The top call returns. *)
LEMMA PopFacts ==
    ASSUME StackType, NEW t \in Threads, stack[t] # <<>>, Pop(t)
    PROVE  /\ StackType'
           /\ \A u \in Threads : u # t => stack'[u] = stack[u]
           /\ Len(stack'[t]) = Len(stack[t]) - 1
           /\ \A i \in 1 .. Len(stack[t]) - 1 : stack'[t][i] = stack[t][i]
  <1>1. stack[t] \in Seq(Frames) /\ Len(stack[t]) \in Nat /\ Len(stack[t]) >= 1
    BY EmptySeq, LenProperties DEF StackType
  <1>2. Front(stack[t]) \in Seq(Frames) /\ Len(Front(stack[t])) = Len(stack[t]) - 1
        /\ \A i \in 1 .. Len(stack[t]) - 1 : Front(stack[t])[i] = stack[t][i]
    BY <1>1, SubSeqProperties DEF Front
  <1> QED BY <1>2 DEF Pop, StackType

(* Two calls on top of the others. *)
LEMMA TwoOnTop ==
    ASSUME NEW S, NEW low \in Seq(S), NEW a \in S, NEW b \in S
    PROVE  /\ Append(low \o <<a>>, b) \in Seq(S)
           /\ Len(Append(low \o <<a>>, b)) = Len(low) + 2
           /\ Append(low \o <<a>>, b)[Len(low) + 1] = a
           /\ Append(low \o <<a>>, b)[Len(low) + 2] = b
           /\ \A i \in 1 .. Len(low) : Append(low \o <<a>>, b)[i] = low[i]
  <1>1. low \o <<a>> = Append(low, a) /\ Append(low, a) \in Seq(S)
    BY AppendIsConcat, AppendProperties
  <1>2. Len(Append(low, a)) = Len(low) + 1 /\ Append(low, a)[Len(low) + 1] = a
        /\ \A i \in 1 .. Len(low) : Append(low, a)[i] = low[i]
    BY AppendProperties
  <1> QED BY <1>1, <1>2, AppendProperties, LenProperties

(* The top call waits in its report, and slog_error is on top of it. *)
LEMMA ReportFacts ==
    ASSUME StackType, NEW t \in Threads, stack[t] # <<>>, Report(t)
    PROVE  /\ StackType'
           /\ \A u \in Threads : u # t => stack'[u] = stack[u]
           /\ Len(stack'[t]) = Len(stack[t]) + 1
           /\ stack'[t][Len(stack[t]) + 1].level = "ERROR"
           /\ stack'[t][Len(stack[t]) + 1].at = "lock"
           /\ stack'[t][Len(stack[t])].level = stack[t][Len(stack[t])].level
           /\ stack'[t][Len(stack[t])].at = "report"
           /\ \A i \in 1 .. Len(stack[t]) - 1 : stack'[t][i] = stack[t][i]
  <1> DEFINE s == stack[t]
             n == Len(s)
             low == Front(s)
             mid == [Top(t) EXCEPT !.at = "report"]
             both == low \o <<mid>>
             new == Append(both, Frame("ERROR"))
  <1>1. s \in Seq(Frames) /\ n \in Nat /\ n >= 1 /\ s[n] \in Frames
    BY EmptySeq, LenProperties, ElementOfSeq DEF StackType
  <1>2. mid \in Frames /\ Frame("ERROR") \in Frames
    BY <1>1 DEF Frames, Frame, Levels, Top, Last
  <1>3. low \in Seq(Frames) /\ Len(low) = n - 1 /\ \A i \in 1 .. n - 1 : low[i] = s[i]
    BY <1>1, SubSeqProperties DEF Front
  <1>4. new \in Seq(Frames) /\ Len(new) = n + 1 /\ new[n + 1] = Frame("ERROR")
        /\ new[n] = mid /\ \A i \in 1 .. n - 1 : new[i] = s[i]
    <2> DEFINE over == Frame("ERROR")
    <2>1. over \in Frames
      BY <1>2
    <2> HIDE DEF low, mid, over
    <2>2. /\ Append(low \o <<mid>>, over) \in Seq(Frames)
          /\ Len(Append(low \o <<mid>>, over)) = Len(low) + 2
          /\ Append(low \o <<mid>>, over)[Len(low) + 1] = mid
          /\ Append(low \o <<mid>>, over)[Len(low) + 2] = over
          /\ \A i \in 1 .. Len(low) : Append(low \o <<mid>>, over)[i] = low[i]
      BY <1>2, <1>3, <2>1, TwoOnTop
    <2>3. Len(low) + 1 = n /\ Len(low) + 2 = n + 1
      BY <1>1, <1>3
    <2> HIDE DEF new, n
    <2>4. new = Append(low \o <<mid>>, over)
      BY DEF new, over
    <2> QED BY <1>3, <2>2, <2>3, <2>4 DEF over
  <1>5. stack' = [stack EXCEPT ![t] = new]
    BY DEF Report
  <1>6. mid.level = s[n].level /\ mid.at = "report"
        /\ Frame("ERROR").level = "ERROR" /\ Frame("ERROR").at = "lock"
    BY <1>1 DEF Frames, Frame, Top, Last
  <1> HIDE DEF new, mid
  <1> QED BY <1>4, <1>5, <1>6 DEF StackType

(* One thread comes to a set of threads, leaves it, or does neither. *)
LEMMA OneThreadCounts ==
    ASSUME NEW A \in SUBSET Threads, NEW B \in SUBSET Threads, NEW t \in Threads,
           \A u \in Threads : u # t => (u \in A <=> u \in B)
    PROVE  /\ Cardinality(A) \in Nat /\ Cardinality(B) \in Nat
           /\ t \in A /\ t \notin B => Cardinality(B) = Cardinality(A) - 1
           /\ t \notin A /\ t \in B => Cardinality(B) = Cardinality(A) + 1
           /\ (t \in A <=> t \in B) => Cardinality(B) = Cardinality(A)
  <1>1. IsFiniteSet(A) /\ Cardinality(A) \in Nat /\ Cardinality(B) \in Nat
    BY ThreadsAssumption, FS_Subset, FS_CardinalityType
  <1>2. ASSUME t \in A, t \notin B PROVE Cardinality(B) = Cardinality(A) - 1
    <2>1. B = A \ {t}
      BY <1>2
    <2> QED BY <1>1, <1>2, <2>1, FS_RemoveElement
  <1>3. ASSUME t \notin A, t \in B PROVE Cardinality(B) = Cardinality(A) + 1
    <2>1. B = A \cup {t}
      BY <1>3
    <2> QED BY <1>1, <1>3, <2>1, FS_AddElement
  <1>4. ASSUME t \in A <=> t \in B PROVE Cardinality(B) = Cardinality(A)
    <2>1. B = A
      BY <1>4
    <2> QED BY <2>1
  <1> QED BY <1>1, <1>2, <1>3, <1>4

(* The two counts, by what a step does to the stack of one thread. *)
LEMMA CountsFollow ==
    ASSUME NEW t \in Threads, \A u \in Threads : u # t => stack'[u] = stack[u]
    PROVE  /\ Cardinality(ReportedSet) \in Nat /\ Cardinality(ActiveSet) \in Nat
           /\ Cardinality(ReportedSet') = Cardinality(ReportedSet)
                 + (IF Reported(t)' THEN 1 ELSE 0) - (IF Reported(t) THEN 1 ELSE 0)
           /\ Cardinality(ActiveSet') = Cardinality(ActiveSet)
                 + (IF stack'[t] # <<>> THEN 1 ELSE 0) - (IF stack[t] # <<>> THEN 1 ELSE 0)
  <1>1. \A u \in Threads : u # t => (u \in ReportedSet <=> u \in ReportedSet')
    BY DEF ReportedSet, Reported
  <1>2. \A u \in Threads : u # t => (u \in ActiveSet <=> u \in ActiveSet')
    BY DEF ActiveSet
  <1>3. ReportedSet \in SUBSET Threads /\ ReportedSet' \in SUBSET Threads
        /\ (t \in ReportedSet <=> Reported(t)) /\ (t \in ReportedSet' <=> Reported(t)')
    BY DEF ReportedSet
  <1>4. ActiveSet \in SUBSET Threads /\ ActiveSet' \in SUBSET Threads
        /\ (t \in ActiveSet <=> stack[t] # <<>>) /\ (t \in ActiveSet' <=> stack'[t] # <<>>)
    BY DEF ActiveSet
  <1> HIDE DEF ReportedSet, ActiveSet, Reported
  <1>5. /\ Cardinality(ReportedSet) \in Nat /\ Cardinality(ReportedSet') \in Nat
        /\ Cardinality(ReportedSet') = Cardinality(ReportedSet)
              + (IF Reported(t)' THEN 1 ELSE 0) - (IF Reported(t) THEN 1 ELSE 0)
    BY <1>1, <1>3, OneThreadCounts
  <1>6. /\ Cardinality(ActiveSet) \in Nat
        /\ Cardinality(ActiveSet') = Cardinality(ActiveSet)
              + (IF stack'[t] # <<>> THEN 1 ELSE 0) - (IF stack[t] # <<>> THEN 1 ELSE 0)
    BY <1>2, <1>4, OneThreadCounts
  <1> QED BY <1>5, <1>6

(* Nobody is in a call at first. *)
(* Nobody is in a call at first. *)
(* Nobody is in a call at first. *)
(* Nobody is in a call at first. *)
(* Nobody is in a call at first. *)
(* Nobody is in a call at first. *)
(* Nobody is in a call at first. *)
(* Nobody is in a call at first. *)
LEMMA InitEstablishes == Init => SlogInv
  <1> SUFFICES ASSUME Init PROVE SlogInv
    OBVIOUS
  <1>1. \A t \in Threads : stack[t] = <<>> /\ Len(stack[t]) = 0 /\ <<>> \in Seq(Frames)
    BY DEF Init
  <1>2. ReportedSet = {} /\ ActiveSet = {}
    BY <1>1 DEF ReportedSet, ActiveSet, Reported
  <1>3. CountInv
    BY <1>2, FS_EmptySet DEF CountInv, Init, Levels
  <1>4. TypeOK
    <2>1. stack \in [Threads -> Seq(Frames)] /\ \A t \in Threads : Len(stack[t]) <= 3
      BY <1>1 DEF Init
    <2>2. calls \in 0 .. MaxCalls /\ failed \in 0 .. calls
      BY CallsAssumption DEF Init
    <2>3. owner \in [Levels -> Threads \cup {NULL}] /\ lines \in [Levels -> Nat]
      BY DEF Init
    <2> QED BY <2>1, <2>2, <2>3 DEF Init, TypeOK
  <1>5. ASSUME NEW t \in Threads PROVE StackOK(t) /\ LockOK(t) /\ ErrorLockOK(t)
    BY <1>1, <1>5, NullAssumption DEF Init, StackOK, LockOK, ErrorLockOK, Levels
  <1> QED BY <1>3, <1>4, <1>5 DEF SlogInv

(* What the invariant says of one thread. *)
LEMMA ThreadFacts ==
    ASSUME SlogInv, NEW t \in Threads
    PROVE  /\ StackOK(t) /\ LockOK(t) /\ ErrorLockOK(t) /\ StackType
           /\ Len(stack[t]) \in Nat /\ Len(stack[t]) <= 3
           /\ stack[t] = <<>> <=> Len(stack[t]) = 0
           /\ \A i \in 1 .. Len(stack[t]) : stack[t][i].level \in Levels
           /\ owner \in [Levels -> Threads \cup {NULL}] /\ "ERROR" \in Levels
  <1>1. stack[t] \in Seq(Frames)
    BY DEF SlogInv, TypeOK
  <1>2. \A i \in 1 .. Len(stack[t]) : stack[t][i] \in Frames
    BY <1>1, ElementOfSeq
  <1>3. \A i \in 1 .. Len(stack[t]) : stack[t][i].level \in Levels
    BY <1>2 DEF Frames
  <1>4. Len(stack[t]) \in Nat /\ (stack[t] = <<>> <=> Len(stack[t]) = 0)
    BY <1>1, EmptySeq, LenProperties
  <1> QED BY <1>3, <1>4 DEF SlogInv, TypeOK, StackType, Levels

(* A step of t leaves the other threads what they have. *)
LEMMA OthersKeep ==
    ASSUME SlogInv, NEW t \in Threads,
           \A u \in Threads : u # t => stack'[u] = stack[u],
           \A l \in Levels : owner'[l] = owner[l] \/ {owner[l], owner'[l]} = {NULL, t},
           NEW u \in Threads, u # t
    PROVE  StackOK(u)' /\ LockOK(u)' /\ ErrorLockOK(u)'
  <1>1. stack'[u] = stack[u] /\ StackOK(u) /\ LockOK(u) /\ ErrorLockOK(u)
    BY DEF SlogInv
  <1>2. \A l \in Levels : owner'[l] = u <=> owner[l] = u
    BY NullAssumption
  <1>3. \A i \in 1 .. Len(stack[u]) : stack[u][i].level \in Levels
    BY ThreadFacts
  <1>4. "ERROR" \in Levels
    BY DEF Levels
  <1> QED BY <1>1, <1>2, <1>3, <1>4 DEF StackOK, LockOK, ErrorLockOK

One(b) == IF b THEN 1 ELSE 0

(* The counts, over a step that counts what it ends and begins for t. *)
LEMMA CountsStep ==
    ASSUME CountInv, NEW t \in Threads, \A u \in Threads : u # t => stack'[u] = stack[u],
           lines["ERROR"] \in Nat, lines'["ERROR"] \in Nat, calls \in Nat, calls' \in Nat,
           failed \in Nat, failed' \in Nat,
           failed' - failed + One(Reported(t)') - One(Reported(t))
               <= lines'["ERROR"] - lines["ERROR"],
           failed' - failed + One(stack'[t] # <<>>) - One(stack[t] # <<>>) <= calls' - calls
    PROVE  CountInv' /\ failed' <= calls'
  <1> DEFINE R == Cardinality(ReportedSet)
             RR == Cardinality(ReportedSet')
             A == Cardinality(ActiveSet)
             AA == Cardinality(ActiveSet')
             r == One(Reported(t))
             rr == One(Reported(t)')
             a == One(stack[t] # <<>>)
             aa == One(stack'[t] # <<>>)
  <1>1. R \in Nat /\ RR = R + rr - r /\ A \in Nat /\ AA = A + aa - a
    BY CountsFollow DEF One
  <1>2. r \in Nat /\ rr \in Nat /\ a \in Nat /\ aa \in Nat
    BY DEF One
  <1>3. AA \in Nat
    <2>1. ActiveSet' \in SUBSET Threads
      BY DEF ActiveSet
    <2>2. IsFiniteSet(ActiveSet')
      BY <2>1, ThreadsAssumption, FS_Subset
    <2> QED BY <2>2, FS_CardinalityType
  <1>4. failed + R <= lines["ERROR"] /\ failed + A <= calls
    BY DEF CountInv
  <1>5. failed' - failed + rr - r <= lines'["ERROR"] - lines["ERROR"]
        /\ failed' - failed + aa - a <= calls' - calls
    OBVIOUS
  <1> HIDE DEF R, RR, A, AA, r, rr, a, aa
  <1>6. \A f, ff, n, nn, u, v, m, mm \in Nat :
           f + n <= m /\ nn = n + v - u /\ ff - f + v - u <= mm - m => ff + nn <= mm
    OBVIOUS
  <1>7. failed' + RR <= lines'["ERROR"] /\ failed' + AA <= calls'
    <2>1. RR \in Nat
      <3>1. ReportedSet' \in SUBSET Threads
        BY DEF ReportedSet
      <3>2. IsFiniteSet(ReportedSet')
        BY <3>1, ThreadsAssumption, FS_Subset
      <3> QED BY <3>2, FS_CardinalityType DEF RR
    <2>2. failed' + RR <= lines'["ERROR"]
      BY <1>1, <1>2, <1>4, <1>5, <1>6, <2>1
    <2>3. failed' + AA <= calls'
      <3>1. A \in Nat /\ AA \in Nat /\ a \in Nat /\ aa \in Nat /\ AA = A + aa - a
        BY <1>1, <1>2, <1>3
      <3>2. failed + A <= calls /\ failed' - failed + aa - a <= calls' - calls
        BY <1>4, <1>5
      <3> QED BY <1>6, <3>1, <3>2
    <2> QED BY <2>2, <2>3
  <1>8. failed' <= calls'
    <2>1. \A f, c, m \in Nat : f + c <= m => f <= m
      OBVIOUS
    <2> QED BY <1>3, <1>7, <2>1
  <1> QED BY <1>6, <1>7, <1>8 DEF CountInv, RR, AA

(* A step of t that does right by t keeps the invariant. *)
LEMMA OneThreadSteps ==
    ASSUME SlogInv, NEW t \in Threads, StackType',
           \A u \in Threads : u # t => stack'[u] = stack[u],
           owner' \in [Levels -> Threads \cup {NULL}],
           \A l \in Levels : owner'[l] = owner[l] \/ {owner[l], owner'[l]} = {NULL, t},
           StackOK(t)', LockOK(t)', ErrorLockOK(t)',
           overflow' \in BOOLEAN, unopened' \subseteq Levels, lines' \in [Levels -> Nat],
           calls' \in 0 .. MaxCalls, failed' \in Nat,
           failed' - failed + One(Reported(t)') - One(Reported(t))
               <= lines'["ERROR"] - lines["ERROR"],
           failed' - failed + One(stack'[t] # <<>>) - One(stack[t] # <<>>) <= calls' - calls
    PROVE  SlogInv'
  <1>1. \A u \in Threads : StackOK(u)' /\ LockOK(u)' /\ ErrorLockOK(u)'
    BY OthersKeep
  <1>2. /\ lines["ERROR"] \in Nat /\ lines'["ERROR"] \in Nat
        /\ calls \in Nat /\ calls' \in Nat /\ failed \in Nat /\ CountInv
    BY CallsAssumption DEF SlogInv, TypeOK, Levels
  <1>3. CountInv' /\ failed' <= calls'
    BY <1>2, CountsStep
  <1>4. TypeOK'
    BY <1>1, <1>2, <1>3 DEF TypeOK, StackType, StackOK
  <1> QED BY <1>1, <1>3, <1>4 DEF SlogInv

(* The top call takes its lock: nobody has lost itself on that lock. *)
LEMMA LockPreserves ==
    ASSUME SlogInv, NEW t \in Threads, Lock(t)
    PROVE  SlogInv'
  <1> DEFINE n == Len(stack[t])
  <1>0. n \in 1 .. 3 /\ stack[t] # <<>> /\ Top(t) = stack[t][n]
    <2>1. stack[t] # <<>>
      BY DEF Lock, At
    <2>2. n \in Nat /\ n <= 3 /\ n # 0
      BY <2>1, ThreadFacts
    <2>3. n \in 1 .. 3
      <3> HIDE DEF n
      <3> QED BY <2>2
    <2> QED BY <2>1, <2>3 DEF Top, Last
  <1>1. n \in 1 .. 3 /\ stack[t][n].at = "lock" /\ owner[stack[t][n].level] = NULL
    BY <1>0 DEF Lock, At
  <1>2. /\ StackType' /\ \A u \in Threads : u # t => stack'[u] = stack[u]
        /\ Len(stack'[t]) = n
        /\ stack'[t][n].level = stack[t][n].level /\ stack'[t][n].at = "open"
        /\ \A i \in 1 .. n - 1 : stack'[t][i] = stack[t][i]
    BY <1>0, ThreadFacts, MoveToFacts DEF Lock
  <1>3. owner' = [owner EXCEPT ![stack[t][n].level] = t] /\ stack[t][n].level \in Levels
        /\ owner' \in [Levels -> Threads \cup {NULL}]
    BY <1>0, <1>1, ThreadFacts DEF Lock
  <1>4. /\ StackOK(t)' /\ LockOK(t)' /\ ErrorLockOK(t)'
        /\ (Reported(t)' <=> Reported(t))
    <2>1. CASE n = 1
      BY <1>1, <1>2, <1>3, <2>1, ThreadFacts, NullAssumption
         DEF StackOK, LockOK, ErrorLockOK, Reported
    <2>2. CASE n = 2
      BY <1>1, <1>2, <1>3, <2>2, ThreadFacts, NullAssumption
         DEF StackOK, LockOK, ErrorLockOK, Reported
    <2>3. CASE n = 3
      BY <1>1, <1>2, <1>3, <2>3, ThreadFacts, NullAssumption
         DEF StackOK, LockOK, ErrorLockOK, Reported
    <2> QED BY <1>1, <2>1, <2>2, <2>3
  <1>5. \A l \in Levels : owner'[l] = owner[l] \/ {owner[l], owner'[l]} = {NULL, t}
    BY <1>1, <1>3, ThreadFacts DEF LockOK
  <1>6. /\ calls' = calls /\ failed' = failed /\ lines' = lines
        /\ lines' \in [Levels -> Nat] /\ calls' \in 0 .. MaxCalls
        /\ failed' \in Nat /\ overflow' \in BOOLEAN /\ unopened' \subseteq Levels
    BY <1>0, <1>1, <1>3, ThreadFacts, CallsAssumption DEF Lock, SlogInv, TypeOK
  <1>7. /\ failed' - failed + One(Reported(t)') - One(Reported(t))
              <= lines'["ERROR"] - lines["ERROR"]
        /\ failed' - failed + One(stack'[t] # <<>>) - One(stack[t] # <<>>) <= calls' - calls
    <2>1. stack[t] # <<>> /\ (stack'[t] # <<>> <=> Len(stack'[t]) # 0)
      <3>1. stack'[t] \in Seq(Frames)
        BY <1>2 DEF StackType
      <3> QED BY <1>0, <3>1, EmptySeq
    <2>2. calls \in Nat /\ failed \in Nat /\ lines["ERROR"] \in Nat
      BY CallsAssumption DEF SlogInv, TypeOK, Levels
    <2> HIDE DEF Reported
    <2> QED BY <1>1, <1>2, <1>4, <1>6, <2>1, <2>2 DEF One
  <1> QED BY <1>2, <1>3, <1>4, <1>5, <1>6, <1>7, OneThreadSteps

(* The lock is kept over fopen. *)
LEMMA OpenPreserves ==
    ASSUME SlogInv, NEW t \in Threads, Open(t)
    PROVE  SlogInv'
  <1> DEFINE n == Len(stack[t])
  <1>0. n \in 1 .. 3 /\ stack[t] # <<>> /\ Top(t) = stack[t][n]
    <2>1. stack[t] # <<>>
      BY DEF Open, At
    <2>2. n \in Nat /\ n <= 3 /\ n # 0
      BY <2>1, ThreadFacts
    <2>3. n \in 1 .. 3
      <3> HIDE DEF n
      <3> QED BY <2>2
    <2> QED BY <2>1, <2>3 DEF Top, Last
  <1>1. n \in 1 .. 3 /\ stack[t][n].at = "open"
    BY <1>0 DEF Open, At
  <1>2. /\ StackType' /\ \A u \in Threads : u # t => stack'[u] = stack[u]
        /\ Len(stack'[t]) = n
        /\ stack'[t][n].level = stack[t][n].level /\ stack'[t][n].at = "write"
        /\ \A i \in 1 .. n - 1 : stack'[t][i] = stack[t][i]
    BY <1>0, ThreadFacts, MoveToFacts DEF Open
  <1>3. owner' = owner /\ stack[t][n].level \in Levels
        /\ owner' \in [Levels -> Threads \cup {NULL}]
    BY <1>0, <1>1, ThreadFacts DEF Open
  <1>4. /\ StackOK(t)' /\ LockOK(t)' /\ ErrorLockOK(t)'
        /\ (Reported(t)' <=> Reported(t))
    <2>1. CASE n = 1
      BY <1>1, <1>2, <1>3, <2>1, ThreadFacts, NullAssumption
         DEF StackOK, LockOK, ErrorLockOK, Reported
    <2>2. CASE n = 2
      BY <1>1, <1>2, <1>3, <2>2, ThreadFacts, NullAssumption
         DEF StackOK, LockOK, ErrorLockOK, Reported
    <2>3. CASE n = 3
      BY <1>1, <1>2, <1>3, <2>3, ThreadFacts, NullAssumption
         DEF StackOK, LockOK, ErrorLockOK, Reported
    <2> QED BY <1>1, <2>1, <2>2, <2>3
  <1>5. \A l \in Levels : owner'[l] = owner[l] \/ {owner[l], owner'[l]} = {NULL, t}
    BY <1>1, <1>3, ThreadFacts DEF LockOK
  <1>6. /\ calls' = calls /\ failed' = failed /\ lines' = lines
        /\ lines' \in [Levels -> Nat] /\ calls' \in 0 .. MaxCalls
        /\ failed' \in Nat /\ overflow' \in BOOLEAN /\ unopened' \subseteq Levels
    BY <1>0, <1>1, <1>3, ThreadFacts, CallsAssumption DEF Open, SlogInv, TypeOK
  <1>7. /\ failed' - failed + One(Reported(t)') - One(Reported(t))
              <= lines'["ERROR"] - lines["ERROR"]
        /\ failed' - failed + One(stack'[t] # <<>>) - One(stack[t] # <<>>) <= calls' - calls
    <2>1. stack[t] # <<>> /\ (stack'[t] # <<>> <=> Len(stack'[t]) # 0)
      <3>1. stack'[t] \in Seq(Frames)
        BY <1>2 DEF StackType
      <3> QED BY <1>0, <3>1, EmptySeq
    <2>2. calls \in Nat /\ failed \in Nat /\ lines["ERROR"] \in Nat
      BY CallsAssumption DEF SlogInv, TypeOK, Levels
    <2> HIDE DEF Reported
    <2> QED BY <1>1, <1>2, <1>4, <1>6, <2>1, <2>2 DEF One
  <1> QED BY <1>2, <1>3, <1>4, <1>5, <1>6, <1>7, OneThreadSteps

(* A line at ERROR is what makes a failure a reported one. *)
LEMMA WritePreserves ==
    ASSUME SlogInv, NEW t \in Threads, Write(t)
    PROVE  SlogInv'
  <1> DEFINE n == Len(stack[t])
  <1>0. n \in 1 .. 3 /\ stack[t] # <<>> /\ Top(t) = stack[t][n]
    <2>1. stack[t] # <<>>
      BY DEF Write, At
    <2>2. n \in Nat /\ n <= 3 /\ n # 0
      BY <2>1, ThreadFacts
    <2>3. n \in 1 .. 3
      <3> HIDE DEF n
      <3> QED BY <2>2
    <2> QED BY <2>1, <2>3 DEF Top, Last
  <1>1. n \in 1 .. 3 /\ stack[t][n].at = "write"
    BY <1>0 DEF Write, At
  <1>2. /\ StackType' /\ \A u \in Threads : u # t => stack'[u] = stack[u]
        /\ Len(stack'[t]) = n
        /\ stack'[t][n].level = stack[t][n].level /\ stack'[t][n].at = "unlock"
        /\ \A i \in 1 .. n - 1 : stack'[t][i] = stack[t][i]
    BY <1>0, ThreadFacts, MoveToFacts DEF Write
  <1>3. owner' = owner /\ stack[t][n].level \in Levels
        /\ owner' \in [Levels -> Threads \cup {NULL}]
    BY <1>0, <1>1, ThreadFacts DEF Write
  <1>4. /\ StackOK(t)' /\ LockOK(t)' /\ ErrorLockOK(t)'
        /\ ~Reported(t) /\ (Reported(t)' => n = 2 /\ stack[t][n].level = "ERROR")
    <2>1. CASE n = 1
      BY <1>1, <1>2, <1>3, <2>1, ThreadFacts, NullAssumption
         DEF StackOK, LockOK, ErrorLockOK, Reported
    <2>2. CASE n = 2
      BY <1>1, <1>2, <1>3, <2>2, ThreadFacts, NullAssumption
         DEF StackOK, LockOK, ErrorLockOK, Reported
    <2>3. CASE n = 3
      BY <1>1, <1>2, <1>3, <2>3, ThreadFacts, NullAssumption
         DEF StackOK, LockOK, ErrorLockOK, Reported
    <2> QED BY <1>1, <2>1, <2>2, <2>3
  <1>5. \A l \in Levels : owner'[l] = owner[l] \/ {owner[l], owner'[l]} = {NULL, t}
    BY <1>1, <1>3, ThreadFacts DEF LockOK
  <1>6. /\ calls' = calls /\ failed' = failed
        /\ lines' = [lines EXCEPT ![stack[t][n].level] = @ + 1]
        /\ lines' \in [Levels -> Nat] /\ calls' \in 0 .. MaxCalls
        /\ failed' \in Nat /\ overflow' \in BOOLEAN /\ unopened' \subseteq Levels
    BY <1>0, <1>1, <1>3, ThreadFacts, CallsAssumption DEF Write, SlogInv, TypeOK
  <1>7. /\ failed' - failed + One(Reported(t)') - One(Reported(t))
              <= lines'["ERROR"] - lines["ERROR"]
        /\ failed' - failed + One(stack'[t] # <<>>) - One(stack[t] # <<>>) <= calls' - calls
    <2>1. stack[t] # <<>> /\ (stack'[t] # <<>> <=> Len(stack'[t]) # 0)
      <3>1. stack'[t] \in Seq(Frames)
        BY <1>2 DEF StackType
      <3> QED BY <1>0, <3>1, EmptySeq
    <2>2. calls \in Nat /\ failed \in Nat /\ lines["ERROR"] \in Nat
      BY CallsAssumption DEF SlogInv, TypeOK, Levels
    <2> HIDE DEF Reported
    <2> QED BY <1>1, <1>2, <1>4, <1>6, <2>1, <2>2 DEF One
  <1> QED BY <1>2, <1>3, <1>4, <1>5, <1>6, <1>7, OneThreadSteps

(* A report that has been written returns to the call that failed. *)
LEMMA UnlockPreserves ==
    ASSUME SlogInv, NEW t \in Threads, Unlock(t)
    PROVE  SlogInv'
  <1> DEFINE n == Len(stack[t])
  <1>0. n \in 1 .. 3 /\ stack[t] # <<>> /\ Top(t) = stack[t][n]
    <2>1. stack[t] # <<>>
      BY DEF Unlock, At
    <2>2. n \in Nat /\ n <= 3 /\ n # 0
      BY <2>1, ThreadFacts
    <2>3. n \in 1 .. 3
      <3> HIDE DEF n
      <3> QED BY <2>2
    <2> QED BY <2>1, <2>3 DEF Top, Last
  <1>1. n \in 1 .. 3 /\ stack[t][n].at = "unlock"
    BY <1>0 DEF Unlock, At
  <1>2. /\ StackType' /\ \A u \in Threads : u # t => stack'[u] = stack[u]
        /\ Len(stack'[t]) = n - 1
        /\ \A i \in 1 .. n - 1 : stack'[t][i] = stack[t][i]
    BY <1>0, ThreadFacts, PopFacts DEF Unlock
  <1>3. owner' = [owner EXCEPT ![stack[t][n].level] = NULL] /\ stack[t][n].level \in Levels
        /\ owner' \in [Levels -> Threads \cup {NULL}]
    BY <1>0, <1>1, ThreadFacts DEF Unlock
  <1>4. /\ StackOK(t)' /\ LockOK(t)' /\ ErrorLockOK(t)'
        /\ (Reported(t)' <=> Reported(t))
    <2>1. CASE n = 1
      BY <1>1, <1>2, <1>3, <2>1, ThreadFacts, NullAssumption
         DEF StackOK, LockOK, ErrorLockOK, Reported
    <2>2. CASE n = 2
      BY <1>1, <1>2, <1>3, <2>2, ThreadFacts, NullAssumption
         DEF StackOK, LockOK, ErrorLockOK, Reported
    <2>3. CASE n = 3
      BY <1>1, <1>2, <1>3, <2>3, ThreadFacts, NullAssumption
         DEF StackOK, LockOK, ErrorLockOK, Reported
    <2> QED BY <1>1, <2>1, <2>2, <2>3
  <1>5. \A l \in Levels : owner'[l] = owner[l] \/ {owner[l], owner'[l]} = {NULL, t}
    BY <1>1, <1>3, ThreadFacts DEF LockOK
  <1>6. /\ calls' = calls /\ failed' = failed /\ lines' = lines
        /\ lines' \in [Levels -> Nat] /\ calls' \in 0 .. MaxCalls
        /\ failed' \in Nat /\ overflow' \in BOOLEAN /\ unopened' \subseteq Levels
    BY <1>0, <1>1, <1>3, ThreadFacts, CallsAssumption DEF Unlock, SlogInv, TypeOK
  <1>7. /\ failed' - failed + One(Reported(t)') - One(Reported(t))
              <= lines'["ERROR"] - lines["ERROR"]
        /\ failed' - failed + One(stack'[t] # <<>>) - One(stack[t] # <<>>) <= calls' - calls
    <2>1. stack[t] # <<>> /\ (stack'[t] # <<>> <=> Len(stack'[t]) # 0)
      <3>1. stack'[t] \in Seq(Frames)
        BY <1>2 DEF StackType
      <3> QED BY <1>0, <3>1, EmptySeq
    <2>2. calls \in Nat /\ failed \in Nat /\ lines["ERROR"] \in Nat
      BY CallsAssumption DEF SlogInv, TypeOK, Levels
    <2> HIDE DEF Reported
    <2> QED BY <1>1, <1>2, <1>4, <1>6, <2>1, <2>2 DEF One
  <1> QED BY <1>2, <1>3, <1>4, <1>5, <1>6, <1>7, OneThreadSteps

(* Only the outermost call comes to "return -1", with its failure reported. *)
LEMMA ReturnErrorPreserves ==
    ASSUME SlogInv, NEW t \in Threads, ReturnError(t)
    PROVE  SlogInv'
  <1> DEFINE n == Len(stack[t])
  <1>0. n \in 1 .. 3 /\ stack[t] # <<>> /\ Top(t) = stack[t][n]
    <2>1. stack[t] # <<>>
      BY DEF ReturnError, At
    <2>2. n \in Nat /\ n <= 3 /\ n # 0
      BY <2>1, ThreadFacts
    <2>3. n \in 1 .. 3
      <3> HIDE DEF n
      <3> QED BY <2>2
    <2> QED BY <2>1, <2>3 DEF Top, Last
  <1>1. n \in 1 .. 3 /\ stack[t][n].at = "report"
    BY <1>0 DEF ReturnError, At
  <1>2. /\ StackType' /\ \A u \in Threads : u # t => stack'[u] = stack[u]
        /\ Len(stack'[t]) = n - 1
        /\ \A i \in 1 .. n - 1 : stack'[t][i] = stack[t][i]
    BY <1>0, ThreadFacts, PopFacts DEF ReturnError
  <1>3. owner' = owner /\ stack[t][n].level \in Levels
        /\ owner' \in [Levels -> Threads \cup {NULL}]
    BY <1>0, <1>1, ThreadFacts DEF ReturnError
  <1>4. /\ StackOK(t)' /\ LockOK(t)' /\ ErrorLockOK(t)'
        /\ n = 1 /\ Reported(t) /\ ~Reported(t)'
    <2>1. CASE n = 1
      BY <1>1, <1>2, <1>3, <2>1, ThreadFacts, NullAssumption
         DEF StackOK, LockOK, ErrorLockOK, Reported
    <2>2. CASE n = 2
      BY <1>1, <1>2, <1>3, <2>2, ThreadFacts, NullAssumption
         DEF StackOK, LockOK, ErrorLockOK, Reported
    <2>3. CASE n = 3
      BY <1>1, <1>2, <1>3, <2>3, ThreadFacts, NullAssumption
         DEF StackOK, LockOK, ErrorLockOK, Reported
    <2> QED BY <1>1, <2>1, <2>2, <2>3
  <1>5. \A l \in Levels : owner'[l] = owner[l] \/ {owner[l], owner'[l]} = {NULL, t}
    BY <1>1, <1>3, ThreadFacts DEF LockOK
  <1>6. /\ calls' = calls /\ failed' = failed + 1 /\ lines' = lines
        /\ lines' \in [Levels -> Nat] /\ calls' \in 0 .. MaxCalls
        /\ failed' \in Nat /\ overflow' \in BOOLEAN /\ unopened' \subseteq Levels
    BY <1>0, <1>1, <1>3, ThreadFacts, CallsAssumption DEF ReturnError, SlogInv, TypeOK
  <1>7. /\ failed' - failed + One(Reported(t)') - One(Reported(t))
              <= lines'["ERROR"] - lines["ERROR"]
        /\ failed' - failed + One(stack'[t] # <<>>) - One(stack[t] # <<>>) <= calls' - calls
    <2>1. stack[t] # <<>> /\ (stack'[t] # <<>> <=> Len(stack'[t]) # 0)
      <3>1. stack'[t] \in Seq(Frames)
        BY <1>2 DEF StackType
      <3> QED BY <1>0, <3>1, EmptySeq
    <2>2. calls \in Nat /\ failed \in Nat /\ lines["ERROR"] \in Nat
      BY CallsAssumption DEF SlogInv, TypeOK, Levels
    <2> HIDE DEF Reported
    <2> QED BY <1>1, <1>2, <1>4, <1>6, <2>1, <2>2 DEF One
  <1> QED BY <1>2, <1>3, <1>4, <1>5, <1>6, <1>7, OneThreadSteps

(* fopen fails with the lock held: a call at ERROR will not get out. *)
LEMMA OpenFailsPreserves ==
    ASSUME SlogInv, NEW t \in Threads, OpenFails(t)
    PROVE  SlogInv'
  <1> DEFINE n == Len(stack[t])
  <1>0. n \in 1 .. 3 /\ stack[t] # <<>> /\ Top(t) = stack[t][n]
    <2>1. stack[t] # <<>>
      BY DEF OpenFails, At
    <2>2. n \in Nat /\ n <= 3 /\ n # 0
      BY <2>1, ThreadFacts
    <2>3. n \in 1 .. 3
      <3> HIDE DEF n
      <3> QED BY <2>2
    <2> QED BY <2>1, <2>3 DEF Top, Last
  <1>1. n \in 1 .. 3 /\ stack[t][n].at = "open"
    BY <1>0 DEF OpenFails, At
  <1>2. /\ StackType' /\ \A u \in Threads : u # t => stack'[u] = stack[u]
        /\ Len(stack'[t]) = n + 1
        /\ stack'[t][n + 1].level = "ERROR" /\ stack'[t][n + 1].at = "lock"
        /\ stack'[t][n].level = stack[t][n].level /\ stack'[t][n].at = "report"
        /\ \A i \in 1 .. n - 1 : stack'[t][i] = stack[t][i]
    BY <1>0, ThreadFacts, ReportFacts DEF OpenFails
  <1>3. owner' = owner /\ stack[t][n].level \in Levels
        /\ owner' \in [Levels -> Threads \cup {NULL}]
    BY <1>0, <1>1, ThreadFacts DEF OpenFails
  <1>4. /\ StackOK(t)' /\ LockOK(t)' /\ ErrorLockOK(t)'
        /\ ~Reported(t) /\ ~Reported(t)'
    <2>1. CASE n = 1
      BY <1>1, <1>2, <1>3, <2>1, ThreadFacts, NullAssumption
         DEF StackOK, LockOK, ErrorLockOK, Reported
    <2>2. CASE n = 2
      BY <1>1, <1>2, <1>3, <2>2, ThreadFacts, NullAssumption
         DEF StackOK, LockOK, ErrorLockOK, Reported
    <2>3. CASE n = 3
      BY <1>1, <1>2, <1>3, <2>3, ThreadFacts, NullAssumption
         DEF StackOK, LockOK, ErrorLockOK, Reported
    <2> QED BY <1>1, <2>1, <2>2, <2>3
  <1>5. \A l \in Levels : owner'[l] = owner[l] \/ {owner[l], owner'[l]} = {NULL, t}
    BY <1>1, <1>3, ThreadFacts DEF LockOK
  <1>6. /\ calls' = calls /\ failed' = failed /\ lines' = lines
        /\ lines' \in [Levels -> Nat] /\ calls' \in 0 .. MaxCalls
        /\ failed' \in Nat /\ overflow' \in BOOLEAN /\ unopened' \subseteq Levels
    BY <1>0, <1>1, <1>3, ThreadFacts, CallsAssumption DEF OpenFails, SlogInv, TypeOK
  <1>7. /\ failed' - failed + One(Reported(t)') - One(Reported(t))
              <= lines'["ERROR"] - lines["ERROR"]
        /\ failed' - failed + One(stack'[t] # <<>>) - One(stack[t] # <<>>) <= calls' - calls
    <2>1. stack[t] # <<>> /\ (stack'[t] # <<>> <=> Len(stack'[t]) # 0)
      <3>1. stack'[t] \in Seq(Frames)
        BY <1>2 DEF StackType
      <3> QED BY <1>0, <3>1, EmptySeq
    <2>2. calls \in Nat /\ failed \in Nat /\ lines["ERROR"] \in Nat
      BY CallsAssumption DEF SlogInv, TypeOK, Levels
    <2> HIDE DEF Reported
    <2> QED BY <1>1, <1>2, <1>4, <1>6, <2>1, <2>2 DEF One
  <1> QED BY <1>2, <1>3, <1>4, <1>5, <1>6, <1>7, OneThreadSteps

(* A lock of another level that t has left locked is reported. *)
LEMMA LockFailsPreserves ==
    ASSUME SlogInv, NEW t \in Threads, LockFails(t), Top(t).level # "ERROR"
    PROVE  SlogInv'
  <1> DEFINE n == Len(stack[t])
  <1>0. n \in 1 .. 3 /\ stack[t] # <<>> /\ Top(t) = stack[t][n]
    <2>1. stack[t] # <<>>
      BY DEF LockFails, At
    <2>2. n \in Nat /\ n <= 3 /\ n # 0
      BY <2>1, ThreadFacts
    <2>3. n \in 1 .. 3
      <3> HIDE DEF n
      <3> QED BY <2>2
    <2> QED BY <2>1, <2>3 DEF Top, Last
  <1>1. n \in 1 .. 3 /\ stack[t][n].at = "lock" /\ stack[t][n].level # "ERROR"
    BY <1>0 DEF LockFails, At
  <1>2. /\ StackType' /\ \A u \in Threads : u # t => stack'[u] = stack[u]
        /\ Len(stack'[t]) = n + 1
        /\ stack'[t][n + 1].level = "ERROR" /\ stack'[t][n + 1].at = "lock"
        /\ stack'[t][n].level = stack[t][n].level /\ stack'[t][n].at = "report"
        /\ \A i \in 1 .. n - 1 : stack'[t][i] = stack[t][i]
    BY <1>0, ThreadFacts, ReportFacts DEF LockFails
  <1>3. owner' = owner /\ stack[t][n].level \in Levels
        /\ owner' \in [Levels -> Threads \cup {NULL}]
    BY <1>0, <1>1, ThreadFacts DEF LockFails
  <1>4. /\ StackOK(t)' /\ LockOK(t)' /\ ErrorLockOK(t)'
        /\ ~Reported(t) /\ ~Reported(t)'
    <2>1. CASE n = 1
      BY <1>1, <1>2, <1>3, <2>1, ThreadFacts, NullAssumption
         DEF StackOK, LockOK, ErrorLockOK, Reported
    <2>2. CASE n = 2
      BY <1>1, <1>2, <1>3, <2>2, ThreadFacts, NullAssumption
         DEF StackOK, LockOK, ErrorLockOK, Reported
    <2>3. CASE n = 3
      BY <1>1, <1>2, <1>3, <2>3, ThreadFacts, NullAssumption
         DEF StackOK, LockOK, ErrorLockOK, Reported
    <2> QED BY <1>1, <2>1, <2>2, <2>3
  <1>5. \A l \in Levels : owner'[l] = owner[l] \/ {owner[l], owner'[l]} = {NULL, t}
    BY <1>1, <1>3, ThreadFacts DEF LockOK
  <1>6. /\ calls' = calls /\ failed' = failed /\ lines' = lines
        /\ lines' \in [Levels -> Nat] /\ calls' \in 0 .. MaxCalls
        /\ failed' \in Nat /\ overflow' \in BOOLEAN /\ unopened' \subseteq Levels
    BY <1>0, <1>1, <1>3, ThreadFacts, CallsAssumption DEF LockFails, SlogInv, TypeOK
  <1>7. /\ failed' - failed + One(Reported(t)') - One(Reported(t))
              <= lines'["ERROR"] - lines["ERROR"]
        /\ failed' - failed + One(stack'[t] # <<>>) - One(stack[t] # <<>>) <= calls' - calls
    <2>1. stack[t] # <<>> /\ (stack'[t] # <<>> <=> Len(stack'[t]) # 0)
      <3>1. stack'[t] \in Seq(Frames)
        BY <1>2 DEF StackType
      <3> QED BY <1>0, <3>1, EmptySeq
    <2>2. calls \in Nat /\ failed \in Nat /\ lines["ERROR"] \in Nat
      BY CallsAssumption DEF SlogInv, TypeOK, Levels
    <2> HIDE DEF Reported
    <2> QED BY <1>1, <1>2, <1>4, <1>6, <2>1, <2>2 DEF One
  <1> QED BY <1>2, <1>3, <1>4, <1>5, <1>6, <1>7, OneThreadSteps

(* slog() is entered by a thread that is in no call, and holds no lock. *)
LEMMA CallPreserves ==
    ASSUME SlogInv, NEW t \in Threads, NEW level \in Levels, Call(t, level)
    PROVE  SlogInv'
  <1>1. stack[t] = <<>> /\ Len(stack[t]) = 0 /\ StackType
    BY ThreadFacts DEF Call
  <1>2. Frame(level) \in Frames /\ Frame(level).at = "lock" /\ Frame(level).level = level
    BY DEF Frame, Frames
  <1>3. <<Frame(level)>> \in Seq(Frames) /\ Len(<<Frame(level)>>) = 1
        /\ <<Frame(level)>>[1] = Frame(level)
    <2> HIDE DEF Frame
    <2> QED BY <1>2
  <1>4. /\ StackType' /\ \A u \in Threads : u # t => stack'[u] = stack[u]
        /\ stack'[t] = <<Frame(level)>>
    BY <1>1, <1>3 DEF Call, StackType
  <1>5. StackOK(t)' /\ LockOK(t)' /\ ErrorLockOK(t)' /\ ~Reported(t) /\ ~Reported(t)'
    <2>1. Len(stack'[t]) = 1 /\ stack'[t][1].at = "lock" /\ owner' = owner
      BY <1>2, <1>3, <1>4 DEF Call
    <2> QED BY <1>1, <2>1, ThreadFacts DEF StackOK, LockOK, ErrorLockOK, Reported
  <1>6. /\ owner' = owner /\ calls' = calls + 1 /\ failed' = failed /\ lines' = lines
        /\ owner \in [Levels -> Threads \cup {NULL}] /\ lines \in [Levels -> Nat]
        /\ calls \in Nat /\ calls' \in 0 .. MaxCalls /\ failed \in Nat
        /\ overflow' \in BOOLEAN /\ unopened' \subseteq Levels /\ lines["ERROR"] \in Nat
    BY CallsAssumption DEF Call, SlogInv, TypeOK, Levels
  <1>7. /\ failed' - failed + One(Reported(t)') - One(Reported(t))
              <= lines'["ERROR"] - lines["ERROR"]
        /\ failed' - failed + One(stack'[t] # <<>>) - One(stack[t] # <<>>) <= calls' - calls
    <2>1. stack'[t] # <<>>
      BY <1>3, <1>4
    <2> HIDE DEF Reported
    <2> QED BY <1>1, <1>5, <1>6, <2>1 DEF One
  <1> QED BY <1>4, <1>5, <1>6, <1>7, OneThreadSteps

(* The report of a failure fails itself: the thread is lost. *)
LEMMA LostPreserves ==
    ASSUME SlogInv, NEW t \in Threads, LockFails(t), Top(t).level = "ERROR"
    PROVE  SlogInv'
  <1>1. overflow' = TRUE
        /\ UNCHANGED <<stack, owner, calls, lines, failed, unopened>>
    BY DEF LockFails
  <1> QED BY <1>1 DEF SlogInv, TypeOK, StackOK, LockOK, ErrorLockOK, CountInv,
                     ReportedSet, ActiveSet, Reported

(* One lemma per action above; the rest is the case split of slog(). *)
LEMMA StepPreserves == SlogInv /\ [Next]_vars => SlogInv'
  <1> SUFFICES ASSUME SlogInv, [Next]_vars PROVE SlogInv'
    OBVIOUS
  <1>1. CASE UNCHANGED vars
    BY <1>1 DEF vars, SlogInv, TypeOK, StackOK, LockOK, ErrorLockOK, CountInv,
                ReportedSet, ActiveSet, Reported
  <1>2. CASE Next
    <2>1. PICK t \in Threads : slog(t) \/ \E level \in Levels : Call(t, level)
      BY <1>2 DEF Next
    <2> QED BY <2>1, CallPreserves, LostPreserves, LockPreserves, LockFailsPreserves,
               OpenPreserves, OpenFailsPreserves, WritePreserves, UnlockPreserves,
               ReturnErrorPreserves DEF slog
  <1> QED BY <1>1, <1>2

(* The invariant holds in every state. *)
THEOREM SlogInvInductive == Spec => []SlogInv
  <1> QED BY InitEstablishes, StepPreserves, PTL DEF Spec

(* The parts of LogIsKept follow: ReportedSet is not negative, and whoever *)
(* abandons lock_error is still in the call that waits for it.             *)
LEMMA LogIsKeptFollows == SlogInv => LogIsKept
  <1> SUFFICES ASSUME SlogInv PROVE LogIsKept
    OBVIOUS
  <1>1. ASSUME NEW t \in Threads
        PROVE  \A i \in DOMAIN stack[t] :
                  stack[t][i].at \in {"open", "write", "unlock"}
                     => owner[stack[t][i].level] = t
    <2>1. DOMAIN stack[t] = 1 .. Len(stack[t])
      BY LenProperties DEF SlogInv, TypeOK
    <2> QED BY <2>1, ThreadFacts DEF LockOK
  <1>2. failed <= lines["ERROR"]
    <2>1. IsFiniteSet(ReportedSet)
      BY ThreadsAssumption, FS_Subset DEF ReportedSet
    <2>2. Cardinality(ReportedSet) \in Nat
      BY <2>1, FS_CardinalityType
    <2>3. failed \in Nat /\ lines["ERROR"] \in Nat /\ CountInv
      BY CallsAssumption DEF SlogInv, TypeOK, Levels
    <2> HIDE DEF ReportedSet
    <2> QED BY <2>2, <2>3 DEF CountInv
  <1>3. ASSUME Abandoned("ERROR") PROVE stack[owner["ERROR"]] # <<>>
    <2>1. owner["ERROR"] \in Threads
      BY <1>3 DEF Abandoned, SlogInv, TypeOK, Levels
    <2> QED BY <2>1, ThreadFacts DEF ErrorLockOK
  <1> QED BY <1>1, <1>2, <1>3 DEF LogIsKept, SlogInv

(* No file is opened without its lock; -1 is returned only for a failure   *)
(* with a line in error.log; and lock_error is left locked only by a       *)
(* thread that never comes back from slog_error.                           *)
THEOREM LogIsKeptHolds == Spec => []LogIsKept
  <1> QED BY SlogInvInductive, LogIsKeptFollows, PTL

==============================================================================
