-------------------------------- MODULE Slog --------------------------------
(***************************************************************************)
(* The logger (src/src/Slog.cc): slog() appends one line to the file of a  *)
(* level, under the write lock of that level.  It reports a failure of its *)
(* own by calling slog_error, itself, and so a thread has a stack of calls.*)
(*                                                                         *)
(* What is in a line, the buffer it is built in (one per thread) and       *)
(* slog_init's key for that buffer are left out.  Unlocking does not fail. *)
(***************************************************************************)
EXTENDS Naturals, Sequences, FiniteSets, SequencesExt

CONSTANTS
    Threads,
    MaxCalls,         \* bound on the calls that the threads make
    NULL

ASSUME ThreadsAssumption == IsFiniteSet(Threads)
ASSUME CallsAssumption == MaxCalls \in Nat
ASSUME NullAssumption == NULL \notin Threads

VARIABLES
    owner,            \* who holds lock_debug, lock_info and lock_error
    stack,            \* the calls of each thread, the innermost last
    overflow,         \* slog_error calls itself for ever: the stack overflows
    calls,            \* history: how many calls the threads have made
    lines,            \* history: how many lines each level has written
    failed,           \* history: how many calls have returned -1
    unopened          \* history: the levels whose file fopen could not open

vars == <<owner, stack, overflow, calls, lines, failed, unopened>>

Levels == {"DEBUG", "INFO", "ERROR"}

(* at: before the lock, before fopen, before fprintf, before the unlock,   *)
(* and in the call of slog_error before "return -1".                       *)
Frames == [level : Levels, at : {"lock", "open", "write", "unlock", "report"}]

TypeOK ==
    /\ owner \in [Levels -> Threads \cup {NULL}]
    /\ stack \in [Threads -> Seq(Frames)]
    /\ \A t \in Threads : Len(stack[t]) <= 3
    /\ overflow \in BOOLEAN
    /\ calls \in 0 .. MaxCalls /\ failed \in 0 .. calls
    /\ lines \in [Levels -> Nat] /\ unopened \subseteq Levels

Init ==
    /\ owner = [l \in Levels |-> NULL]
    /\ stack = [t \in Threads |-> <<>>]
    /\ overflow = FALSE
    /\ calls = 0 /\ lines = [l \in Levels |-> 0] /\ failed = 0 /\ unopened = {}

------------------------------------------------------------------------------
Frame(level) == [level |-> level, at |-> "lock"]
Top(t) == Last(stack[t])
At(t, place) == stack[t] # <<>> /\ Top(t).at = place
MoveTo(t, place) == stack' = [stack EXCEPT ![t][Len(stack[t])].at = place]

(* return from the innermost call *)
Pop(t) == stack' = [stack EXCEPT ![t] = Front(@)]

(* Mutant: a failure returns at once. *)
Report_Not(t) == MoveTo(t, "report")

(* slog_error("..."), then return -1 *)
Report(t) ==
    stack' = [stack EXCEPT ![t] = Append(Front(@) \o <<[Top(t) EXCEPT !.at = "report"]>>,
                                         Frame("ERROR"))]

Call(t, level) ==
    /\ stack[t] = <<>> /\ calls < MaxCalls
    /\ stack' = [stack EXCEPT ![t] = <<Frame(level)>>]
    /\ calls' = calls + 1
    /\ UNCHANGED <<owner, overflow, lines, failed, unopened>>

(* pthread_rwlock_wrlock *)
Lock(t) ==
    /\ At(t, "lock") /\ owner[Top(t).level] = NULL
    /\ owner' = [owner EXCEPT ![Top(t).level] = t]
    /\ MoveTo(t, "open")
    /\ UNCHANGED <<overflow, calls, lines, failed, unopened>>

(* The thread has the lock already: EDEADLK. *)
LockFails(t) ==
    /\ At(t, "lock") /\ owner[Top(t).level] = t
    /\ IF Top(t).level = "ERROR"
       THEN overflow' = TRUE /\ UNCHANGED stack    \* slog_error fails so for ever
       ELSE Report(t) /\ UNCHANGED overflow
    /\ UNCHANGED <<owner, calls, lines, failed, unopened>>

Open(t) ==
    /\ At(t, "open")
    /\ MoveTo(t, "write")
    /\ UNCHANGED <<owner, overflow, calls, lines, failed, unopened>>

(* fopen fails, and the lock stays locked. *)
OpenFails(t) ==
    /\ At(t, "open")
    /\ Report(t)
    /\ unopened' = unopened \cup {Top(t).level}
    /\ UNCHANGED <<owner, overflow, calls, lines, failed>>

Write(t) ==
    /\ At(t, "write")
    /\ lines' = [lines EXCEPT ![Top(t).level] = @ + 1]
    /\ MoveTo(t, "unlock")
    /\ UNCHANGED <<owner, overflow, calls, failed, unopened>>

(* Mutant: the lock of INFO is not unlocked. *)
Unlock_Not(t) ==
    /\ At(t, "unlock")
    /\ owner' = IF Top(t).level = "INFO" THEN owner ELSE [owner EXCEPT ![Top(t).level] = NULL]
    /\ Pop(t)
    /\ UNCHANGED <<overflow, calls, lines, failed, unopened>>

Unlock(t) ==
    /\ At(t, "unlock")
    /\ owner' = [owner EXCEPT ![Top(t).level] = NULL]
    /\ Pop(t)
    /\ UNCHANGED <<overflow, calls, lines, failed, unopened>>

ReturnError(t) ==
    /\ At(t, "report")
    /\ Pop(t)
    /\ failed' = failed + 1
    /\ UNCHANGED <<owner, overflow, calls, lines, unopened>>

slog(t) ==
    \/ Lock(t) \/ LockFails(t) \/ Open(t) \/ OpenFails(t)
    \/ Write(t) \/ Unlock(t) \/ ReturnError(t)

Next ==
    /\ ~overflow
    /\ \E t \in Threads : slog(t) \/ \E level \in Levels : Call(t, level)

Spec == Init /\ [][Next]_vars
FairSpec == Spec /\ \A t \in Threads : WF_vars(~overflow /\ slog(t))

------------------------------------------------------------------------------
(* Properties *)

(* A lock is abandoned if its owner is in no call that will unlock it. *)
Abandoned(l) ==
    /\ owner[l] # NULL
    /\ \A i \in DOMAIN stack[owner[l]] :
          stack[owner[l]][i].level = l => stack[owner[l]][i].at \in {"lock", "report"}

(* No file is opened without its lock.  Whoever gets -1 finds a line in    *)
(* error.log: the report of a failure is itself reported, or is the end of *)
(* the process, for a thread whose report fails, with lock_error left      *)
(* locked, never comes back from slog_error.                               *)
LogIsKept ==
    /\ TypeOK
    /\ \A t \in Threads : \A i \in DOMAIN stack[t] :
          stack[t][i].at \in {"open", "write", "unlock"} => owner[stack[t][i].level] = t
    /\ failed <= lines["ERROR"]
    /\ Abandoned("ERROR") => stack[owner["ERROR"]] # <<>>

(* slog() comes back, unless an fopen that failed for another thread has   *)
(* left the level's lock locked, or the stack overflows.                   *)
CallsReturn ==
    \A t \in Threads, l \in Levels :
        (stack[t] # <<>> /\ stack[t][1].level = l)
            ~> (stack[t] = <<>> \/ overflow
                \/ (l \in unopened /\ owner[l] # t /\ Abandoned(l)))

=============================================================================
