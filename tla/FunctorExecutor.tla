--------------------------- MODULE FunctorExecutor ---------------------------
(***************************************************************************)
(* What an EventLoop promises the callers of runInLoop and queueInLoop: a  *)
(* serial executor.  Functors are accepted at any time from any thread,    *)
(* run one at a time in the order they were accepted, each exactly once,   *)
(* and, for as long as the executor is open, none of them waits forever.   *)
(* EventLoop.tla is shown to implement this module.                        *)
(***************************************************************************)
EXTENDS Sequences

CONSTANT Functors     \* the functors that callers may submit

VARIABLES
    backlog,          \* accepted and not yet run, oldest first
    executed,         \* run so far, in the order they ran
    open              \* the executor is between its start and its stop

vars == <<backlog, executed, open>>

Init ==
    /\ backlog = <<>>
    /\ executed = <<>>
    /\ open = FALSE

Submit(f) ==
    /\ backlog' = Append(backlog, f)
    /\ UNCHANGED <<executed, open>>

Execute ==
    /\ open
    /\ backlog # <<>>
    /\ executed' = Append(executed, Head(backlog))
    /\ backlog' = Tail(backlog)
    /\ UNCHANGED open

Open  == open' = TRUE  /\ UNCHANGED <<backlog, executed>>
Close == open' = FALSE /\ UNCHANGED <<backlog, executed>>

Next ==
    \/ \E f \in Functors : Submit(f)
    \/ Execute
    \/ Open
    \/ Close

SafeSpec == Init /\ [][Next]_vars

Spec == SafeSpec /\ WF_vars(Execute)
==============================================================================
