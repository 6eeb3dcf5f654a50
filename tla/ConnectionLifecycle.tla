------------------------- MODULE ConnectionLifecycle -------------------------
(***************************************************************************)
(* What a TcpServer promises about each connection, seen from outside its  *)
(* loops: it is accepted once, served, closed once and released once, only *)
(* after it was closed; and what is accepted is served, and the connection *)
(* of a client that has reset it does not stay, as long as the server is   *)
(* not kept from its work.  TcpServer.tla is shown to implement this       *)
(* module.                                                                 *)
(***************************************************************************)
CONSTANT Conns

VARIABLES
    stage,            \* per connection: how far its life has gone
    gone,             \* the clients that have reset their connection
    stalled           \* the connections that nobody can work at, for reasons
                      \* that are not this module's

vars == <<stage, gone>>

Stages == {"absent", "accepted", "serving", "closed", "released"}

Init ==
    /\ stage = [c \in Conns |-> "absent"]
    /\ gone = {}

Move(c, from, to) ==
    /\ stage[c] = from
    /\ stage' = [stage EXCEPT ![c] = to]
    /\ UNCHANGED gone

(* A connection of the base loop is served as soon as it is accepted.       *)
Accept(c) == Move(c, "absent", "accepted") \/ Move(c, "absent", "serving")
Serve(c)  == Move(c, "accepted", "serving")
Close(c)  == Move(c, "serving", "closed")

(* The last references to several connections may go together.              *)
Release(S) ==
    /\ S # {}
    /\ \A c \in S : stage[c] = "closed"
    /\ stage' = [c \in Conns |-> IF c \in S THEN "released" ELSE stage[c]]
    /\ UNCHANGED gone

ClientGone(c) ==
    /\ gone' = gone \cup {c}
    /\ UNCHANGED stage

Next ==
    \/ \E c \in Conns : Accept(c) \/ Serve(c) \/ Close(c) \/ ClientGone(c)
    \/ \E S \in SUBSET Conns : Release(S)

SafeSpec == Init /\ [][Next]_vars

(* What the server owes a connection: to serve it once it is accepted, to   *)
(* close it when its client is gone, to release it once it is closed.       *)
Owed(c) ==
    \/ stage[c] \in {"accepted", "closed"}
    \/ stage[c] = "serving" /\ c \in gone

(* Nothing is owed for ever to a connection that is not stalled for ever.   *)
Promise == \A c \in Conns : []<>(c \notin stalled) => []<>~Owed(c)

Spec == SafeSpec /\ Promise
==============================================================================
