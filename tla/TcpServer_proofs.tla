-------------------------- MODULE TcpServer_proofs --------------------------
(* Safety of the TcpServer, and that it implements the life that           *)
(* ConnectionLifecycle promises each connection, for any number of         *)
(* connections and of threads; and safety of the HttpServer that has it as *)
(* its server_, for any number of requests.                                *)
EXTENDS TcpServer, HttpServer, SequenceTheorems, TLAPS

(* A list of functors serves no connection twice. *)
Once(s) == \A i, k \in 1 .. Len(s) : s[i].c = s[k].c => i = k

Functors(l) == Elements(queue[l]) \cup Elements(batch[l])

FunctorInv ==
    \A l \in Loops :
        /\ Once(queue[l]) /\ Once(batch[l])
        /\ \A f \in Elements(queue[l]), g \in Elements(batch[l]) : f.c # g.c

(* What a functor finds when its turn comes: it is in the right loop for   *)
(* its connection, which is in the state that the functor asserts.         *)
Duty(l, f) ==
    LET k == conn[f.c]
    IN  \/ /\ f.op = "established" /\ k.state = "Connecting"
           /\ k.loop = l /\ f.c \in mapped
        \/ /\ f.op = "remove" /\ k.state = "Disconnected"
           /\ l = Base /\ f.c \in mapped
        \/ /\ f.op = "destroyed" /\ k.state = "Disconnected" /\ k.status = "Deleted"
           /\ k.loop = l /\ f.c \notin mapped

DutyInv == \A l \in Loops : \A f \in Functors(l) : Duty(l, f)

(* A connection by its state: what its Channel is, whether connections_    *)
(* has it, and that it does not stay undestroyed once it left the map.     *)
ConnOK(c) ==
    LET k == conn[c]
    IN  /\ k.state = "none" => k = NoConn
        /\ k.state = "Connecting"
           => k.status = "New" /\ ~k.ep /\ k.events = {} /\ ~k.writing
        /\ k.state \in {"Connected", "Disconnecting"} => k.status = "Added" /\ k.ep
        /\ k.state = "Disconnected" => ~k.ep /\ k.events = {}
        /\ k.state \in {"Connecting", "Connected", "Disconnecting"} => c \in mapped
        /\ c \in mapped => k.state # "none"
        /\ k.state = "Disconnected" /\ c \in mapped => k.status = "Deleted"
        /\ k.state = "Disconnected" /\ k.status # "New" /\ c \notin mapped
           => [op |-> "destroyed", c |-> c] \in Functors(k.loop)

ConnsInv == \A c \in Conns : ConnOK(c)

(* Only a loop that dispatches has channels to dispatch, those of its open *)
(* connections, and is in a handleWrite, of a connection that has been      *)
(* dispatched; only one that runs functors has a batch.                     *)
ActiveInv ==
    /\ \A l \in Loops :
          /\ lpc[l] # "handle" => active[l] = {}
          /\ lpc[l] # "functors" => batch[l] = <<>>
          /\ \A c \in active[l] :
                conn[c].state \in {"Connected", "Disconnecting"} /\ conn[c].loop = l
    /\ \A c \in Conns : conn[c].writing =>
          lpc[conn[c].loop] = "handle" /\ c \notin active[conn[c].loop]
    /\ acceptActive => backlog # <<>>

(* The connections to be accepted are distinct and new. *)
BacklogInv ==
    /\ \A i, k \in 1 .. Len(backlog) : backlog[i] = backlog[k] => i = k
    /\ \A i \in 1 .. Len(backlog) :
          conn[backlog[i]].state = "none" /\ sock[backlog[i]].peer # "absent"
    /\ \A c \in Conns : sock[c].peer = "absent" => conn[c].state = "none"

(* No assertion but that of handleClose fails. *)
AbortInv == dead # "assert"

ServerInv ==
    /\ TypeOK /\ FunctorInv /\ DutyInv /\ ConnsInv
    /\ ActiveInv /\ BacklogInv /\ AbortInv

------------------------------------------------------------------------------
(* Lists of functors: what is appended, and what is left behind the head. *)
LEMMA ListElements ==
    ASSUME NEW s \in Seq(Functor)
    PROVE  /\ Elements(s) = {s[i] : i \in 1 .. Len(s)} /\ Elements(s) \subseteq Functor
           /\ Len(s) \in Nat
  <1>1. DOMAIN s = 1 .. Len(s) /\ Len(s) \in Nat
    BY LenProperties
  <1>2. \A i \in 1 .. Len(s) : s[i] \in Functor
    BY ElementOfSeq
  <1> QED BY <1>1, <1>2 DEF Elements

(* A functor of a connection that has none yet is added to the list. *)
LEMMA AppendFunctor ==
    ASSUME NEW s \in Seq(Functor), NEW f \in Functor, Once(s),
           \A g \in Elements(s) : g.c # f.c
    PROVE  /\ Append(s, f) \in Seq(Functor) /\ Once(Append(s, f))
           /\ Elements(Append(s, f)) = Elements(s) \cup {f}
  <1> DEFINE t == Append(s, f)
             n == Len(s)
  <1>1. t \in Seq(Functor) /\ n \in Nat /\ Len(t) = n + 1 /\ t[n + 1] = f
        /\ \A i \in 1 .. n : t[i] = s[i]
    BY AppendProperties, LenProperties
  <1> HIDE DEF t
  <1>2. Elements(s) = {s[i] : i \in 1 .. n} /\ Elements(t) = {t[i] : i \in 1 .. n + 1}
    BY <1>1, ListElements
  <1>3. Elements(t) = Elements(s) \cup {f}
    BY <1>1, <1>2
  <1>4. Once(t)
    BY <1>1, <1>2 DEF Once
  <1> QED BY <1>1, <1>3, <1>4 DEF t

(* The head leaves the list, and its connection has none left in it. *)
LEMMA TailFunctor ==
    ASSUME NEW s \in Seq(Functor), s # <<>>, Once(s)
    PROVE  /\ Head(s) \in Elements(s) /\ Tail(s) \in Seq(Functor) /\ Once(Tail(s))
           /\ Elements(Tail(s)) = Elements(s) \ {Head(s)}
           /\ \A g \in Elements(Tail(s)) : g.c # Head(s).c
  <1> DEFINE t == Tail(s)
             n == Len(s)
  <1>1. t \in Seq(Functor) /\ n \in Nat /\ n >= 1 /\ Len(t) = n - 1 /\ Head(s) = s[1]
        /\ \A i \in 1 .. n - 1 : t[i] = s[i + 1]
    BY HeadTailProperties, LenProperties, EmptySeq
  <1> HIDE DEF t
  <1>2. Elements(s) = {s[i] : i \in 1 .. n} /\ Elements(t) = {t[i] : i \in 1 .. n - 1}
    BY <1>1, ListElements
  <1>3. Once(t)
    BY <1>1 DEF Once
  <1>4. \A g \in Elements(t) : g.c # s[1].c /\ g \in Elements(s)
    <2> TAKE g \in Elements(t)
    <2>1. PICK i \in 1 .. n - 1 : g = s[i + 1]
      BY <1>1, <1>2
    <2>2. i + 1 \in 1 .. n /\ 1 \in 1 .. n /\ i + 1 # 1
      BY <1>1
    <2> QED BY <1>2, <2>1, <2>2 DEF Once
  <1>5. \A g \in Elements(s) : g # s[1] => g \in Elements(t)
    <2> TAKE g \in Elements(s)
    <2> HAVE g # s[1]
    <2>1. PICK i \in 1 .. n : g = s[i]
      BY <1>2
    <2>2. i - 1 \in 1 .. n - 1 /\ (i - 1) + 1 = i
      BY <1>1, <2>1
    <2> QED BY <1>1, <1>2, <2>1, <2>2
  <1>6. s[1] \in Elements(s)
    BY <1>1, <1>2
  <1> QED BY <1>1, <1>3, <1>4, <1>5, <1>6 DEF t

(* The empty list. *)
LEMMA NoFunctors == Elements(<<>>) = {} /\ Once(<<>>) /\ <<>> \in Seq(Functor)
  BY DEF Elements, Once

(* queueInLoop adds a functor, and leaves the other loops alone. *)
LEMMA QueueFacts ==
    ASSUME ServerInv, NEW l \in Loops, NEW op \in {"established", "remove", "destroyed"},
           NEW c \in Conns, queueInLoop(l, op, c), \A g \in Elements(queue[l]) : g.c # c
    PROVE  /\ queue' \in [Loops -> Seq(Functor)] /\ Once(queue'[l])
           /\ \A m \in Loops : m # l => queue'[m] = queue[m]
           /\ Elements(queue'[l]) = Elements(queue[l]) \cup {[op |-> op, c |-> c]}
  <1> DEFINE f == [op |-> op, c |-> c]
  <1>1. f \in Functor /\ f.c = c
    BY DEF Functor
  <1>2. queue \in [Loops -> Seq(Functor)] /\ Once(queue[l])
    BY DEF ServerInv, TypeOK, FunctorInv
  <1>3. queue' = [queue EXCEPT ![l] = Append(queue[l], f)]
    BY DEF queueInLoop
  <1> HIDE DEF f
  <1>4. /\ Append(queue[l], f) \in Seq(Functor) /\ Once(Append(queue[l], f))
        /\ Elements(Append(queue[l], f)) = Elements(queue[l]) \cup {f}
    BY <1>1, <1>2, AppendFunctor
  <1> QED BY <1>2, <1>3, <1>4 DEF f

(* Only functors are in the queues and the batches. *)
LEMMA FunctorsType ==
    ASSUME TypeOK, NEW l \in Loops
    PROVE  Functors(l) \subseteq Functor
  BY ListElements DEF TypeOK, Functors

(* A connection that is new or open waits for no functor. *)
LEMMA OpenHasNone ==
    ASSUME ServerInv, NEW c \in Conns, conn[c].state \in {"none", "Connected", "Disconnecting"}
    PROVE  \A l \in Loops : \A g \in Functors(l) : g.c # c
  BY DEF ServerInv, DutyInv, Duty

(* No connection waits for two functors. *)
LEMMA OneFunctor ==
    ASSUME ServerInv, NEW l \in Loops, NEW m \in Loops, NEW f \in Functors(l),
           NEW g \in Functors(m), f.c = g.c
    PROVE  l = m /\ f.op = g.op
  BY DEF ServerInv, DutyInv, Duty

(* A step on c does not move the other connections on in their lives. *)
OthersKeepStage(c) == \A d \in Conns : d # c => Stage(d)' = Stage(d)

(* A step on c leaves the other connections and their functors what they   *)
(* have to be, and where they are in their lives.                          *)
LEMMA OthersFollow ==
    ASSUME ServerInv, NEW c \in Conns,
           \A d \in Conns : d # c => conn'[d] = conn[d] /\ (d \in mapped' <=> d \in mapped),
           \A l \in Loops : Functors(l)' \subseteq Functor,
           \A l \in Loops : \A f \in Functor :
              f.c # c => (f \in Functors(l)' <=> f \in Functors(l)),
           \A l \in Loops : \A f \in Functors(l)' : f.c = c => Duty(l, f)',
           \A l \in Loops : \A d \in Conns : d # c => (d \in held'[l] <=> d \in held[l]),
           ConnOK(c)'
    PROVE  DutyInv' /\ ConnsInv' /\ OthersKeepStage(c)
  <1>1. ASSUME NEW l \in Loops, NEW f \in Functors(l)' PROVE Duty(l, f)'
    <2>1. CASE f.c = c
      BY <1>1, <2>1
    <2>2. CASE f.c # c
      <3>1. f \in Functor /\ f.c \in Conns
        BY <1>1 DEF Functor
      <3>2. Duty(l, f)
        BY <1>1, <2>2, <3>1 DEF ServerInv, DutyInv
      <3> QED BY <2>2, <3>1, <3>2 DEF Duty
    <2> QED BY <2>1, <2>2
  <1>2. ASSUME NEW d \in Conns, d # c PROVE ConnOK(d)'
    <2>1. ConnOK(d) /\ conn'[d] = conn[d] /\ (d \in mapped' <=> d \in mapped)
      BY <1>2 DEF ServerInv, ConnsInv
    <2>2. conn[d].loop \in Loops
      BY DEF ServerInv, TypeOK, ConnType
    <2>3. [op |-> "destroyed", c |-> d] \in Functor /\ [op |-> "destroyed", c |-> d].c = d
      BY DEF Functor
    <2>4. [op |-> "destroyed", c |-> d] \in Functors(conn[d].loop)
          => [op |-> "destroyed", c |-> d] \in Functors(conn[d].loop)'
      BY <1>2, <2>2, <2>3
    <2> QED BY <2>1, <2>4 DEF ConnOK
  <1>3. ASSUME NEW d \in Conns, d # c PROVE Stage(d)' = Stage(d)
    <2>1. \A l \in Loops : InFunctor(l, d)' <=> InFunctor(l, d)
      <3> TAKE l \in Loops
      <3>1. Functors(l) \subseteq Functor /\ Functors(l)' \subseteq Functor
        BY FunctorsType DEF ServerInv
      <3>2. \A f \in Functor : f.c = d => (f \in Functors(l)' <=> f \in Functors(l))
        BY <1>3
      <3>3. InFunctor(l, d) <=> \E f \in Functors(l) : f.c = d
        BY DEF InFunctor, Functors
      <3>4. InFunctor(l, d)' <=> \E f \in Functors(l)' : f.c = d
        BY DEF InFunctor, Functors
      <3> QED BY <3>1, <3>2, <3>3, <3>4
    <2>2. Referenced(d)' <=> Referenced(d)
      BY <1>3, <2>1 DEF Referenced
    <2> QED BY <1>3, <2>2 DEF Stage, Created, Deleted
  <1> QED BY <1>1, <1>2, <1>3 DEF DutyInv, ConnsInv, OthersKeepStage

------------------------------------------------------------------------------
(* The server starts with no connection, and loops that wait. *)
LEMMA InitEstablishes == Init => ServerInv
  <1> SUFFICES ASSUME Init PROVE ServerInv
    OBVIOUS
  <1>1. \A l \in Loops : queue[l] = <<>> /\ batch[l] = <<>> /\ Functors(l) = {}
    BY NoFunctors DEF Init, Functors
  <1>2. FunctorInv /\ DutyInv
    BY <1>1, NoFunctors DEF FunctorInv, DutyInv
  <1>3. Base \in Loops
    BY MaxThreadsAssumption DEF Base, Loops
  <1>4. NoConn \in ConnType /\ NoSock \in SockType
    BY <1>3, MaxWritesAssumption DEF NoConn, NoSock, ConnType, SockType, States
  <1>5. TypeOK
    <2>1. queue \in [Loops -> Seq(Functor)] /\ batch \in [Loops -> Seq(Functor)]
      BY NoFunctors DEF Init
    <2>2. conn \in [Conns -> ConnType] /\ sock \in [Conns -> SockType]
      BY <1>4 DEF Init
    <2>3. backlog \in Seq(Conns) /\ numThreads \in 0 .. MaxThreads
          /\ next \in 0 .. numThreads /\ next = 0
      BY MaxThreadsAssumption DEF Init
    <2> QED BY <2>1, <2>2, <2>3 DEF Init, TypeOK
  <1>6. ConnsInv
    BY DEF Init, ConnsInv, ConnOK, NoConn
  <1>7. ActiveInv /\ BacklogInv /\ AbortInv
    BY DEF Init, ActiveInv, BacklogInv, AbortInv, NoConn
  <1> QED BY <1>2, <1>5, <1>6, <1>7 DEF ServerInv

(* The functors, and what they will find, stay as they are. *)
LEMMA WorkStays ==
    ASSUME ServerInv, UNCHANGED <<queue, batch, mapped>>,
           \A c \in Conns : \/ conn'[c] = conn[c]
                            \/ /\ conn'[c].state = conn[c].state
                               /\ conn'[c].status = conn[c].status
                               /\ conn'[c].loop = conn[c].loop
                               /\ conn'[c].ep = conn[c].ep
                               /\ conn'[c].events = conn[c].events
                               /\ conn'[c].writing = conn[c].writing
                               /\ conn[c].state # "none"
    PROVE  /\ FunctorInv' /\ DutyInv' /\ ConnsInv'
           /\ UNCHANGED held => \A c \in Conns : Stage(c)' = Stage(c)
  <1>1. FunctorInv' /\ \A l : Functors(l)' = Functors(l)
    BY DEF ServerInv, FunctorInv, Functors
  <1>2. DutyInv'
    <2> SUFFICES ASSUME NEW l \in Loops, NEW f \in Functors(l)' PROVE Duty(l, f)'
      BY DEF DutyInv
    <2>1. Duty(l, f) /\ f.c \in Conns
      BY <1>1, FunctorsType DEF ServerInv, DutyInv, Functor
    <2> QED BY <2>1 DEF Duty
  <1>3. ConnsInv'
    <2> SUFFICES ASSUME NEW c \in Conns PROVE ConnOK(c)'
      BY DEF ConnsInv
    <2>1. ConnOK(c)
      BY DEF ServerInv, ConnsInv
    <2>2. CASE conn'[c] = conn[c]
      BY <1>1, <2>1, <2>2 DEF ConnOK
    <2>3. CASE conn'[c] # conn[c]
      BY <1>1, <2>1, <2>3 DEF ConnOK
    <2> QED BY <2>2, <2>3
  <1>4. ASSUME UNCHANGED held, NEW c \in Conns PROVE Stage(c)' = Stage(c)
    <2>1. conn'[c].state = conn[c].state /\ conn'[c].writing = conn[c].writing
      OBVIOUS
    <2>2. Referenced(c)' <=> Referenced(c)
      BY <1>4, <2>1 DEF Referenced, InFunctor
    <2> QED BY <2>1, <2>2 DEF Stage, Created, Deleted
  <1> QED BY <1>1, <1>2, <1>3, <1>4

(* A client connects once, and is put at the end of the listen queue. *)
LEMMA ConnectPreserves ==
    ASSUME ServerInv, NEW c \in Conns, Connect(c)
    PROVE  ServerInv'
  <1>1. UNCHANGED <<lpc, active, acceptActive, queue, batch, held, conn, mapped,
                    numThreads, next, dead>>
        /\ listenReady' = TRUE /\ backlog' = Append(backlog, c)
    BY DEF Connect, loopVars, workVars
  <1>2. /\ sock \in [Conns -> SockType] /\ sock' \in [Conns -> SockType]
        /\ sock[c].peer = "absent" /\ sock'[c].peer = "open"
        /\ \A d \in Conns : d # c => sock'[d] = sock[d]
    BY DEF Connect, ServerInv, TypeOK, SockType
  <1>3. /\ backlog' \in Seq(Conns) /\ Len(backlog) \in Nat /\ backlog' # <<>>
        /\ Len(backlog') = Len(backlog) + 1 /\ backlog'[Len(backlog) + 1] = c
        /\ \A i \in 1 .. Len(backlog) : backlog'[i] = backlog[i] /\ backlog[i] \in Conns
    <2>1. backlog \in Seq(Conns)
      BY DEF ServerInv, TypeOK
    <2>2. /\ backlog' \in Seq(Conns) /\ Len(backlog) \in Nat
          /\ Len(backlog') = Len(backlog) + 1 /\ backlog'[Len(backlog) + 1] = c
          /\ \A i \in 1 .. Len(backlog) : backlog'[i] = backlog[i]
      BY <1>1, <2>1, AppendProperties, LenProperties
    <2>3. backlog' # <<>>
      BY <2>2, EmptySeq
    <2> QED BY <2>1, <2>2, <2>3, ElementOfSeq
  <1>4. TypeOK'
    BY <1>1, <1>2, <1>3 DEF ServerInv, TypeOK
  <1>5. BacklogInv'
    <2>1. \A i \in 1 .. Len(backlog) : backlog[i] # c
      BY <1>2 DEF ServerInv, BacklogInv
    <2>2. /\ \A i, k \in 1 .. Len(backlog) : backlog[i] = backlog[k] => i = k
          /\ \A i \in 1 .. Len(backlog) :
                conn[backlog[i]].state = "none" /\ sock[backlog[i]].peer # "absent"
          /\ \A d \in Conns : sock[d].peer = "absent" => conn[d].state = "none"
      BY DEF ServerInv, BacklogInv
    <2>3. \A i \in 1 .. Len(backlog') :
             \/ i \in 1 .. Len(backlog) /\ backlog'[i] = backlog[i]
             \/ i = Len(backlog) + 1 /\ backlog'[i] = c
      BY <1>3
    <2>4. \A i, k \in 1 .. Len(backlog') : backlog'[i] = backlog'[k] => i = k
      BY <2>1, <2>2, <2>3
    <2>5. \A i \in 1 .. Len(backlog') :
             conn'[backlog'[i]].state = "none" /\ sock'[backlog'[i]].peer # "absent"
      BY <1>1, <1>2, <1>3, <2>1, <2>2, <2>3
    <2>6. \A d \in Conns : sock'[d].peer = "absent" => conn'[d].state = "none"
      BY <1>1, <1>2, <2>2
    <2> QED BY <2>4, <2>5, <2>6 DEF BacklogInv
  <1>6. ActiveInv' /\ AbortInv'
    BY <1>1, <1>3 DEF ServerInv, ActiveInv, AbortInv
  <1> QED BY <1>1, <1>4, <1>5, <1>6, WorkStays DEF ServerInv

(* A client that is connected sends, closes, resets or reads. *)
LEMMA PeerPreserves ==
    ASSUME ServerInv, NEW c \in Conns,
           PeerSend(c) \/ PeerFin(c) \/ PeerReset(c) \/ PeerReads(c)
    PROVE  ServerInv' /\ (Reset(sock[c]) => Reset(sock[c])')
  <1>1. PICK s \in SockType : /\ s.peer # "absent" /\ (Reset(sock[c]) => Reset(s))
                             /\ sock[c].peer # "absent" /\ PeerChange(c, s)
    <2>1. sock[c] \in SockType
      BY DEF ServerInv, TypeOK
    <2>2. CASE PeerSend(c)
      <3>1. [sock[c] EXCEPT !.data = TRUE] \in SockType
            /\ [sock[c] EXCEPT !.data = TRUE].peer = sock[c].peer
        BY <2>1 DEF SockType
      <3>2. sock[c].peer = "open"
        BY <2>2 DEF PeerSend
      <3> QED BY <2>2, <3>1, <3>2 DEF PeerSend, Reset
    <2>3. CASE PeerFin(c)
      <3> DEFINE t == [sock[c] EXCEPT !.peer = "fin", !.data = FALSE]
      <3>1. t \in SockType /\ t.peer = "fin"
        BY <2>1 DEF SockType
      <3>2. sock[c].peer = "open" /\ PeerChange(c, t)
        BY <2>3 DEF PeerFin
      <3> HIDE DEF t
      <3> QED BY <3>1, <3>2 DEF Reset
    <2>4. CASE PeerReset(c)
      <3> DEFINE t == [sock[c] EXCEPT !.peer = "rst", !.data = FALSE, !.full = FALSE]
      <3>1. t \in SockType /\ t.peer = "rst"
        BY <2>1 DEF SockType
      <3>2. sock[c].peer \in {"open", "fin"} /\ PeerChange(c, t)
        BY <2>4 DEF PeerReset
      <3> HIDE DEF t
      <3> QED BY <3>1, <3>2 DEF Reset
    <2>5. CASE PeerReads(c)
      <3> DEFINE t == [sock[c] EXCEPT !.full = FALSE]
      <3>1. t \in SockType /\ t.peer = sock[c].peer
        BY <2>1 DEF SockType
      <3>2. sock[c].peer \in {"open", "fin"} /\ PeerChange(c, t)
        BY <2>5 DEF PeerReads
      <3> HIDE DEF t
      <3> QED BY <3>1, <3>2 DEF Reset
    <2> QED BY <2>2, <2>3, <2>4, <2>5
  <1>2. UNCHANGED <<lpc, active, acceptActive, queue, batch, held, conn, mapped,
                    numThreads, next, backlog, listenReady, dead>>
    BY <1>1 DEF PeerChange, loopVars, workVars, acceptVars
  <1>3. /\ sock \in [Conns -> SockType] /\ sock' \in [Conns -> SockType]
        /\ sock[c].peer # "absent" /\ sock'[c].peer # "absent" /\ sock'[c].peer = s.peer
        /\ \A d \in Conns : d # c => sock'[d] = sock[d]
    <2>1. sock[c].ready \in BOOLEAN /\ conn[c].ep \in BOOLEAN
          /\ sock \in [Conns -> SockType]
      BY DEF ServerInv, TypeOK, SockType, ConnType
    <2>2. PICK b \in BOOLEAN : sock' = [sock EXCEPT ![c] = [s EXCEPT !.ready = b]]
      <3>1. s.ready \in BOOLEAN
        BY <1>1 DEF SockType
      <3> QED BY <1>1, <2>1, <3>1 DEF PeerChange
    <2>3. [s EXCEPT !.ready = b] \in SockType /\ [s EXCEPT !.ready = b].peer = s.peer
      BY DEF SockType
    <2> QED BY <1>1, <2>1, <2>2, <2>3
  <1>4. TypeOK'
    BY <1>2, <1>3 DEF ServerInv, TypeOK
  <1>5. BacklogInv'
    <2>1. \A i \in 1 .. Len(backlog) : backlog[i] \in Conns
      BY ElementOfSeq DEF ServerInv, TypeOK
    <2> QED BY <1>2, <1>3, <2>1 DEF ServerInv, BacklogInv
  <1>6. ActiveInv' /\ AbortInv'
    BY <1>2 DEF ServerInv, ActiveInv, AbortInv
  <1>7. Reset(sock[c]) => Reset(sock[c])'
    BY <1>1, <1>3 DEF Reset
  <1> QED BY <1>2, <1>4, <1>5, <1>6, <1>7, WorkStays DEF ServerInv

(* epoll_wait reports events to the channels that are registered, and so   *)
(* to open connections.                                                    *)
LEMMA PollPreserves ==
    ASSUME ServerInv, NEW l \in Loops, Poll(l)
    PROVE  ServerInv'
  <1> DEFINE mine == {c \in Conns : conn[c].ep /\ conn[c].loop = l}
             now == {c \in mine : sock[c].ready /\ EpollEvents(conn[c], sock[c]) # {}}
  <1>1. /\ lpc' = [lpc EXCEPT ![l] = "handle"] /\ active' = [active EXCEPT ![l] = now]
        /\ lpc[l] = "poll"
        /\ UNCHANGED <<queue, batch, held, mapped, numThreads, next, backlog, dead>>
        /\ IF l = Base
           THEN acceptActive' = (listenReady /\ backlog # <<>>) /\ listenReady' = FALSE
           ELSE UNCHANGED <<acceptActive, listenReady>>
    BY DEF Poll, workVars
  <1>2. \A c \in Conns : EpollEvents(conn[c], sock[c]) \in SUBSET {"in", "out", "hup"}
    BY DEF EpollEvents
  <1>3. conn \in [Conns -> ConnType] /\ sock \in [Conns -> SockType]
        /\ lpc \in [Loops -> {"poll", "handle", "functors"}]
        /\ active \in [Loops -> SUBSET Conns]
    BY DEF ServerInv, TypeOK
  <1>4. \A c \in Conns : conn'[c] = IF c \in now
                                    THEN [conn[c] EXCEPT !.rcv = EpollEvents(conn[c], sock[c])]
                                    ELSE conn[c]
    BY DEF Poll
  <1>5. conn' \in [Conns -> ConnType]
    <2>1. \A k \in ConnType, e \in SUBSET {"in", "out", "hup"} : [k EXCEPT !.rcv = e] \in ConnType
      BY DEF ConnType
    <2>2. \A c \in Conns : [conn[c] EXCEPT !.rcv = EpollEvents(conn[c], sock[c])] \in ConnType
      BY <1>2, <1>3, <2>1
    <2> QED BY <1>3, <2>2 DEF Poll
  <1>6. sock' \in [Conns -> SockType] /\ \A c \in Conns : sock'[c].peer = sock[c].peer
    <2>1. \A c \in Conns : /\ [sock[c] EXCEPT !.ready = FALSE] \in SockType
                           /\ [sock[c] EXCEPT !.ready = FALSE].peer = sock[c].peer
      BY <1>3 DEF SockType
    <2>2. \A c \in Conns : sock'[c] = IF c \in mine THEN [sock[c] EXCEPT !.ready = FALSE]
                                                    ELSE sock[c]
      BY DEF Poll
    <2>3. sock' = [c \in Conns |-> IF c \in mine THEN [sock[c] EXCEPT !.ready = FALSE]
                                                 ELSE sock[c]]
      BY DEF Poll
    <2> HIDE DEF mine
    <2> QED BY <1>3, <2>1, <2>2, <2>3
  <1>7. \A c \in now : conn[c].state \in {"Connected", "Disconnecting"} /\ conn[c].loop = l
    <2> TAKE c \in now
    <2>1. c \in Conns /\ conn[c].ep /\ conn[c].loop = l
      OBVIOUS
    <2>2. ConnOK(c) /\ conn[c].state \in States
      BY <1>3, <2>1 DEF ServerInv, ConnsInv, ConnType
    <2> HIDE DEF now
    <2> QED BY <2>1, <2>2 DEF ConnOK, NoConn, States
  <1>8. \A c \in Conns : \/ conn'[c] = conn[c]
                         \/ /\ conn'[c].state = conn[c].state
                            /\ conn'[c].status = conn[c].status
                            /\ conn'[c].loop = conn[c].loop
                            /\ conn'[c].ep = conn[c].ep
                            /\ conn'[c].events = conn[c].events
                            /\ conn'[c].writing = conn[c].writing
                            /\ conn[c].state # "none"
    <2>1. \A c \in Conns : LET k == [conn[c] EXCEPT !.rcv = EpollEvents(conn[c], sock[c])]
                           IN  /\ k.state = conn[c].state /\ k.status = conn[c].status
                               /\ k.loop = conn[c].loop /\ k.ep = conn[c].ep
                               /\ k.events = conn[c].events /\ k.writing = conn[c].writing
      BY <1>3 DEF ConnType
    <2> HIDE DEF now
    <2> QED BY <1>4, <1>7, <2>1
  <1>9. TypeOK'
    <2>1. now \in SUBSET Conns
      OBVIOUS
    <2>2. active' \in [Loops -> SUBSET Conns]
          /\ lpc' \in [Loops -> {"poll", "handle", "functors"}]
      <3> HIDE DEF now
      <3> QED BY <1>1, <1>3, <2>1
    <2>3. acceptActive' \in BOOLEAN /\ listenReady' \in BOOLEAN
      BY <1>1 DEF ServerInv, TypeOK
    <2> QED BY <1>1, <1>5, <1>6, <2>2, <2>3 DEF ServerInv, TypeOK
  <1>10. ActiveInv'
    <2>1. \A m \in Loops : m # l => active'[m] = active[m] /\ lpc'[m] = lpc[m]
      BY <1>1, <1>3
    <2>2. active'[l] = now /\ lpc'[l] = "handle" /\ batch' = batch
      BY <1>1, <1>3
    <2>3. acceptActive' => backlog' # <<>>
      BY <1>1 DEF ServerInv, ActiveInv
    <2>4. \A m \in Loops : \A c \in active[m] : c \in Conns
      BY <1>3
    <2> HIDE DEF now
    <2>5. \A c \in now : c \in Conns
      BY DEF now
    <2>6. \A c \in Conns : conn'[c].state = conn[c].state /\ conn'[c].loop = conn[c].loop
      BY <1>8
    <2>7. \A m \in Loops : \A c \in active'[m] :
             conn'[c].state \in {"Connected", "Disconnecting"} /\ conn'[c].loop = m
      BY <1>7, <2>1, <2>2, <2>4, <2>5, <2>6 DEF ServerInv, ActiveInv
    <2>8. \A m \in Loops : /\ lpc'[m] # "handle" => active'[m] = {}
                           /\ lpc'[m] # "functors" => batch'[m] = <<>>
      BY <1>1, <2>1, <2>2 DEF ServerInv, ActiveInv
    <2>9. ASSUME NEW c \in Conns, conn'[c].writing
          PROVE  lpc'[conn'[c].loop] = "handle" /\ c \notin active'[conn'[c].loop]
      <3>1. conn[c].writing /\ conn'[c].loop = conn[c].loop /\ conn[c].loop \in Loops
        BY <1>3, <1>8, <2>9 DEF ConnType
      <3>2. lpc[conn[c].loop] = "handle" /\ c \notin active[conn[c].loop]
        BY <3>1 DEF ServerInv, ActiveInv
      <3> QED BY <1>1, <2>1, <3>1, <3>2
    <2> QED BY <2>3, <2>7, <2>8, <2>9 DEF ActiveInv
  <1>11. BacklogInv' /\ AbortInv'
    <2>1. \A i \in 1 .. Len(backlog) : backlog[i] \in Conns
      BY ElementOfSeq DEF ServerInv, TypeOK
    <2>2. \A c \in Conns : conn'[c].state = conn[c].state
      BY <1>8
    <2> QED BY <1>1, <1>6, <2>1, <2>2 DEF ServerInv, BacklogInv, AbortInv
  <1> QED BY <1>1, <1>8, <1>9, <1>10, <1>11, WorkStays DEF ServerInv

(* The functors wait in the batch as they waited in the queue. *)
LEMMA SwapPreserves ==
    ASSUME ServerInv, NEW l \in Loops, SwapPending(l)
    PROVE  ServerInv'
  <1>1. /\ lpc[l] = "handle" /\ batch[l] = <<>> /\ active[l] = {} /\ ~Busy(l)
        /\ lpc' = [lpc EXCEPT ![l] = "functors"]
        /\ batch' = [batch EXCEPT ![l] = queue[l]] /\ queue' = [queue EXCEPT ![l] = <<>>]
        /\ UNCHANGED <<active, acceptActive, held, conn, sock, mapped, numThreads, next,
                       backlog, listenReady, dead>>
    BY DEF SwapPending, Dispatched, acceptVars, ServerInv, ActiveInv
  <1>2. queue \in [Loops -> Seq(Functor)] /\ batch \in [Loops -> Seq(Functor)]
        /\ lpc \in [Loops -> {"poll", "handle", "functors"}]
    BY DEF ServerInv, TypeOK
  <1>3. queue'[l] = <<>> /\ batch'[l] = queue[l]
        /\ \A m \in Loops : m # l => queue'[m] = queue[m] /\ batch'[m] = batch[m]
    BY <1>1, <1>2
  <1>4. \A m \in Loops : Functors(m)' = Functors(m)
    BY <1>1, <1>3, NoFunctors DEF Functors
  <1>5. FunctorInv'
    BY <1>3, NoFunctors DEF ServerInv, FunctorInv
  <1>6. DutyInv' /\ ConnsInv'
    <2>1. DutyInv'
      BY <1>1, <1>4 DEF ServerInv, DutyInv, Duty
    <2>2. \A c \in Conns : conn[c].loop \in Loops
      BY DEF ServerInv, TypeOK, ConnType
    <2>3. ConnsInv'
      BY <1>1, <1>4, <2>2 DEF ServerInv, ConnsInv, ConnOK
    <2> QED BY <2>1, <2>3
  <1>7. TypeOK'
    <2>1. queue' \in [Loops -> Seq(Functor)] /\ batch' \in [Loops -> Seq(Functor)]
          /\ lpc' \in [Loops -> {"poll", "handle", "functors"}]
      BY <1>1, <1>2, NoFunctors
    <2> QED BY <1>1, <2>1 DEF ServerInv, TypeOK
  <1>8. ActiveInv'
    <2>1. \A m \in Loops : lpc'[m] = IF m = l THEN "functors" ELSE lpc[m]
      BY <1>1, <1>2
    <2>2. \A c \in Conns : conn[c].loop \in Loops /\ (conn[c].writing => conn[c].loop # l)
      BY <1>1 DEF Busy, ServerInv, TypeOK, ConnType
    <2> QED BY <1>1, <1>3, <2>1, <2>2 DEF ServerInv, ActiveInv
  <1>9. BacklogInv' /\ AbortInv'
    BY <1>1 DEF ServerInv, BacklogInv, AbortInv
  <1> QED BY <1>5, <1>6, <1>7, <1>8, <1>9 DEF ServerInv

(* The batch is done. *)
LEMMA BatchDonePreserves ==
    ASSUME ServerInv, NEW l \in Loops, BatchDone(l)
    PROVE  ServerInv'
  <1>1. /\ lpc' = [lpc EXCEPT ![l] = "poll"] /\ held' = [held EXCEPT ![l] = {}]
        /\ lpc[l] = "functors" /\ batch[l] = <<>>
        /\ UNCHANGED <<active, acceptActive, queue, batch, conn, sock, mapped, numThreads,
                       next, backlog, listenReady, dead>>
    BY DEF BatchDone, acceptVars
  <1>2. TypeOK'
    BY <1>1 DEF ServerInv, TypeOK
  <1>3. ActiveInv'
    <2>1. \A m \in Loops : lpc'[m] = IF m = l THEN "poll" ELSE lpc[m]
      BY <1>1 DEF ServerInv, TypeOK
    <2>2. \A c \in Conns : conn[c].loop \in Loops
      BY DEF ServerInv, TypeOK, ConnType
    <2> QED BY <1>1, <2>1, <2>2 DEF ServerInv, ActiveInv
  <1>4. BacklogInv' /\ AbortInv'
    BY <1>1 DEF ServerInv, BacklogInv, AbortInv
  <1> QED BY <1>1, <1>2, <1>3, <1>4, WorkStays DEF ServerInv

------------------------------------------------------------------------------
(* What the helpers do to a connection and a socket. *)
LEMMA ConnHelpers ==
    ASSUME NEW k \in ConnType
    PROVE  /\ Established(k) \in ConnType
           /\ Established(k).state = "Connected" /\ Established(k).status = "Added"
           /\ Established(k).ep /\ Established(k).loop = k.loop
           /\ Established(k).writing = k.writing
           /\ Disabled(k) \in ConnType
           /\ Disabled(k).state = "Disconnected" /\ Disabled(k).status = "Deleted"
           /\ ~Disabled(k).ep /\ Disabled(k).events = {} /\ Disabled(k).loop = k.loop
           /\ Disabled(k).writing = k.writing
  BY DEF Established, Disabled, ConnType, States

(* A socket keeps its peer whatever the server does to it. *)
LEMMA SockHelpers ==
    ASSUME NEW s \in SockType
    PROVE  /\ Registered(s) \in SockType /\ Registered(s).peer = s.peer
           /\ [s EXCEPT !.ready = FALSE] \in SockType
           /\ [s EXCEPT !.ready = FALSE].peer = s.peer
           /\ [s EXCEPT !.data = FALSE] \in SockType
           /\ [s EXCEPT !.data = FALSE].peer = s.peer
           /\ \A b \in BOOLEAN : /\ [s EXCEPT !.full = b] \in SockType
                                 /\ [s EXCEPT !.full = b].peer = s.peer
           /\ \A k \in ConnType : /\ shutdownInLoop(k, s) \in SockType
                                  /\ shutdownInLoop(k, s).peer = s.peer
                                  /\ Rearmed(k, s) \in SockType
                                  /\ Rearmed(k, s).peer = s.peer
  BY DEF Registered, shutdownInLoop, Rearmed, SockType

(* How a handler that goes on, or ends, may leave the connection.          *)
Handled(k, j) ==
    /\ j \in ConnType /\ j.loop = k.loop /\ j.status = k.status /\ j.ep = k.ep
    /\ \/ j.state = k.state
       \/ k.state = "Connected" /\ j.state = "Disconnecting"
    /\ k.state = "Disconnected" /\ k.events = {} => j.events = {}
    /\ j.writing => k.writing \/ k.state # "Disconnected"

(* The reply, and the shutdown after it. *)
LEMMA RepliedFacts ==
    ASSUME NEW k \in ConnType, NEW s \in SockType, NEW r \in Replied(k, s)
    PROVE  Handled(k, r.conn) /\ r.sock \in SockType /\ r.sock.peer = s.peer
  <1>1. CASE k.state # "Connected"
    <2>1. r.conn = k /\ r.sock = s
      BY <1>1 DEF Replied
    <2> QED BY <2>1 DEF Handled
  <1>2. CASE k.state = "Connected"
    <2>1. PICK a \in Answered(k, s) : r = a \/ r = ShutDown(a)
      BY <1>2 DEF Replied
    <2>2. Handled(k, a.conn) /\ a.conn.state = "Connected"
          /\ a.sock \in SockType /\ a.sock.peer = s.peer
      <3>1. CASE a \in {[conn |-> k, sock |-> [s EXCEPT !.full = b]] :
                           b \in {b \in BOOLEAN : "out" \notin k.events /\ ~s.full}}
        <4>1. PICK b \in BOOLEAN : a = [conn |-> k, sock |-> [s EXCEPT !.full = b]]
          BY <3>1
        <4>2. a.conn = k /\ a.sock = [s EXCEPT !.full = b]
          BY <4>1
        <4>3. a.sock \in SockType /\ a.sock.peer = s.peer
          BY <4>2 DEF SockType
        <4>4. Handled(k, k)
          BY DEF Handled
        <4> QED BY <1>2, <4>2, <4>3, <4>4
      <3>2. CASE a \in {[conn |-> [k EXCEPT !.events = @ \cup {"out"}, !.buf = n],
                         sock |-> [s EXCEPT !.full = @ \/ "out" \notin k.events]] :
                           n \in {n \in 1 .. MaxWrites : n >= k.buf}}
        <4>1. PICK n \in 1 .. MaxWrites :
                 a = [conn |-> [k EXCEPT !.events = @ \cup {"out"}, !.buf = n],
                      sock |-> [s EXCEPT !.full = @ \/ "out" \notin k.events]]
          BY <3>2
        <4>2. a.conn = [k EXCEPT !.events = @ \cup {"out"}, !.buf = n]
              /\ a.sock = [s EXCEPT !.full = @ \/ "out" \notin k.events]
          BY <4>1
        <4>3. n \in 0 .. MaxWrites
          BY MaxWritesAssumption
        <4>4. /\ a.conn \in ConnType /\ a.conn.state = k.state /\ a.conn.loop = k.loop
              /\ a.conn.status = k.status /\ a.conn.ep = k.ep
              /\ a.conn.writing = k.writing
          <5>1. PICK e \in SUBSET {"in", "out"} : e = k.events \cup {"out"}
            BY DEF ConnType
          <5>2. a.conn = [k EXCEPT !.events = e, !.buf = n]
            BY <4>2, <5>1
          <5> QED BY <4>3, <5>2 DEF ConnType
        <4>5. a.sock \in SockType /\ a.sock.peer = s.peer
          BY <4>2 DEF SockType
        <4> QED BY <1>2, <4>4, <4>5 DEF Handled
      <3> QED BY <3>1, <3>2 DEF Answered
    <2>3. CASE r = ShutDown(a)
      <3>1. r.conn = [a.conn EXCEPT !.state = "Disconnecting"]
            /\ r.sock = shutdownInLoop(a.conn, a.sock)
        BY <2>3 DEF ShutDown
      <3>2. a.conn \in ConnType
        BY <2>2 DEF Handled
      <3>3. /\ r.conn \in ConnType /\ r.conn.state = "Disconnecting"
            /\ r.conn.loop = a.conn.loop /\ r.conn.status = a.conn.status
            /\ r.conn.ep = a.conn.ep /\ r.conn.writing = a.conn.writing
        BY <3>1, <3>2 DEF ConnType, States
      <3>4. a.conn.loop = k.loop /\ a.conn.status = k.status /\ a.conn.ep = k.ep
        BY <2>2 DEF Handled
      <3>5. Handled(k, r.conn)
        <4>1. k.state = "Connected" /\ k.state # "Disconnected"
          BY <1>2
        <4> QED BY <3>3, <3>4, <4>1 DEF Handled
      <3>6. r.sock \in SockType /\ r.sock.peer = a.sock.peer
        <4>1. a.sock \in SockType
          BY <2>2
        <4>2. /\ shutdownInLoop(a.conn, a.sock) \in SockType
              /\ shutdownInLoop(a.conn, a.sock).peer = a.sock.peer
          BY <3>2, <4>1, SockHelpers
        <4> QED BY <3>1, <4>2
      <3> QED BY <2>2, <3>5, <3>6
    <2> QED BY <2>1, <2>2, <2>3
  <1> QED BY <1>1, <1>2

(* Going on to EPOLLOUT, and what handleWrite leaves. *)
LEMMA HandledFacts ==
    ASSUME NEW k \in ConnType
    PROVE  /\ Handled(k, k)
           /\ Handled(k, Flushed(k)) /\ ~Flushed(k).writing
           /\ Handled(k, [k EXCEPT !.writing = FALSE])
           /\ k.buf > 1 => Handled(k, [k EXCEPT !.buf = @ - 1])
           /\ \A j : Handled(k, j) /\ k.state # "Disconnected" => Handled(k, Continued(j))
  <1>1. Handled(k, k) /\ Handled(k, Flushed(k)) /\ ~Flushed(k).writing
        /\ Handled(k, [k EXCEPT !.writing = FALSE])
    <2>1. 0 \in 0 .. MaxWrites
      BY MaxWritesAssumption
    <2> QED BY <2>1 DEF Handled, Flushed, ConnType
  <1>2. ASSUME k.buf > 1 PROVE Handled(k, [k EXCEPT !.buf = @ - 1])
    <2>1. k.buf - 1 \in 0 .. MaxWrites
      BY <1>2, MaxWritesAssumption DEF ConnType
    <2> QED BY <2>1 DEF Handled, ConnType
  <1>3. ASSUME NEW j, Handled(k, j), k.state # "Disconnected" PROVE Handled(k, Continued(j))
    <2>1. j \in ConnType
      BY <1>3 DEF Handled
    <2>2. /\ Continued(j) \in ConnType /\ Continued(j).loop = j.loop
          /\ Continued(j).status = j.status /\ Continued(j).ep = j.ep
          /\ Continued(j).state = j.state
      <3>1. \A b \in BOOLEAN : LET i == [j EXCEPT !.writing = b, !.rcv = {}]
                               IN  /\ i \in ConnType /\ i.loop = j.loop
                                   /\ i.status = j.status /\ i.ep = j.ep
                                   /\ i.state = j.state
        BY <2>1 DEF ConnType
      <3>2. ("out" \in j.rcv \cap j.events) \in BOOLEAN
        OBVIOUS
      <3> QED BY <3>1, <3>2 DEF Continued
    <2> QED BY <1>3, <2>2 DEF Handled
  <1> QED BY <1>1, <1>2, <1>3

(* One connection changes, the others stay. *)
LEMMA ConnTo ==
    ASSUME TypeOK, NEW c \in Conns, NEW k \in ConnType, conn' = [conn EXCEPT ![c] = k]
    PROVE  /\ conn' \in [Conns -> ConnType] /\ conn'[c] = k
           /\ \A d \in Conns : d # c => conn'[d] = conn[d]
  BY DEF TypeOK

(* One socket changes, and no peer does. *)
LEMMA SockTo ==
    ASSUME TypeOK, NEW c \in Conns, NEW s \in SockType, s.peer = sock[c].peer,
           sock' = [sock EXCEPT ![c] = s]
    PROVE  /\ sock' \in [Conns -> SockType]
           /\ \A d \in Conns : sock'[d].peer = sock[d].peer
  BY DEF TypeOK

(* Queueing a functor for c, when no other one for c is left in the loop. *)
LEMMA AfterQueue ==
    ASSUME ServerInv, NEW l \in Loops, NEW op \in {"established", "remove", "destroyed"},
           NEW c \in Conns, queueInLoop(l, op, c),
           \A g \in Elements(queue[l]) \cup Elements(batch'[l]) : g.c # c,
           \A m \in Loops : /\ Once(batch'[m])
                            /\ Elements(batch'[m]) \subseteq Elements(batch[m])
    PROVE  /\ queue' \in [Loops -> Seq(Functor)] /\ FunctorInv'
           /\ \A m \in Loops : m # l => queue'[m] = queue[m]
           /\ Elements(queue'[l]) = Elements(queue[l]) \cup {[op |-> op, c |-> c]}
  <1>1. /\ queue' \in [Loops -> Seq(Functor)] /\ Once(queue'[l])
        /\ \A m \in Loops : m # l => queue'[m] = queue[m]
        /\ Elements(queue'[l]) = Elements(queue[l]) \cup {[op |-> op, c |-> c]}
    BY QueueFacts
  <1>2. \A m \in Loops : Once(queue'[m])
    BY <1>1 DEF ServerInv, FunctorInv
  <1>3. \A m \in Loops : \A f \in Elements(queue'[m]), g \in Elements(batch'[m]) : f.c # g.c
    <2> TAKE m \in Loops
    <2>1. \A f \in Elements(queue[m]), g \in Elements(batch'[m]) : f.c # g.c
      BY DEF ServerInv, FunctorInv
    <2>2. \A f \in Elements(queue'[m]) :
             f \in Elements(queue[m]) \/ (m = l /\ f = [op |-> op, c |-> c])
      <3>1. CASE m = l
        <4>1. Elements(queue'[m]) = Elements(queue[m]) \cup {[op |-> op, c |-> c]}
          BY <1>1, <3>1
        <4> QED BY <3>1, <4>1
      <3>2. CASE m # l
        <4>1. queue'[m] = queue[m]
          BY <1>1, <3>2
        <4> QED BY <4>1
      <3> QED BY <3>1, <3>2
    <2>3. [op |-> op, c |-> c].c = c
      OBVIOUS
    <2> QED BY <2>1, <2>2, <2>3
  <1> QED BY <1>1, <1>2, <1>3 DEF FunctorInv

(* A step on a connection that has been accepted leaves the channels to be *)
(* dispatched and the listen queue in order.                               *)
LEMMA RestFollows ==
    ASSUME ServerInv, NEW c \in Conns, conn[c].state # "none", conn'[c].state # "none",
           \A d \in Conns : d # c => conn'[d] = conn[d],
           \A d \in Conns : sock'[d].peer = sock[d].peer,
           UNCHANGED <<lpc, acceptActive, backlog>>,
           \A m \in Loops : active'[m] \subseteq active[m],
           \A m \in Loops : c \in active'[m] =>
              conn'[c].state \in {"Connected", "Disconnecting"} /\ conn'[c].loop = m,
           \/ conn'[c].writing = conn[c].writing /\ conn'[c].loop = conn[c].loop
           \/ lpc[conn'[c].loop] = "handle" /\ c \notin active'[conn'[c].loop],
           \A m \in Loops : batch'[m] = batch[m] \/ lpc[m] = "functors"
    PROVE  ActiveInv' /\ BacklogInv'
  <1>1. ActiveInv'
    <2>1. \A m \in Loops : /\ lpc'[m] # "handle" => active'[m] = {}
                           /\ lpc'[m] # "functors" => batch'[m] = <<>>
      BY DEF ServerInv, ActiveInv
    <2>2. ASSUME NEW m \in Loops, NEW d \in active'[m]
          PROVE  conn'[d].state \in {"Connected", "Disconnecting"} /\ conn'[d].loop = m
      <3>1. d \in active[m] /\ d \in Conns
        BY <2>2 DEF ServerInv, TypeOK
      <3> QED BY <2>2, <3>1 DEF ServerInv, ActiveInv
    <2>3. acceptActive' => backlog' # <<>>
      BY DEF ServerInv, ActiveInv
    <2>4. ASSUME NEW d \in Conns, conn'[d].writing
          PROVE  lpc'[conn'[d].loop] = "handle" /\ d \notin active'[conn'[d].loop]
      <3>1. CASE conn'[d].writing = conn[d].writing /\ conn'[d].loop = conn[d].loop
        <4>1. conn[d].loop \in Loops
          BY DEF ServerInv, TypeOK, ConnType
        <4> QED BY <2>4, <3>1, <4>1 DEF ServerInv, ActiveInv
      <3>2. CASE d = c /\ lpc[conn'[c].loop] = "handle" /\ c \notin active'[conn'[c].loop]
        BY <3>2
      <3> QED BY <3>1, <3>2
    <2> QED BY <2>1, <2>2, <2>3, <2>4 DEF ActiveInv
  <1>2. BacklogInv'
    <2>1. \A i \in 1 .. Len(backlog) : backlog[i] \in Conns /\ backlog[i] # c
      BY ElementOfSeq DEF ServerInv, TypeOK, BacklogInv
    <2>2. sock[c].peer # "absent"
      BY DEF ServerInv, BacklogInv
    <2> QED BY <2>1, <2>2 DEF ServerInv, BacklogInv
  <1> QED BY <1>1, <1>2

(* The functors stay, none of them is for c, and c goes on. *)
LEMMA FunctorsStay ==
    ASSUME ServerInv, NEW c \in Conns, conn[c].state \in {"none", "Connected", "Disconnecting"},
           UNCHANGED <<queue, batch, held>>,
           \A d \in Conns : d # c => conn'[d] = conn[d] /\ (d \in mapped' <=> d \in mapped),
           ConnOK(c)'
    PROVE  FunctorInv' /\ DutyInv' /\ ConnsInv' /\ OthersKeepStage(c)
  <1>1. FunctorInv' /\ \A l \in Loops : Functors(l)' = Functors(l)
    BY DEF ServerInv, FunctorInv, Functors
  <1>2. \A l \in Loops : Functors(l) \subseteq Functor
    BY FunctorsType DEF ServerInv
  <1>3. \A l \in Loops : \A g \in Functors(l) : g.c # c
    BY OpenHasNone
  <1>4. /\ \A l \in Loops : Functors(l)' \subseteq Functor
        /\ \A l \in Loops : \A f \in Functor :
              f.c # c => (f \in Functors(l)' <=> f \in Functors(l))
        /\ \A l \in Loops : \A f \in Functors(l)' : f.c = c => Duty(l, f)'
    BY <1>1, <1>2, <1>3
  <1>5. DutyInv' /\ ConnsInv' /\ OthersKeepStage(c)
    BY <1>4, OthersFollow
  <1> QED BY <1>1, <1>5

(* A handler of c runs in loop l: c is no longer to be dispatched. *)
Handling(l, c) ==
    /\ lpc[l] = "handle" /\ conn[c].loop = l
    /\ active' \in [Loops -> SUBSET Conns]
    /\ \A m \in Loops : active'[m] \subseteq active[m] /\ c \notin active'[m]
    /\ UNCHANGED <<lpc, acceptActive, batch, held, numThreads, next, backlog, listenReady>>

(* What has been dispatched was open. *)
LEMMA DispatchFacts ==
    ASSUME ServerInv, NEW l \in Loops, NEW c \in Conns, Dispatch(l, c)
    PROVE  Handling(l, c) /\ conn[c].state \in {"Connected", "Disconnecting"}
  <1>1. /\ lpc[l] = "handle" /\ c \in active[l] /\ active' = [active EXCEPT ![l] = @ \ {c}]
        /\ UNCHANGED <<lpc, acceptActive, batch, held, numThreads, next, backlog, listenReady>>
    BY DEF Dispatch, acceptVars
  <1>2. conn[c].state \in {"Connected", "Disconnecting"} /\ conn[c].loop = l
    BY <1>1 DEF ServerInv, ActiveInv
  <1>3. active \in [Loops -> SUBSET Conns] /\ \A m \in Loops : c \in active[m] => m = l
    BY <1>2 DEF ServerInv, ActiveInv, TypeOK
  <1>4. active' \in [Loops -> SUBSET Conns]
        /\ \A m \in Loops : active'[m] \subseteq active[m] /\ c \notin active'[m]
    BY <1>1, <1>3
  <1> QED BY <1>1, <1>2, <1>4 DEF Handling

(* What is in handleWrite has been established. *)
LEMMA WritingFacts ==
    ASSUME ServerInv, NEW l \in Loops, NEW c \in Conns, Writing(l, c)
    PROVE  /\ Handling(l, c)
           /\ conn[c].state \in {"Connected", "Disconnecting", "Disconnected"}
  <1>1. /\ lpc[l] = "handle" /\ conn[c].loop = l /\ conn[c].writing
        /\ UNCHANGED <<lpc, active, acceptActive, batch, held, numThreads, next, backlog,
                       listenReady>>
    BY DEF Writing, loopVars, acceptVars
  <1>2. conn[c].state \in {"Connected", "Disconnecting", "Disconnected"}
    <2>1. ConnOK(c) /\ conn[c].state \in States
      BY DEF ServerInv, ConnsInv, TypeOK, ConnType
    <2> QED BY <1>1, <2>1 DEF ConnOK, NoConn, States
  <1>3. active \in [Loops -> SUBSET Conns] /\ \A m \in Loops : c \notin active[m]
    BY <1>1 DEF ServerInv, ActiveInv, TypeOK
  <1> QED BY <1>1, <1>2, <1>3 DEF Handling

(* handleClose: an open connection of this loop is disabled, and goes to   *)
(* the base loop to be removed or, removed at once, to be destroyed.       *)
LEMMA ClosePreserves ==
    ASSUME ServerInv, NEW l \in Loops, NEW c \in Conns, Handling(l, c), handleClose(l, c),
           conn[c].state \in {"Connected", "Disconnecting", "Disconnected"},
           sock' = [sock EXCEPT ![c] = [sock[c] EXCEPT !.ready = FALSE]]
    PROVE  /\ ServerInv' /\ OthersKeepStage(c)
           /\ Stage(c) = "serving" /\ Stage(c)' = "closed"
           /\ \A d \in Conns : sock'[d].peer = sock[d].peer
  <1>1. /\ lpc[l] = "handle" /\ conn[c].loop = l
        /\ active' \in [Loops -> SUBSET Conns]
        /\ \A m \in Loops : active'[m] \subseteq active[m] /\ c \notin active'[m]
        /\ UNCHANGED <<lpc, acceptActive, batch, held, numThreads, next, backlog, listenReady>>
    BY DEF Handling
  <1>2. /\ conn[c].state = "Connected" /\ c \in mapped
        /\ conn[c] \in ConnType /\ sock[c] \in SockType /\ TypeOK
    BY DEF handleClose, ServerInv, ConnsInv, ConnOK, TypeOK
  <1>3. /\ conn' \in [Conns -> ConnType] /\ conn'[c] = Disabled(conn[c])
        /\ \A d \in Conns : d # c => conn'[d] = conn[d]
    BY <1>2, ConnHelpers, ConnTo DEF handleClose
  <1>4. /\ conn'[c].state = "Disconnected" /\ conn'[c].status = "Deleted" /\ ~conn'[c].ep
        /\ conn'[c].events = {} /\ conn'[c].loop = l
        /\ conn'[c].writing = conn[c].writing
    BY <1>1, <1>2, <1>3, ConnHelpers
  <1>5. sock' \in [Conns -> SockType] /\ \A d \in Conns : sock'[d].peer = sock[d].peer
    BY <1>2, SockHelpers, SockTo
  <1>6. /\ \A m \in Loops : \A g \in Functors(m) : g.c # c
        /\ \A m \in Loops : Functors(m) \subseteq Functor
    BY <1>2, OpenHasNone, FunctorsType
  <1>7. Base \in Loops
    BY MaxThreadsAssumption DEF Base, Loops
  <1>8. PICK t \in Loops, op \in {"remove", "destroyed"} :
           /\ queueInLoop(t, op, c)
           /\ \/ op = "destroyed" /\ t = l /\ mapped' = mapped \ {c}
              \/ op = "remove" /\ t = Base /\ mapped' = mapped
    BY <1>1, <1>7 DEF handleClose
  <1>9. /\ queue' \in [Loops -> Seq(Functor)] /\ FunctorInv'
        /\ \A m \in Loops : m # t => queue'[m] = queue[m]
        /\ Elements(queue'[t]) = Elements(queue[t]) \cup {[op |-> op, c |-> c]}
    <2>1. \A m \in Loops : Once(batch'[m]) /\ batch'[m] = batch[m]
      BY <1>1 DEF ServerInv, FunctorInv
    <2>2. \A g \in Elements(queue[t]) \cup Elements(batch'[t]) : g.c # c
      BY <1>6, <2>1 DEF Functors
    <2>3. \A m \in Loops : /\ Once(batch'[m])
                           /\ Elements(batch'[m]) \subseteq Elements(batch[m])
      BY <2>1
    <2>4. op \in {"established", "remove", "destroyed"} /\ queueInLoop(t, op, c)
      BY <1>8
    <2> QED BY <2>2, <2>3, <2>4, AfterQueue
  <1>10. \A m \in Loops : Functors(m)' = Functors(m)
                          \cup (IF m = t THEN {[op |-> op, c |-> c]} ELSE {})
    BY <1>1, <1>9 DEF Functors
  <1>11. DutyInv' /\ ConnsInv' /\ OthersKeepStage(c)
    <2>1. [op |-> op, c |-> c] \in Functor /\ [op |-> op, c |-> c].c = c
      BY DEF Functor
    <2>2. /\ \A m \in Loops : Functors(m)' \subseteq Functor
          /\ \A m \in Loops : \A f \in Functor :
                f.c # c => (f \in Functors(m)' <=> f \in Functors(m))
          /\ \A m \in Loops : \A f \in Functors(m)' :
                f.c = c => m = t /\ f = [op |-> op, c |-> c]
      BY <1>6, <1>10, <2>1
    <2>3. Duty(t, [op |-> op, c |-> c])'
      BY <1>2, <1>4, <1>8 DEF Duty
    <2>4. \A m \in Loops : \A f \in Functors(m)' : f.c = c => Duty(m, f)'
      BY <2>2, <2>3
    <2>5. ConnOK(c)'
      <3>1. [op |-> op, c |-> c] \in Functors(t)'
        BY <1>10
      <3> QED BY <1>2, <1>4, <1>8, <3>1 DEF ConnOK
    <2>6. \A d \in Conns : d # c => conn'[d] = conn[d] /\ (d \in mapped' <=> d \in mapped)
      BY <1>3, <1>8
    <2> QED BY <1>1, <2>2, <2>4, <2>5, <2>6, OthersFollow
  <1>12. ActiveInv' /\ BacklogInv'
    <2>1. /\ \A m \in Loops : batch'[m] = batch[m]
          /\ conn'[c].writing = conn[c].writing /\ conn'[c].loop = conn[c].loop
      BY <1>1, <1>4
    <2> QED BY <1>1, <1>2, <1>3, <1>4, <1>5, <2>1, RestFollows
  <1>13. TypeOK' /\ AbortInv'
    <2>1. mapped' \in SUBSET Conns /\ dead' = dead
      BY <1>2, <1>8 DEF TypeOK, handleClose
    <2> QED BY <1>1, <1>2, <1>3, <1>5, <1>9, <2>1 DEF TypeOK, ServerInv, AbortInv
  <1>14. Stage(c) = "serving"
    BY <1>2 DEF Stage, Created, Deleted, Referenced
  <1>15. Stage(c)' = "closed"
    <2>1. [op |-> op, c |-> c] \in Elements(queue'[t]) /\ [op |-> op, c |-> c].c = c
      BY <1>9
    <2>2. InFunctor(t, c)'
      BY <2>1 DEF InFunctor
    <2> QED BY <1>4, <2>2 DEF Stage, Created, Deleted, Referenced
  <1> QED BY <1>5, <1>9, <1>11, <1>12, <1>13, <1>14, <1>15 DEF ServerInv

(* Any other handler.  It lets a connection go only if that was closed and *)
(* nothing else refers to it.                                              *)
LEMMA HandlerPreserves ==
    ASSUME ServerInv, NEW l \in Loops, NEW c \in Conns, Handling(l, c),
           conn[c].state \in {"Connected", "Disconnecting", "Disconnected"},
           NEW k, Handled(conn[c], k), conn' = [conn EXCEPT ![c] = k],
           NEW s \in SockType, s.peer = sock[c].peer, sock' = [sock EXCEPT ![c] = s],
           UNCHANGED <<queue, mapped>>, dead' \in {dead, "close", "sigpipe"}
    PROVE  /\ ServerInv' /\ OthersKeepStage(c)
           /\ \/ Stage(c)' = Stage(c)
              \/ Stage(c) = "closed" /\ Stage(c)' = "released"
           /\ \A d \in Conns : sock'[d].peer = sock[d].peer
  <1>1. /\ lpc[l] = "handle" /\ conn[c].loop = l
        /\ active' \in [Loops -> SUBSET Conns]
        /\ \A m \in Loops : active'[m] \subseteq active[m] /\ c \notin active'[m]
        /\ UNCHANGED <<lpc, acceptActive, batch, held, numThreads, next, backlog, listenReady>>
    BY DEF Handling
  <1>2. TypeOK /\ ConnOK(c) /\ conn[c] \in ConnType
    BY DEF ServerInv, ConnsInv, TypeOK
  <1>3. /\ k \in ConnType /\ k.loop = l /\ k.status = conn[c].status /\ k.ep = conn[c].ep
        /\ k.state = conn[c].state
           \/ (conn[c].state = "Connected" /\ k.state = "Disconnecting")
        /\ conn[c].state = "Disconnected" /\ conn[c].events = {} => k.events = {}
        /\ k.writing => conn[c].writing \/ conn[c].state # "Disconnected"
    BY <1>1 DEF Handled
  <1>4. /\ conn' \in [Conns -> ConnType] /\ conn'[c] = k
        /\ \A d \in Conns : d # c => conn'[d] = conn[d]
    BY <1>2, <1>3, ConnTo
  <1>5. sock' \in [Conns -> SockType] /\ \A d \in Conns : sock'[d].peer = sock[d].peer
    BY <1>2, SockTo
  <1>6. FunctorInv' /\ \A m \in Loops : Functors(m)' = Functors(m)
    BY <1>1 DEF ServerInv, FunctorInv, Functors
  <1>7. DutyInv' /\ ConnsInv' /\ OthersKeepStage(c)
    <2>1. \A m \in Loops : Functors(m) \subseteq Functor
      BY FunctorsType DEF ServerInv
    <2>2. ASSUME NEW m \in Loops, NEW f \in Functors(m)', f.c = c PROVE Duty(m, f)'
      <3>1. Duty(m, f) /\ f \in Functors(m)
        BY <1>6, <2>2 DEF ServerInv, DutyInv
      <3>2. CASE conn[c].state \in {"Connected", "Disconnecting"}
        <4>1. f.c # c
          BY <3>1, <3>2, OpenHasNone
        <4> QED BY <2>2, <4>1
      <3>3. CASE conn[c].state = "Disconnected"
        <4>1. /\ conn'[c].state = "Disconnected" /\ conn'[c].status = conn[c].status
              /\ conn'[c].loop = conn[c].loop
          BY <1>1, <1>3, <1>4, <3>3
        <4> QED BY <2>2, <3>1, <3>3, <4>1 DEF Duty
      <3> QED BY <3>2, <3>3
    <2>3. ConnOK(c)'
      <3>1. [op |-> "destroyed", c |-> c] \in Functors(l)
            => [op |-> "destroyed", c |-> c] \in Functors(l)'
        BY <1>6
      <3> QED BY <1>1, <1>2, <1>3, <1>4, <3>1 DEF ConnOK
    <2>4. \A d \in Conns : d # c => conn'[d] = conn[d] /\ (d \in mapped' <=> d \in mapped)
      BY <1>4
    <2>5. /\ \A m \in Loops : Functors(m)' \subseteq Functor
          /\ \A m \in Loops : \A f \in Functor :
                f.c # c => (f \in Functors(m)' <=> f \in Functors(m))
      BY <1>6, <2>1
    <2> QED BY <1>1, <2>2, <2>3, <2>4, <2>5, OthersFollow
  <1>8. ActiveInv' /\ BacklogInv'
    <2>1. \A m \in Loops : batch'[m] = batch[m]
      BY <1>1
    <2>2. conn'[c].state # "none" /\ conn[c].state # "none"
      BY <1>3, <1>4
    <2>3. lpc[conn'[c].loop] = "handle" /\ c \notin active'[conn'[c].loop]
      BY <1>1, <1>3, <1>4
    <2> QED BY <1>1, <1>4, <1>5, <2>1, <2>2, <2>3, RestFollows
  <1>9. TypeOK' /\ AbortInv'
    <2>1. dead' \in {"no", "close", "assert", "sigpipe"} /\ dead' # "assert"
      BY <1>2 DEF TypeOK, ServerInv, AbortInv
    <2> QED BY <1>1, <1>2, <1>4, <1>5, <2>1 DEF TypeOK, AbortInv
  <1>10. \/ Stage(c)' = Stage(c)
         \/ Stage(c) = "closed" /\ Stage(c)' = "released"
    <2>1. CASE conn[c].state = "Disconnected"
      <3>1. k.state = "Disconnected" /\ (k.writing => conn[c].writing)
        BY <1>3, <2>1
      <3>2. Referenced(c)' => Referenced(c)
        BY <1>1, <1>4, <3>1 DEF Referenced, InFunctor
      <3> QED BY <1>4, <2>1, <3>1, <3>2 DEF Stage, Created, Deleted
    <2>2. CASE conn[c].state # "Disconnected"
      <3>1. c \in mapped /\ c \in mapped'
        BY <1>2, <2>2 DEF ConnOK
      <3>2. k.state \in {"Connected", "Disconnecting"}
        BY <1>3, <2>2
      <3> QED BY <1>4, <2>2, <3>1, <3>2 DEF Stage, Created, Deleted, Referenced
    <2> QED BY <2>1, <2>2
  <1> QED BY <1>5, <1>6, <1>7, <1>8, <1>9, <1>10 DEF ServerInv

(* What a handler of c may have done, seen from outside. *)
HandlerEnds(c) ==
    /\ ServerInv' /\ OthersKeepStage(c)
    /\ \/ Stage(c)' = Stage(c)
       \/ Stage(c) = "serving" /\ Stage(c)' = "closed"
       \/ Stage(c) = "closed" /\ Stage(c)' = "released"
    /\ \A d \in Conns : sock'[d].peer = sock[d].peer

(* handleClose, or its assertion fails. *)
LEMMA CloseOrAbort ==
    ASSUME ServerInv, NEW l \in Loops, NEW c \in Conns, Handling(l, c),
           conn[c].state \in {"Connected", "Disconnecting", "Disconnected"},
           \/ handleClose(l, c) /\ sock' = [sock EXCEPT ![c].ready = FALSE]
           \/ CloseAborts(c) /\ UNCHANGED <<queue, conn, sock, mapped>>
    PROVE  HandlerEnds(c)
  <1>1. /\ TypeOK /\ conn[c] \in ConnType /\ sock[c] \in SockType
        /\ conn \in [Conns -> ConnType] /\ sock \in [Conns -> SockType]
    BY DEF ServerInv, TypeOK
  <1>2. CASE handleClose(l, c) /\ sock' = [sock EXCEPT ![c].ready = FALSE]
    <2>1. sock' = [sock EXCEPT ![c] = [sock[c] EXCEPT !.ready = FALSE]]
      BY <1>2
    <2> QED BY <1>2, <2>1, ClosePreserves DEF HandlerEnds
  <1>3. CASE CloseAborts(c) /\ UNCHANGED <<queue, conn, sock, mapped>>
    <2>1. conn' = [conn EXCEPT ![c] = conn[c]] /\ sock' = [sock EXCEPT ![c] = sock[c]]
      BY <1>1, <1>3
    <2>2. dead' \in {dead, "close", "sigpipe"} /\ UNCHANGED <<queue, mapped>>
      BY <1>3 DEF CloseAborts
    <2> QED BY <1>1, <2>1, <2>2, HandledFacts, HandlerPreserves DEF HandlerEnds
  <1> QED BY <1>2, <1>3

(* EPOLLHUP. *)
LEMMA HupPreserves ==
    ASSUME ServerInv, NEW l \in Loops, NEW c \in Conns, DispatchHup(l, c)
    PROVE  HandlerEnds(c)
  <1>1. Handling(l, c) /\ conn[c].state \in {"Connected", "Disconnecting"}
    BY DispatchFacts DEF DispatchHup
  <1> QED BY <1>1, CloseOrAbort DEF DispatchHup

(* handleRead, and the message callback, which may shut down. *)
LEMMA MessagePreserves ==
    ASSUME ServerInv, NEW l \in Loops, NEW c \in Conns,
           handleMessage(l, c) \/ handleReadEnd(l, c)
    PROVE  HandlerEnds(c)
  <1>1. /\ Handling(l, c) /\ conn[c].state \in {"Connected", "Disconnecting"}
        /\ UNCHANGED <<queue, mapped, dead>>
    BY DispatchFacts DEF handleMessage, handleReadEnd
  <1>2. conn[c] \in ConnType /\ sock[c] \in SockType /\ sock \in [Conns -> SockType]
    BY DEF ServerInv, TypeOK
  <1>3. CASE handleMessage(l, c)
    <2> DEFINE t == [sock[c] EXCEPT !.data = FALSE]
    <2>1. t \in SockType /\ t.peer = sock[c].peer
      BY <1>2, SockHelpers
    <2>2. PICK q \in Replied(conn[c], t) :
             /\ conn' = [conn EXCEPT ![c] = Continued(q.conn)]
             /\ sock' = [sock EXCEPT ![c] = Rearmed(q.conn, q.sock)]
      BY <1>3 DEF handleMessage
    <2> HIDE DEF t
    <2>3. Handled(conn[c], q.conn) /\ q.sock \in SockType /\ q.sock.peer = t.peer
      BY <1>2, <2>1, <2>2, RepliedFacts
    <2>4. q.conn \in ConnType /\ Handled(conn[c], Continued(q.conn))
      <3>1. q.conn \in ConnType
        BY <2>3 DEF Handled
      <3>2. conn[c].state # "Disconnected"
        BY <1>1
      <3> QED BY <1>2, <2>3, <3>1, <3>2, HandledFacts
    <2>5. Rearmed(q.conn, q.sock) \in SockType /\ Rearmed(q.conn, q.sock).peer = sock[c].peer
      BY <2>1, <2>3, <2>4, SockHelpers
    <2> QED BY <1>1, <2>2, <2>4, <2>5, HandlerPreserves DEF HandlerEnds
  <1>4. CASE handleReadEnd(l, c)
    <2>1. conn' = [conn EXCEPT ![c] = Continued(conn[c])]
          /\ sock' = [sock EXCEPT ![c] = sock[c]]
      BY <1>2, <1>4 DEF handleReadEnd
    <2>2. Handled(conn[c], Continued(conn[c]))
      BY <1>1, <1>2, HandledFacts
    <2> QED BY <1>1, <1>2, <2>1, <2>2, HandlerPreserves DEF HandlerEnds
  <1> QED BY <1>3, <1>4

(* handleWrite, write() by write(). *)
LEMMA WritePreserves ==
    ASSUME ServerInv, NEW l \in Loops, NEW c \in Conns,
           WriteSome(l, c) \/ WriteNothing(l, c) \/ WriteFails(l, c)
    PROVE  HandlerEnds(c)
  <1>1. /\ Handling(l, c)
        /\ conn[c].state \in {"Connected", "Disconnecting", "Disconnected"}
    BY WritingFacts DEF WriteSome, WriteNothing, WriteFails
  <1>2. conn[c] \in ConnType /\ sock[c] \in SockType /\ sock \in [Conns -> SockType]
    BY DEF ServerInv, TypeOK
  <1>3. CASE WriteNothing(l, c)
    BY <1>1, <1>3, CloseOrAbort DEF WriteNothing
  <1>4. CASE WriteFails(l, c)
    <2>1. /\ conn' = [conn EXCEPT ![c] = [conn[c] EXCEPT !.writing = FALSE]]
          /\ sock' = [sock EXCEPT ![c] = sock[c]]
          /\ dead' \in {dead, "sigpipe"} /\ UNCHANGED <<queue, mapped>>
      BY <1>2, <1>4 DEF WriteFails
    <2> QED BY <1>1, <1>2, <2>1, HandledFacts, HandlerPreserves DEF HandlerEnds
  <1>5. CASE WriteSome(l, c)
    <2>1. UNCHANGED <<queue, mapped, dead>>
      BY <1>5 DEF WriteSome
    <2>2. CASE /\ conn[c].buf > 1 /\ conn' = [conn EXCEPT ![c].buf = @ - 1]
               /\ sock' = [sock EXCEPT ![c].full = TRUE]
      <3>1. /\ conn' = [conn EXCEPT ![c] = [conn[c] EXCEPT !.buf = @ - 1]]
            /\ sock' = [sock EXCEPT ![c] = [sock[c] EXCEPT !.full = TRUE]]
        BY <2>2
      <3>2. Handled(conn[c], [conn[c] EXCEPT !.buf = @ - 1])
        BY <1>2, <2>2, HandledFacts
      <3>3. [sock[c] EXCEPT !.full = TRUE] \in SockType
            /\ [sock[c] EXCEPT !.full = TRUE].peer = sock[c].peer
        BY <1>2, SockHelpers
      <3> QED BY <1>1, <2>1, <3>1, <3>2, <3>3, HandlerPreserves DEF HandlerEnds
    <2>3. ASSUME NEW b \in BOOLEAN, NEW t,
                 t = [sock[c] EXCEPT !.full = b],
                 conn' = [conn EXCEPT ![c] = Flushed(@)],
                 \E u \in {t, shutdownInLoop(Flushed(conn[c]), t)} :
                    sock' = [sock EXCEPT ![c] = Rearmed(Flushed(conn[c]), u)]
          PROVE  HandlerEnds(c)
      <3>1. PICK u \in {t, shutdownInLoop(Flushed(conn[c]), t)} :
               sock' = [sock EXCEPT ![c] = Rearmed(Flushed(conn[c]), u)]
        BY <2>3
      <3>2. Handled(conn[c], Flushed(conn[c])) /\ conn' = [conn EXCEPT ![c] = Flushed(conn[c])]
        BY <1>2, <2>3, HandledFacts
      <3>3. Flushed(conn[c]) \in ConnType /\ t \in SockType /\ t.peer = sock[c].peer
        BY <1>2, <2>3, <3>2, SockHelpers DEF Handled
      <3>4. u \in SockType /\ u.peer = sock[c].peer
        <4>1. CASE u = t
          BY <3>3, <4>1
        <4>2. CASE u = shutdownInLoop(Flushed(conn[c]), t)
          BY <3>3, <4>2, SockHelpers
        <4> QED BY <4>1, <4>2
      <3>5. Rearmed(Flushed(conn[c]), u) \in SockType
            /\ Rearmed(Flushed(conn[c]), u).peer = sock[c].peer
        BY <3>3, <3>4, SockHelpers
      <3> QED BY <1>1, <2>1, <3>1, <3>2, <3>5, HandlerPreserves DEF HandlerEnds
    <2> QED BY <1>5, <2>2, <2>3 DEF WriteSome
  <1> QED BY <1>3, <1>4, <1>5

------------------------------------------------------------------------------
(* The functors, each run in its turn. *)

(* Run takes a functor out of the batch: the only one for its connection. *)
LEMMA RunOne ==
    ASSUME ServerInv, NEW l \in Loops, NEW op \in {"established", "remove", "destroyed"},
           NEW c \in Conns, Run(l, op, c)
    PROVE  /\ Duty(l, [op |-> op, c |-> c]) /\ ConnOK(c) /\ conn[c] \in ConnType
           /\ \A m \in Loops : Once(batch'[m]) /\ Elements(batch'[m]) \subseteq Elements(batch[m])
           /\ \A m \in Loops : \A g \in Elements(queue[m]) \cup Elements(batch'[m]) : g.c # c
           /\ \A m \in Loops : \A g \in Functor : g.c # c =>
                 (g \in Elements(queue[m]) \cup Elements(batch'[m]) <=> g \in Functors(m))
           /\ \A m \in Loops : Functors(m) \subseteq Functor
           /\ \A m \in Loops : batch'[m] = batch[m] \/ lpc[m] = "functors"
           /\ UNCHANGED <<lpc, active, acceptActive, numThreads, next, backlog, listenReady>>
           /\ batch' \in [Loops -> Seq(Functor)] /\ held' \in [Loops -> SUBSET Conns]
           /\ \A m \in Loops : \A d \in Conns : d # c => (d \in held'[m] <=> d \in held[m])
           /\ c \in held'[l]
  <1> DEFINE f == [op |-> op, c |-> c]
  <1>1. /\ batch' \in [Loops -> Seq(Functor)] /\ Once(batch'[l])
        /\ \A m \in Loops : m # l => batch'[m] = batch[m]
        /\ f \in Elements(batch[l])
        /\ Elements(batch'[l]) = Elements(batch[l]) \ {f}
        /\ \A g \in Elements(batch'[l]) : g.c # c
        /\ \A g \in Elements(queue[l]) : g.c # c
    <2>1. batch \in [Loops -> Seq(Functor)] /\ Once(batch[l])
      BY DEF ServerInv, TypeOK, FunctorInv
    <2>2. batch[l] # <<>> /\ Head(batch[l]) = f /\ batch' = [batch EXCEPT ![l] = Tail(batch[l])]
      BY DEF Run
    <2>3. f.c = c
      OBVIOUS
    <2> HIDE DEF f
    <2>4. /\ f \in Elements(batch[l]) /\ Tail(batch[l]) \in Seq(Functor)
          /\ Once(Tail(batch[l])) /\ Elements(Tail(batch[l])) = Elements(batch[l]) \ {f}
          /\ \A g \in Elements(Tail(batch[l])) : g.c # c
      BY <2>1, <2>2, <2>3, TailFunctor
    <2>5. \A g \in Elements(queue[l]) : g.c # c
      BY <2>3, <2>4 DEF ServerInv, FunctorInv
    <2> QED BY <2>1, <2>2, <2>4, <2>5
  <1>2. f.c = c /\ f.op = op
    OBVIOUS
  <1>3. /\ UNCHANGED <<lpc, active, acceptActive, numThreads, next, backlog, listenReady>>
        /\ lpc[l] = "functors" /\ held' \in [Loops -> SUBSET Conns]
        /\ \A m \in Loops : \A d \in Conns : d # c => (d \in held'[m] <=> d \in held[m])
        /\ c \in held'[l]
    BY DEF Run, loopVars, acceptVars, ServerInv, TypeOK
  <1> HIDE DEF f
  <1>4. f \in Functors(l) /\ Duty(l, f) /\ ConnOK(c) /\ conn[c] \in ConnType
    BY <1>1 DEF Functors, ServerInv, DutyInv, ConnsInv, TypeOK
  <1>5. \A m \in Loops : Once(batch'[m]) /\ Elements(batch'[m]) \subseteq Elements(batch[m])
    BY <1>1 DEF ServerInv, FunctorInv
  <1>6. \A m \in Loops : \A g \in Elements(queue[m]) \cup Elements(batch'[m]) : g.c # c
    <2> TAKE m \in Loops
    <2> TAKE g \in Elements(queue[m]) \cup Elements(batch'[m])
    <2>1. CASE m = l
      BY <1>1, <2>1
    <2>2. CASE m # l
      <3>1. g \in Functors(m)
        BY <1>5 DEF Functors
      <3> QED BY <1>2, <1>4, <2>2, <3>1, OneFunctor
    <2> QED BY <2>1, <2>2
  <1>7. \A m \in Loops : \A g : g.c # c =>
           (g \in Elements(queue[m]) \cup Elements(batch'[m]) <=> g \in Functors(m))
    BY <1>1, <1>2 DEF Functors
  <1>8. \A m \in Loops : Functors(m) \subseteq Functor
    BY FunctorsType DEF ServerInv
  <1> QED BY <1>1, <1>3, <1>4, <1>5, <1>6, <1>7, <1>8 DEF f

(* A functor that queues no other one leaves the rest as they were. *)
LEMMA RunKeeps ==
    ASSUME ServerInv, NEW c \in Conns, UNCHANGED queue,
           \A m \in Loops : Once(batch'[m]) /\ Elements(batch'[m]) \subseteq Elements(batch[m]),
           \A m \in Loops : \A g \in Elements(queue[m]) \cup Elements(batch'[m]) : g.c # c,
           \A m \in Loops : \A g \in Functor : g.c # c =>
              (g \in Elements(queue[m]) \cup Elements(batch'[m]) <=> g \in Functors(m)),
           \A m \in Loops : \A d \in Conns : d # c => (d \in held'[m] <=> d \in held[m]),
           \A d \in Conns : d # c => conn'[d] = conn[d] /\ (d \in mapped' <=> d \in mapped),
           ConnOK(c)'
    PROVE  FunctorInv' /\ DutyInv' /\ ConnsInv' /\ OthersKeepStage(c)
  <1>1. \A m \in Loops : Functors(m) \subseteq Functor
    BY FunctorsType DEF ServerInv
  <1>2. \A m \in Loops : Functors(m)' = Elements(queue[m]) \cup Elements(batch'[m])
    BY DEF Functors
  <1>3. FunctorInv'
    BY DEF ServerInv, FunctorInv
  <1>4. \A m \in Loops : Functors(m)' \subseteq Functors(m)
    BY <1>2 DEF Functors
  <1>5. /\ \A m \in Loops : Functors(m)' \subseteq Functor
        /\ \A m \in Loops : \A g \in Functor :
              g.c # c => (g \in Functors(m)' <=> g \in Functors(m))
        /\ \A m \in Loops : \A g \in Functors(m)' : g.c = c => Duty(m, g)'
    BY <1>1, <1>2, <1>4
  <1> QED BY <1>3, <1>5, OthersFollow

(* connectionEstablished finds the connection Connecting. *)
LEMMA EstablishedPreserves ==
    ASSUME ServerInv, NEW l \in Loops, NEW c \in Conns, connectionEstablished(l, c)
    PROVE  ServerInv' /\ OthersKeepStage(c)
  <1>1. /\ Run(l, "established", c) /\ conn' = [conn EXCEPT ![c] = Established(conn[c])]
        /\ sock' = [sock EXCEPT ![c] = Registered(sock[c])]
        /\ UNCHANGED <<queue, mapped>>
    BY DEF connectionEstablished
  <1>2. /\ Duty(l, [op |-> "established", c |-> c]) /\ ConnOK(c) /\ conn[c] \in ConnType
        /\ \A m \in Loops : Once(batch'[m]) /\ Elements(batch'[m]) \subseteq Elements(batch[m])
        /\ \A m \in Loops : \A g \in Elements(queue[m]) \cup Elements(batch'[m]) : g.c # c
        /\ \A m \in Loops : \A g \in Functor : g.c # c =>
              (g \in Elements(queue[m]) \cup Elements(batch'[m]) <=> g \in Functors(m))
        /\ \A m \in Loops : \A d \in Conns : d # c => (d \in held'[m] <=> d \in held[m])
        /\ \A m \in Loops : batch'[m] = batch[m] \/ lpc[m] = "functors"
        /\ UNCHANGED <<lpc, active, acceptActive, numThreads, next, backlog, listenReady>>
    BY <1>1, RunOne
  <1>3. conn[c].state = "Connecting" /\ conn[c].status = "New" /\ c \in mapped
    BY <1>2 DEF Duty, ConnOK
  <1>4. TypeOK /\ sock[c] \in SockType
    BY DEF ServerInv, TypeOK
  <1>5. /\ conn' \in [Conns -> ConnType] /\ conn'[c].state = "Connected"
        /\ conn'[c].status = "Added" /\ conn'[c].ep /\ conn'[c].loop = conn[c].loop
        /\ conn'[c].writing = conn[c].writing
        /\ \A d \in Conns : d # c => conn'[d] = conn[d]
    BY <1>1, <1>2, <1>4, ConnHelpers, ConnTo
  <1>6. sock' \in [Conns -> SockType] /\ \A d \in Conns : sock'[d].peer = sock[d].peer
    BY <1>1, <1>4, SockHelpers, SockTo
  <1>7. FunctorInv' /\ DutyInv' /\ ConnsInv' /\ OthersKeepStage(c)
    <2>1. ConnOK(c)'
      BY <1>1, <1>3, <1>5 DEF ConnOK
    <2> QED BY <1>1, <1>2, <1>5, <2>1, RunKeeps
  <1>8. ActiveInv' /\ BacklogInv'
    <2>1. \A m \in Loops : c \notin active[m]
      BY <1>3 DEF ServerInv, ActiveInv
    <2> QED BY <1>2, <1>3, <1>5, <1>6, <2>1, RestFollows
  <1>9. TypeOK'
    <2>1. batch' \in [Loops -> Seq(Functor)] /\ held' \in [Loops -> SUBSET Conns]
          /\ dead' \in {"no", "close", "assert", "sigpipe"}
      BY <1>1, RunOne DEF connectionEstablished, ServerInv, TypeOK
    <2> QED BY <1>1, <1>2, <1>4, <1>5, <1>6, <2>1 DEF TypeOK
  <1>10. AbortInv'
    BY <1>3 DEF connectionEstablished, ServerInv, AbortInv
  <1> QED BY <1>7, <1>8, <1>9, <1>10 DEF ServerInv

(* removeConnectionInLoop finds the connection closed and in the map, and  *)
(* sends it to its loop to be destroyed.                                   *)
LEMMA RemovePreserves ==
    ASSUME ServerInv, NEW l \in Loops, NEW c \in Conns, removeConnectionInLoop(l, c)
    PROVE  ServerInv' /\ OthersKeepStage(c)
  <1> DEFINE t == conn[c].loop
             f == [op |-> "destroyed", c |-> c]
  <1>1. /\ Run(l, "remove", c) /\ mapped' = mapped \ {c} /\ queueInLoop(t, "destroyed", c)
        /\ conn' = conn /\ sock' = sock
    BY DEF removeConnectionInLoop
  <1>2. /\ Duty(l, [op |-> "remove", c |-> c]) /\ ConnOK(c) /\ conn[c] \in ConnType
        /\ \A m \in Loops : Once(batch'[m]) /\ Elements(batch'[m]) \subseteq Elements(batch[m])
        /\ \A m \in Loops : \A g \in Elements(queue[m]) \cup Elements(batch'[m]) : g.c # c
        /\ \A m \in Loops : \A g \in Functor : g.c # c =>
              (g \in Elements(queue[m]) \cup Elements(batch'[m]) <=> g \in Functors(m))
        /\ \A m \in Loops : \A d \in Conns : d # c => (d \in held'[m] <=> d \in held[m])
        /\ \A m \in Loops : Functors(m) \subseteq Functor
        /\ \A m \in Loops : batch'[m] = batch[m] \/ lpc[m] = "functors"
        /\ UNCHANGED <<lpc, active, acceptActive, numThreads, next, backlog, listenReady>>
    BY <1>1, RunOne
  <1>3. /\ conn[c].state = "Disconnected" /\ conn[c].status = "Deleted" /\ c \in mapped
        /\ t \in Loops /\ ~conn[c].ep /\ conn[c].events = {}
    BY <1>2 DEF Duty, ConnOK, ConnType
  <1>4. f \in Functor /\ f.c = c /\ f.op = "destroyed"
    BY DEF Functor
  <1> HIDE DEF t, f
  <1>5. /\ queue' \in [Loops -> Seq(Functor)] /\ FunctorInv'
        /\ \A m \in Loops : m # t => queue'[m] = queue[m]
        /\ Elements(queue'[t]) = Elements(queue[t]) \cup {f}
    BY <1>1, <1>2, <1>3, AfterQueue DEF f
  <1>6. \A m \in Loops : Functors(m)' = Elements(queue[m]) \cup Elements(batch'[m])
                          \cup (IF m = t THEN {f} ELSE {})
    BY <1>5 DEF Functors
  <1>7. /\ \A m \in Loops : Functors(m)' \subseteq Functor
        /\ \A m \in Loops : \A g \in Functor :
              g.c # c => (g \in Functors(m)' <=> g \in Functors(m))
        /\ \A m \in Loops : \A g \in Functors(m)' : g.c = c => m = t /\ g = f
    <2>1. \A m \in Loops : Elements(queue[m]) \cup Elements(batch'[m]) \subseteq Functors(m)
      BY <1>2 DEF Functors
    <2> QED BY <1>2, <1>4, <1>6, <2>1
  <1>8. DutyInv' /\ ConnsInv' /\ OthersKeepStage(c)
    <2>1. Duty(t, f)' /\ t' = t /\ f' = f
      BY <1>1, <1>3, <1>4 DEF Duty, t, f
    <2>2. \A m \in Loops : \A g \in Functors(m)' : g.c = c => Duty(m, g)'
      <3> TAKE m \in Loops
      <3> TAKE g \in Functors(m)'
      <3> HAVE g.c = c
      <3>1. m = t /\ g = f
        BY <1>7
      <3> QED BY <2>1, <3>1
    <2>3. ConnOK(c)'
      <3>1. f \in Functors(t)'
        BY <1>3, <1>6, <2>1
      <3> QED BY <1>1, <1>3, <3>1 DEF ConnOK, f, t
    <2>4. \A d \in Conns : d # c => conn'[d] = conn[d] /\ (d \in mapped' <=> d \in mapped)
      BY <1>1
    <2> QED BY <1>2, <1>7, <2>2, <2>3, <2>4, OthersFollow
  <1>9. ActiveInv' /\ BacklogInv'
    <2>1. \A m \in Loops : c \notin active[m]
      BY <1>3 DEF ServerInv, ActiveInv
    <2> QED BY <1>1, <1>2, <1>3, <2>1, RestFollows
  <1>10. TypeOK'
    <2>1. batch' \in [Loops -> Seq(Functor)] /\ held' \in [Loops -> SUBSET Conns]
          /\ dead' \in {"no", "close", "assert", "sigpipe"} /\ mapped' \in SUBSET Conns
      BY <1>1, RunOne DEF removeConnectionInLoop, ServerInv, TypeOK
    <2> QED BY <1>1, <1>2, <1>5, <2>1 DEF ServerInv, TypeOK
  <1>11. AbortInv'
    BY <1>3 DEF removeConnectionInLoop, ServerInv, AbortInv
  <1> QED BY <1>5, <1>8, <1>9, <1>10, <1>11 DEF ServerInv

(* connectionDestroyed finds the connection disabled and still registered. *)
LEMMA DestroyedPreserves ==
    ASSUME ServerInv, NEW l \in Loops, NEW c \in Conns, connectionDestroyed(l, c)
    PROVE  ServerInv' /\ OthersKeepStage(c)
  <1>1. Run(l, "destroyed", c) /\ UNCHANGED <<queue, sock, mapped>>
    BY DEF connectionDestroyed
  <1>2. /\ Duty(l, [op |-> "destroyed", c |-> c]) /\ ConnOK(c) /\ conn[c] \in ConnType
        /\ \A m \in Loops : Once(batch'[m]) /\ Elements(batch'[m]) \subseteq Elements(batch[m])
        /\ \A m \in Loops : \A g \in Elements(queue[m]) \cup Elements(batch'[m]) : g.c # c
        /\ \A m \in Loops : \A g \in Functor : g.c # c =>
              (g \in Elements(queue[m]) \cup Elements(batch'[m]) <=> g \in Functors(m))
        /\ \A m \in Loops : \A d \in Conns : d # c => (d \in held'[m] <=> d \in held[m])
        /\ \A m \in Loops : batch'[m] = batch[m] \/ lpc[m] = "functors"
        /\ UNCHANGED <<lpc, active, acceptActive, numThreads, next, backlog, listenReady>>
    BY <1>1, RunOne
  <1>3. /\ conn[c].state = "Disconnected" /\ conn[c].status = "Deleted" /\ c \notin mapped
        /\ ~conn[c].ep /\ conn[c].events = {}
    BY <1>2 DEF Duty, ConnOK
  <1> DEFINE k == [conn[c] EXCEPT !.status = "New", !.ep = FALSE]
  <1>4. conn' = [conn EXCEPT ![c] = k] /\ dead' = dead
    BY <1>3 DEF connectionDestroyed
  <1>5. /\ k \in ConnType /\ k.state = "Disconnected" /\ k.status = "New" /\ ~k.ep
        /\ k.events = {} /\ k.writing = conn[c].writing /\ k.loop = conn[c].loop
    BY <1>2, <1>3 DEF ConnType
  <1> HIDE DEF k
  <1>6. TypeOK
    BY DEF ServerInv
  <1>7. /\ conn' \in [Conns -> ConnType] /\ conn'[c] = k
        /\ \A d \in Conns : d # c => conn'[d] = conn[d]
    BY <1>4, <1>5, <1>6, ConnTo
  <1>8. FunctorInv' /\ DutyInv' /\ ConnsInv' /\ OthersKeepStage(c)
    <2>1. ConnOK(c)'
      BY <1>1, <1>3, <1>5, <1>7 DEF ConnOK
    <2> QED BY <1>1, <1>2, <1>7, <2>1, RunKeeps
  <1>9. ActiveInv' /\ BacklogInv'
    <2>1. \A m \in Loops : c \notin active[m]
      BY <1>3 DEF ServerInv, ActiveInv
    <2> QED BY <1>1, <1>2, <1>3, <1>5, <1>7, <2>1, RestFollows
  <1>10. TypeOK'
    <2>1. batch' \in [Loops -> Seq(Functor)] /\ held' \in [Loops -> SUBSET Conns]
      BY <1>1, RunOne
    <2> QED BY <1>1, <1>2, <1>4, <1>6, <1>7, <2>1 DEF TypeOK
  <1>11. AbortInv'
    BY <1>4 DEF ServerInv, AbortInv
  <1> QED BY <1>8, <1>9, <1>10, <1>11 DEF ServerInv

------------------------------------------------------------------------------
(* Accepting *)

(* getNextLoop stays within the pool; the base loop serves only when there *)
(* is no other.                                                            *)
LEMMA NextLoopFacts ==
    ASSUME TypeOK
    PROVE  /\ NextLoop \in Loops
           /\ NextNext \in 0 .. numThreads /\ (NextNext = 0 \/ NextNext < numThreads)
  <1>1. numThreads \in Nat /\ next \in Nat /\ MaxThreads \in Nat /\ numThreads <= MaxThreads
        /\ (next = 0 \/ next < numThreads)
    BY MaxThreadsAssumption DEF TypeOK
  <1>2. CASE numThreads = 0
    BY <1>1, <1>2 DEF NextLoop, NextNext, Base, Loops
  <1>3. CASE numThreads # 0
    <2>1. NextLoop = next + 1 /\ NextLoop \in Loops
      BY <1>1, <1>3 DEF NextLoop, Loops
    <2>2. NextNext = (next + 1) % numThreads
      BY <1>3 DEF NextNext
    <2>3. (next + 1) % numThreads \in 0 .. numThreads - 1
      BY <1>1, <1>3
    <2> QED BY <1>1, <2>1, <2>2, <2>3
  <1> QED BY <1>2, <1>3

(* The connection taken from the listen queue is new, and leaves it. *)
LEMMA BacklogFacts ==
    ASSUME ServerInv, acceptActive
    PROVE  LET c == Head(backlog)
           IN  /\ c \in Conns /\ conn[c].state = "none" /\ sock[c].peer # "absent"
               /\ Tail(backlog) \in Seq(Conns)
               /\ \A i \in 1 .. Len(Tail(backlog)) :
                     /\ Tail(backlog)[i] # c /\ Tail(backlog)[i] \in Conns
                     /\ conn[Tail(backlog)[i]].state = "none"
                     /\ sock[Tail(backlog)[i]].peer # "absent"
               /\ \A i, k \in 1 .. Len(Tail(backlog)) :
                     Tail(backlog)[i] = Tail(backlog)[k] => i = k
  <1> DEFINE t == Tail(backlog)
             n == Len(backlog)
  <1>1. backlog \in Seq(Conns) /\ backlog # <<>>
    BY DEF ServerInv, TypeOK, ActiveInv
  <1>2. /\ t \in Seq(Conns) /\ n \in Nat /\ n >= 1 /\ Len(t) = n - 1
        /\ Head(backlog) = backlog[1] /\ \A i \in 1 .. n - 1 : t[i] = backlog[i + 1]
    BY <1>1, HeadTailProperties, LenProperties, EmptySeq
  <1>3. \A i \in 1 .. n : backlog[i] \in Conns
    BY <1>1, ElementOfSeq
  <1>4. /\ \A i, k \in 1 .. n : backlog[i] = backlog[k] => i = k
        /\ \A i \in 1 .. n : conn[backlog[i]].state = "none" /\ sock[backlog[i]].peer # "absent"
    BY DEF ServerInv, BacklogInv
  <1>5. 1 \in 1 .. n /\ \A i \in 1 .. n - 1 : i + 1 \in 1 .. n /\ i + 1 # 1
    BY <1>2
  <1> HIDE DEF t, n
  <1>6. \A i, k \in 1 .. n - 1 : t[i] = t[k] => i = k
    <2> SUFFICES ASSUME NEW i \in 1 .. n - 1, NEW k \in 1 .. n - 1, t[i] = t[k] PROVE i = k
      OBVIOUS
    <2>1. i + 1 = k + 1
      BY <1>2, <1>4, <1>5
    <2> QED BY <1>2, <2>1
  <1>7. \A i \in 1 .. n - 1 : /\ t[i] # backlog[1] /\ t[i] \in Conns
                              /\ conn[t[i]].state = "none" /\ sock[t[i]].peer # "absent"
    BY <1>2, <1>3, <1>4, <1>5
  <1> QED BY <1>2, <1>3, <1>4, <1>5, <1>6, <1>7 DEF t

(* newConnection: the new connection is in the map, and established at     *)
(* once or in its loop's queue.                                            *)
LEMMA AcceptPreserves ==
    ASSUME ServerInv, NEW c \in Conns, c = Head(backlog), Accept
    PROVE  /\ ServerInv' /\ OthersKeepStage(c)
           /\ conn[c].state = "none" /\ conn'[c].state \in {"Connecting", "Connected"}
           /\ \A d \in Conns : sock'[d].peer = sock[d].peer
  <1> DEFINE t == NextLoop
             k == [NoConn EXCEPT !.state = "Connecting", !.loop = t]
             f == [op |-> "established", c |-> c]
  <1>1. /\ acceptActive /\ acceptActive' = FALSE /\ backlog' = Tail(backlog)
        /\ next' = NextNext /\ mapped' = mapped \cup {c}
        /\ UNCHANGED <<lpc, active, batch, held, numThreads, listenReady, dead>>
    BY DEF Accept, newConnection
  <1>2. \/ /\ t = Base /\ conn' = [conn EXCEPT ![c] = Established(k)]
           /\ sock' = [sock EXCEPT ![c] = Registered(sock[c])] /\ queue' = queue
        \/ /\ conn' = [conn EXCEPT ![c] = k] /\ queueInLoop(t, "established", c)
           /\ sock' = sock
    BY DEF Accept, newConnection
  <1>3. /\ c \in Conns /\ conn[c].state = "none" /\ sock[c].peer # "absent"
        /\ backlog' \in Seq(Conns)
        /\ \A i \in 1 .. Len(backlog') : /\ backlog'[i] # c /\ backlog'[i] \in Conns
                                         /\ conn[backlog'[i]].state = "none"
                                         /\ sock[backlog'[i]].peer # "absent"
        /\ \A i, j \in 1 .. Len(backlog') : backlog'[i] = backlog'[j] => i = j
    BY <1>1, BacklogFacts
  <1>4. /\ t \in Loops /\ NextNext \in 0 .. numThreads
        /\ (NextNext = 0 \/ NextNext < numThreads) /\ TypeOK
    BY NextLoopFacts DEF ServerInv
  <1>5. /\ k \in ConnType /\ k.state = "Connecting" /\ k.loop = t /\ k.status = "New"
        /\ ~k.ep /\ k.events = {} /\ ~k.writing
    <2>1. NoConn \in ConnType
      <3>1. Base \in Loops
        BY MaxThreadsAssumption DEF Base, Loops
      <3> QED BY <3>1, MaxWritesAssumption DEF NoConn, ConnType, States
    <2>2. NoConn.status = "New" /\ ~NoConn.ep /\ NoConn.events = {} /\ ~NoConn.writing
      BY DEF NoConn
    <2> QED BY <1>4, <2>1, <2>2 DEF ConnType, States
  <1>6. f.c = c /\ f.op = "established" /\ f \in Functor
    BY DEF Functor
  <1> HIDE DEF t, k, f
  <1>7. sock[c] \in SockType
    BY <1>3, <1>4 DEF TypeOK
  <1>8. /\ \A m \in Loops : \A g \in Functors(m) : g.c # c
        /\ \A m \in Loops : Functors(m) \subseteq Functor
    BY <1>3, OpenHasNone, FunctorsType DEF ServerInv
  <1>9. sock' \in [Conns -> SockType] /\ \A d \in Conns : sock'[d].peer = sock[d].peer
    <2>1. CASE sock' = sock
      BY <1>4, <2>1 DEF TypeOK
    <2>2. CASE sock' = [sock EXCEPT ![c] = Registered(sock[c])]
      BY <1>4, <1>7, <2>2, SockHelpers, SockTo
    <2> QED BY <1>2, <2>1, <2>2
  <1>10. /\ conn' \in [Conns -> ConnType] /\ conn'[c].state \in {"Connecting", "Connected"}
         /\ ~conn'[c].writing
         /\ \A d \in Conns : d # c => conn'[d] = conn[d]
    <2>1. PICK e \in {k, Established(k)} : conn' = [conn EXCEPT ![c] = e]
      BY <1>2
    <2>2. e \in ConnType /\ e.state \in {"Connecting", "Connected"} /\ ~e.writing
      BY <1>5, ConnHelpers
    <2> QED BY <1>3, <1>4, <2>1, <2>2, ConnTo
  <1>11. \A d \in Conns : d # c => conn'[d] = conn[d] /\ (d \in mapped' <=> d \in mapped)
    BY <1>1, <1>10
  <1>12. queue' \in [Loops -> Seq(Functor)] /\ FunctorInv' /\ DutyInv' /\ ConnsInv'
         /\ OthersKeepStage(c)
    <2>1. CASE queue' = queue /\ conn' = [conn EXCEPT ![c] = Established(k)]
      <3>1. conn'[c] = Established(k) /\ c \in mapped'
        BY <1>1, <1>3, <1>4, <1>5, <2>1, ConnHelpers, ConnTo
      <3>2. ConnOK(c)'
        BY <1>5, <3>1, ConnHelpers DEF ConnOK
      <3>3. queue \in [Loops -> Seq(Functor)]
        BY <1>4 DEF TypeOK
      <3> QED BY <1>1, <1>3, <1>11, <2>1, <3>2, <3>3, FunctorsStay
    <2>2. CASE conn' = [conn EXCEPT ![c] = k] /\ queueInLoop(t, "established", c)
      <3>1. conn'[c] = k /\ c \in mapped'
        BY <1>1, <1>3, <1>4, <1>5, <2>2, ConnTo
      <3>2. ConnOK(c)'
        BY <1>5, <3>1 DEF ConnOK
      <3>3. /\ queue' \in [Loops -> Seq(Functor)] /\ FunctorInv'
            /\ \A m \in Loops : m # t => queue'[m] = queue[m]
            /\ Elements(queue'[t]) = Elements(queue[t]) \cup {f}
        <4>1. \A m \in Loops : Once(batch'[m]) /\ batch'[m] = batch[m]
          BY <1>1 DEF ServerInv, FunctorInv
        <4>2. \A g \in Elements(queue[t]) \cup Elements(batch'[t]) : g.c # c
          BY <1>4, <1>8, <4>1 DEF Functors
        <4> QED BY <1>3, <1>4, <2>2, <4>1, <4>2, AfterQueue DEF f
      <3>4. \A m \in Loops : Functors(m)' = Functors(m) \cup (IF m = t THEN {f} ELSE {})
        BY <1>1, <3>3 DEF Functors
      <3>5. /\ \A m \in Loops : Functors(m)' \subseteq Functor
            /\ \A m \in Loops : \A g \in Functor :
                  g.c # c => (g \in Functors(m)' <=> g \in Functors(m))
            /\ \A m \in Loops : \A g \in Functors(m)' : g.c = c => m = t /\ g = f
        BY <1>3, <1>6, <1>8, <3>4
      <3>6. \A m \in Loops : \A g \in Functors(m)' : g.c = c => Duty(m, g)'
        <4> SUFFICES ASSUME NEW m \in Loops, NEW g \in Functors(m)', g.c = c
                     PROVE  Duty(m, g)'
          OBVIOUS
        <4>1. m = t /\ g.op = "established" /\ g.c = c
          BY <1>6, <3>5
        <4> QED BY <1>5, <3>1, <4>1 DEF Duty
      <3> QED BY <1>1, <1>3, <1>11, <3>2, <3>3, <3>5, <3>6, OthersFollow
    <2> QED BY <1>2, <2>1, <2>2
  <1>13. ActiveInv'
    <2>1. \A m \in Loops : \A d \in active[m] : d \in Conns /\ d # c
      BY <1>3, <1>4 DEF ServerInv, ActiveInv, TypeOK
    <2>2. \A d \in Conns : conn'[d].writing => d # c /\ conn[d].writing
      BY <1>10
    <2> QED BY <1>1, <1>10, <2>1, <2>2 DEF ServerInv, ActiveInv
  <1>14. BacklogInv'
    <2>1. \A d \in Conns : d # c => conn'[d] = conn[d]
      BY <1>10
    <2>2. \A i \in 1 .. Len(backlog') :
             conn'[backlog'[i]].state = "none" /\ sock'[backlog'[i]].peer # "absent"
      BY <1>3, <1>9, <2>1
    <2>3. \A d \in Conns : sock'[d].peer = "absent" => conn'[d].state = "none"
      <3>1. \A d \in Conns : sock[d].peer = "absent" => conn[d].state = "none"
        BY DEF ServerInv, BacklogInv
      <3> QED BY <1>3, <1>9, <2>1, <3>1
    <2> QED BY <1>3, <2>2, <2>3 DEF BacklogInv
  <1>15. TypeOK'
    <2>1. mapped' \in SUBSET Conns /\ next' \in 0 .. numThreads
          /\ (next' = 0 \/ next' < numThreads)
      BY <1>1, <1>3, <1>4 DEF TypeOK
    <2> QED BY <1>1, <1>3, <1>4, <1>9, <1>10, <1>12, <2>1 DEF TypeOK
  <1>16. AbortInv'
    BY <1>1 DEF ServerInv, AbortInv
  <1> QED BY <1>3, <1>9, <1>10, <1>12, <1>13, <1>14, <1>15, <1>16 DEF ServerInv

------------------------------------------------------------------------------
(* The theorems *)

(* Every step of a loop or of a client preserves the invariant. *)
LEMMA StepPreserves == ServerInv /\ [Next]_vars => ServerInv'
  <1> SUFFICES ASSUME ServerInv, [Next]_vars PROVE ServerInv'
    OBVIOUS
  <1>1. ASSUME NEW l \in Loops, LoopStep(l) PROVE ServerInv'
    <2>1. CASE Poll(l)
      BY <2>1, PollPreserves
    <2>2. CASE SwapPending(l)
      BY <2>2, SwapPreserves
    <2>3. CASE BatchDone(l)
      BY <2>3, BatchDonePreserves
    <2>4. CASE Accept
      BY <2>4, AcceptPreserves, BacklogFacts DEF Accept
    <2>5. ASSUME NEW c \in Conns,
                 \/ DispatchHup(l, c) \/ handleMessage(l, c) \/ handleReadEnd(l, c)
                 \/ WriteSome(l, c) \/ WriteNothing(l, c) \/ WriteFails(l, c)
          PROVE  ServerInv'
      BY <2>5, HupPreserves, MessagePreserves, WritePreserves DEF HandlerEnds
    <2>6. ASSUME NEW c \in Conns,
                 \/ connectionEstablished(l, c) \/ removeConnectionInLoop(l, c)
                 \/ connectionDestroyed(l, c)
          PROVE  ServerInv'
      BY <2>6, EstablishedPreserves, RemovePreserves, DestroyedPreserves
    <2> QED BY <1>1, <2>1, <2>2, <2>3, <2>4, <2>5, <2>6 DEF LoopStep
  <1>2. ASSUME NEW c \in Conns, Client(c) PROVE ServerInv'
    BY <1>2, ConnectPreserves, PeerPreserves DEF Client
  <1>3. CASE UNCHANGED vars
    <2>1. UNCHANGED <<lpc, active, acceptActive, queue, batch, held, conn, sock, mapped,
                      numThreads, next, backlog, listenReady, dead>>
      BY <1>3 DEF vars, loopVars, workVars, acceptVars
    <2>2. TypeOK' /\ ActiveInv' /\ BacklogInv' /\ AbortInv'
      BY <2>1 DEF ServerInv, TypeOK, ActiveInv, BacklogInv, AbortInv
    <2> QED BY <2>1, <2>2, WorkStays DEF ServerInv
  <1> QED BY <1>1, <1>2, <1>3 DEF Next

(* The state of a connection, its Channel, its place in connections_ and   *)
(* the functor it waits for always go together.                            *)
THEOREM ServerInvInductive == Spec => []ServerInv
  <1> QED BY InitEstablishes, StepPreserves, PTL DEF Spec

(* Every variable of the server keeps its type; next_ stays inside the     *)
(* pool of loops.                                                          *)
THEOREM TypeCorrect == Spec => []TypeOK
  <1>1. ServerInv => TypeOK
    BY DEF ServerInv
  <1> QED BY <1>1, ServerInvInductive, PTL

(* A functor is in one of the places the invariant knows of. *)
LEMMA WaitingHasDuty ==
    ASSUME ServerInv, NEW op \in {"established", "remove", "destroyed"}, NEW c \in Conns,
           Waiting(op, c)
    PROVE  \E l \in Loops : Duty(l, [op |-> op, c |-> c])
  BY DEF Waiting, ServerInv, DutyInv, Functors

(* However the loops interleave, a connection whose last shared_ptr is     *)
(* gone has left the poller, epoll and every batch of active channels, and *)
(* the functors of its teardown run in their order.                        *)
THEOREM TornDownCleanlyHolds == Spec => []TornDownCleanly
  <1>1. ServerInv => DeletedCleanly
    <2> SUFFICES ASSUME ServerInv, NEW c \in Conns, Deleted(c)
                 PROVE  /\ conn[c].state = "Disconnected"
                        /\ conn[c].status = "New" /\ ~conn[c].ep
                        /\ \A l \in Loops : c \notin active[l]
      BY DEF DeletedCleanly
    <2>1. /\ conn[c].state \in States /\ conn[c].loop \in Loops /\ ConnOK(c)
          /\ conn[c].status \in {"New", "Added", "Deleted"}
      BY DEF ServerInv, TypeOK, ConnType, ConnsInv
    <2>2. conn[c].state # "none" /\ c \notin mapped /\ \A l \in Loops : ~InFunctor(l, c)
      BY DEF Deleted, Created, Referenced
    <2>3. [op |-> "destroyed", c |-> c] \notin Functors(conn[c].loop)
      <3>1. [op |-> "destroyed", c |-> c].c = c
        OBVIOUS
      <3> QED BY <2>1, <2>2, <3>1 DEF InFunctor, Functors
    <2>4. conn[c].state = "Disconnected" /\ conn[c].status = "New" /\ ~conn[c].ep
      BY <2>1, <2>2, <2>3 DEF ConnOK, States
    <2>5. \A l \in Loops : c \notin active[l]
      BY <2>4 DEF ServerInv, ActiveInv
    <2> QED BY <2>4, <2>5
  <1>2. ServerInv => TeardownInOrder
    <2> SUFFICES ASSUME ServerInv, NEW c \in Conns
                 PROVE  /\ Waiting("established", c) => c \in mapped /\ conn[c].state = "Connecting"
                        /\ Waiting("remove", c) => c \in mapped /\ conn[c].state = "Disconnected"
                        /\ Waiting("destroyed", c) => c \notin mapped /\ conn[c].state = "Disconnected"
      BY DEF TeardownInOrder
    <2> QED BY WaitingHasDuty DEF Duty
  <1>3. ServerInv => TornDownCleanly
    BY <1>1, <1>2 DEF TornDownCleanly
  <1> QED BY <1>3, ServerInvInductive, PTL

(* Whatever the message callback shuts down and whatever handleWrite       *)
(* closes, the functors of a connection find it as they assert it to be,   *)
(* and removeConnection finds it in connections_: the assertion of         *)
(* handleClose is the only one on the way of a connection that can fail.   *)
THEOREM AssertsHoldHolds == Spec => []AssertsHold
  <1>1. ServerInv => AssertsHold
    BY DEF ServerInv, AbortInv, AssertsHold
  <1> QED BY <1>1, ServerInvInductive, PTL

------------------------------------------------------------------------------
(* The life of a connection, as ConnectionLifecycle tells it *)

(* The clients that have reset their connection. *)
Gone == {c \in Conns : Reset(sock[c])}

(* A connection by its state: only a closed one can be without references. *)
LEMMA StageFacts ==
    ASSUME ServerInv, NEW c \in Conns
    PROVE  /\ conn[c].state = "none" => Stage(c) = "absent"
           /\ conn[c].state = "Connecting" => Stage(c) = "accepted"
           /\ conn[c].state \in {"Connected", "Disconnecting"} => Stage(c) = "serving"
           /\ conn[c].state = "Disconnected" /\ Referenced(c) => Stage(c) = "closed"
           /\ conn[c].state = "Disconnected" /\ ~Referenced(c) => Stage(c) = "released"
           /\ Deleted(c) => conn[c].state = "Disconnected"
  <1>1. conn[c].state \in States /\ ConnOK(c)
    BY DEF ServerInv, TypeOK, ConnType, ConnsInv
  <1>2. c \in mapped => Referenced(c)
    BY DEF Referenced
  <1> QED BY <1>1, <1>2 DEF ConnOK, States, Stage, Deleted, Created

(* The connections stay where they are in their lives, and so do clients. *)
LEMMA Stutters ==
    ASSUME \A c \in Conns : Stage(c)' = Stage(c), Gone' = Gone
    PROVE  UNCHANGED Lifecycle!vars
  BY DEF Lifecycle!vars, Gone

(* One connection moves on. *)
LEMMA OneMoves ==
    ASSUME NEW c \in Conns, OthersKeepStage(c), Gone' = Gone,
           \/ Stage(c) = "absent" /\ Stage(c)' \in {"accepted", "serving"}
           \/ Stage(c) = "accepted" /\ Stage(c)' = "serving"
           \/ Stage(c) = "serving" /\ Stage(c)' = "closed"
    PROVE  Lifecycle!Next
  <1> DEFINE st == [d \in Conns |-> Stage(d)]
  <1>1. /\ st[c] = Stage(c) /\ st' = [st EXCEPT ![c] = Stage(c)']
    BY DEF OthersKeepStage
  <1> QED BY <1>1 DEF Lifecycle!Next, Lifecycle!Accept, Lifecycle!Serve, Lifecycle!Close,
                      Lifecycle!Move, Gone

(* Every step of the server is one of ConnectionLifecycle, or invisible in *)
(* it.                                                                     *)
LEMMA StepIsLifecycle ==
    ASSUME ServerInv, ServerInv', [Next]_vars
    PROVE  [Lifecycle!Next]_(Lifecycle!vars)
  <1>1. ASSUME UNCHANGED <<conn, queue, batch, mapped, held>>
        PROVE  \A c \in Conns : Stage(c)' = Stage(c)
    BY <1>1, WorkStays
  <1>2. ASSUME NEW l \in Loops, Poll(l) PROVE UNCHANGED Lifecycle!vars
    <2>1. \A c \in Conns : /\ conn'[c].state = conn[c].state /\ sock'[c].peer = sock[c].peer
                           /\ conn'[c].writing = conn[c].writing
      BY <1>2 DEF Poll, ServerInv, TypeOK, ConnType, SockType
    <2>2. UNCHANGED <<queue, batch, mapped, held>>
      BY <1>2 DEF Poll, workVars
    <2>3. \A c \in Conns : Stage(c)' = Stage(c)
      BY <2>1, <2>2 DEF Stage, Created, Deleted, Referenced, InFunctor
    <2> QED BY <2>1, <2>3, Stutters DEF Gone, Reset
  <1>3. ASSUME NEW l \in Loops, SwapPending(l) PROVE UNCHANGED Lifecycle!vars
    <2>1. /\ batch[l] = <<>> /\ queue' = [queue EXCEPT ![l] = <<>>]
          /\ batch' = [batch EXCEPT ![l] = queue[l]] /\ UNCHANGED <<held, conn, sock, mapped>>
      BY <1>3 DEF SwapPending, ServerInv, ActiveInv
    <2>2. \A m \in Loops : Functors(m)' = Functors(m)
      BY <2>1, NoFunctors DEF Functors, ServerInv, TypeOK
    <2>3. \A m \in Loops, c \in Conns : InFunctor(m, c)' <=> InFunctor(m, c)
      BY <2>2 DEF InFunctor, Functors
    <2>4. \A c \in Conns : Stage(c)' = Stage(c)
      BY <2>1, <2>3 DEF Stage, Created, Deleted, Referenced
    <2> QED BY <2>1, <2>4, Stutters DEF Gone, Reset
  <1>4. ASSUME NEW l \in Loops, BatchDone(l) PROVE [Lifecycle!Next]_(Lifecycle!vars)
    <2> DEFINE S == {c \in Conns : ~Deleted(c) /\ Deleted(c)'}
    <2>1. /\ UNCHANGED <<queue, batch, conn, sock, mapped>>
          /\ held \in [Loops -> SUBSET Conns] /\ held' = [held EXCEPT ![l] = {}]
      BY <1>4 DEF BatchDone, ServerInv, TypeOK
    <2>2. \A c \in Conns : (Created(c)' <=> Created(c)) /\ (Referenced(c)' => Referenced(c))
      BY <2>1 DEF Created, Referenced, InFunctor
    <2>3. \A c \in Conns : Stage(c)' = IF c \in S THEN "released" ELSE Stage(c)
      BY <2>1, <2>2 DEF Stage, Deleted
    <2>4. \A c \in S : Stage(c) = "closed"
      <3> TAKE c \in S
      <3>1. c \in Conns /\ ~Deleted(c) /\ Deleted(c)'
        OBVIOUS
      <3>2. conn[c].state = "Disconnected"
        <4>1. \A d \in Conns : Deleted(d) => conn[d].state = "Disconnected"
          BY StageFacts
        <4>2. conn[c].state # "none" /\ c \notin mapped
          BY <2>1, <3>1 DEF Deleted, Created, Referenced
        <4>3. conn[c].state \in States /\ ConnOK(c)
          BY <3>1 DEF ServerInv, TypeOK, ConnType, ConnsInv
        <4> QED BY <4>2, <4>3 DEF ConnOK, States
      <3>3. Referenced(c)
        BY <3>1, <3>2 DEF Deleted, Created
      <3> QED BY <3>1, <3>2, <3>3, StageFacts
    <2>5. S \in SUBSET Conns
      OBVIOUS
    <2> HIDE DEF S
    <2>6. CASE S = {}
      BY <2>1, <2>3, <2>6, Stutters DEF Gone, Reset
    <2>7. CASE S # {}
      <3>1. Lifecycle!Release(S)
        BY <2>1, <2>3, <2>4, <2>5, <2>7 DEF Lifecycle!Release
      <3> QED BY <2>5, <3>1 DEF Lifecycle!Next
    <2> QED BY <2>6, <2>7
  <1>5. ASSUME Accept PROVE Lifecycle!Next
    <2>1. PICK c \in Conns : c = Head(backlog)
      BY <1>5, BacklogFacts DEF Accept
    <2>2. /\ OthersKeepStage(c) /\ conn[c].state = "none"
          /\ conn'[c].state \in {"Connecting", "Connected"}
          /\ \A d \in Conns : sock'[d].peer = sock[d].peer
      BY <1>5, <2>1, AcceptPreserves
    <2>3. Stage(c) = "absent" /\ Stage(c)' \in {"accepted", "serving"}
      <3>1. ConnOK(c)'
        BY DEF ServerInv, ConnsInv
      <3>2. ~Deleted(c)'
        BY <2>2, <3>1 DEF ConnOK, Deleted, Referenced
      <3> QED BY <2>2, <3>2 DEF Stage, Created
    <2> QED BY <2>2, <2>3, OneMoves DEF Gone, Reset
  <1>6. ASSUME NEW c \in Conns, HandlerEnds(c) PROVE [Lifecycle!Next]_(Lifecycle!vars)
    <2>1. OthersKeepStage(c) /\ Gone' = Gone
      BY <1>6 DEF HandlerEnds, Gone, Reset
    <2>2. CASE Stage(c)' = Stage(c)
      BY <2>1, <2>2, Stutters DEF OthersKeepStage
    <2>3. CASE Stage(c) = "serving" /\ Stage(c)' = "closed"
      BY <2>1, <2>3, OneMoves
    <2>4. CASE Stage(c) = "closed" /\ Stage(c)' = "released"
      <3>1. Lifecycle!Release({c})
        BY <2>1, <2>4 DEF Lifecycle!Release, OthersKeepStage, Gone
      <3> QED BY <3>1 DEF Lifecycle!Next
    <2> QED BY <1>6, <2>2, <2>3, <2>4 DEF HandlerEnds
  <1>7. ASSUME NEW l \in Loops, NEW c \in Conns,
               \/ DispatchHup(l, c) \/ handleMessage(l, c) \/ handleReadEnd(l, c)
               \/ WriteSome(l, c) \/ WriteNothing(l, c) \/ WriteFails(l, c)
        PROVE  [Lifecycle!Next]_(Lifecycle!vars)
    BY <1>6, <1>7, HupPreserves, MessagePreserves, WritePreserves
  <1>8. ASSUME NEW l \in Loops, NEW c \in Conns, connectionEstablished(l, c)
        PROVE  Lifecycle!Next
    <2>1. Run(l, "established", c)
      BY <1>8 DEF connectionEstablished
    <2>2. Duty(l, [op |-> "established", c |-> c]) /\ conn[c] \in ConnType
      BY <2>1, RunOne
    <2>3. conn[c].state = "Connecting" /\ conn'[c].state = "Connected" /\ c \in mapped'
          /\ c \in mapped
      BY <1>8, <2>2 DEF Duty, connectionEstablished, Established, ServerInv, TypeOK, ConnType
    <2>4. Stage(c) = "accepted" /\ Stage(c)' = "serving"
      BY <2>3 DEF Stage, Created, Deleted, Referenced
    <2>5. OthersKeepStage(c)
      BY <1>8, EstablishedPreserves
    <2>6. Gone' = Gone
      BY <1>8 DEF connectionEstablished, Registered, Gone, Reset, ServerInv, TypeOK, SockType
    <2> QED BY <2>4, <2>5, <2>6, OneMoves
  <1>9. ASSUME NEW l \in Loops, NEW c \in Conns,
               removeConnectionInLoop(l, c) \/ connectionDestroyed(l, c)
        PROVE  UNCHANGED Lifecycle!vars
    <2>1. OthersKeepStage(c) /\ sock' = sock
      BY <1>9, RemovePreserves, DestroyedPreserves
         DEF removeConnectionInLoop, connectionDestroyed
    <2>2. conn[c].state = "Disconnected" /\ Referenced(c) /\ c \in held'[l]
      <3>1. CASE removeConnectionInLoop(l, c)
        <4>1. Run(l, "remove", c)
          BY <3>1 DEF removeConnectionInLoop
        <4>2. Duty(l, [op |-> "remove", c |-> c]) /\ c \in held'[l]
          BY <4>1, RunOne
        <4> QED BY <4>2 DEF Duty, Referenced
      <3>2. CASE connectionDestroyed(l, c)
        <4>1. Run(l, "destroyed", c)
          BY <3>2 DEF connectionDestroyed
        <4>2. Duty(l, [op |-> "destroyed", c |-> c]) /\ c \in held'[l]
          BY <4>1, RunOne
        <4>3. [op |-> "destroyed", c |-> c] \in Elements(batch[l])
          BY <4>1, TailFunctor DEF Run, ServerInv, TypeOK, FunctorInv
        <4>4. InFunctor(l, c)
          BY <4>3 DEF InFunctor
        <4> QED BY <4>2, <4>4 DEF Duty, Referenced
      <3> QED BY <1>9, <3>1, <3>2
    <2>3. conn'[c].state = "Disconnected"
      <3>1. conn \in [Conns -> ConnType] /\ conn[c] \in ConnType
        BY DEF ServerInv, TypeOK
      <3>2. CASE removeConnectionInLoop(l, c)
        BY <2>2, <3>2 DEF removeConnectionInLoop
      <3>3. CASE connectionDestroyed(l, c)
        <4>1. conn' = [conn EXCEPT ![c] = [conn[c] EXCEPT !.status = "New", !.ep = FALSE]]
          BY <2>2, <3>3 DEF connectionDestroyed
        <4> QED BY <2>2, <3>1, <4>1 DEF ConnType
      <3> QED BY <1>9, <3>2, <3>3
    <2>4. Referenced(c)'
      BY <2>2 DEF Referenced
    <2>5. Stage(c) = "closed" /\ Stage(c)' = "closed"
      BY <2>2, <2>3, <2>4 DEF Stage, Created, Deleted
    <2> QED BY <2>1, <2>5, Stutters DEF OthersKeepStage, Gone, Reset
  <1>10. ASSUME NEW c \in Conns, Client(c) PROVE [Lifecycle!Next]_(Lifecycle!vars)
    <2>1. UNCHANGED <<conn, queue, batch, mapped, held>>
      BY <1>10 DEF Client, Connect, PeerSend, PeerFin, PeerReset, PeerReads, PeerChange, workVars
    <2>2. \A d \in Conns : Stage(d)' = Stage(d)
      BY <1>1, <2>1
    <2>3. Gone' = Gone \/ Gone' = Gone \cup {c}
      <3>1. sock \in [Conns -> SockType] /\ sock[c] \in SockType
        BY DEF ServerInv, TypeOK
      <3>2. PICK s : sock' = [sock EXCEPT ![c] = s]
        BY <1>10 DEF Client, Connect, PeerSend, PeerFin, PeerReset, PeerReads, PeerChange
      <3>3. \A d \in Conns : d # c => sock'[d] = sock[d]
        BY <3>1, <3>2
      <3>4. Reset(sock[c]) => Reset(sock[c])'
        <4>1. CASE Connect(c)
          BY <4>1 DEF Connect, Reset
        <4>2. CASE PeerSend(c) \/ PeerFin(c) \/ PeerReset(c) \/ PeerReads(c)
          BY <4>2, PeerPreserves
        <4> QED BY <1>10, <4>1, <4>2 DEF Client
      <3> QED BY <3>3, <3>4 DEF Gone
    <2>4. CASE Gone' = Gone
      BY <2>2, <2>4, Stutters
    <2>5. CASE Gone' = Gone \cup {c}
      <3>1. Lifecycle!ClientGone(c)
        BY <2>2, <2>5 DEF Lifecycle!ClientGone, Gone
      <3> QED BY <3>1 DEF Lifecycle!Next
    <2> QED BY <2>3, <2>4, <2>5
  <1>11. CASE UNCHANGED vars
    <2>1. UNCHANGED <<conn, queue, batch, mapped, held, sock>>
      BY <1>11 DEF vars, workVars
    <2> QED BY <1>1, <2>1, Stutters DEF Gone, Reset
  <1>12. ASSUME NEW l \in Loops, LoopStep(l) PROVE [Lifecycle!Next]_(Lifecycle!vars)
    BY <1>2, <1>3, <1>4, <1>5, <1>6, <1>7, <1>8, <1>9, <1>12 DEF LoopStep
  <1> QED BY <1>10, <1>11, <1>12 DEF Next

(* The server implements the life promised to each connection: accepted    *)
(* once, served, closed once, and released once, after it was closed, when *)
(* the last functor that holds it is gone.                                 *)
THEOREM ImplementsLifecycle == Spec => Lifecycle!SafeSpec
  <1>1. Init => Lifecycle!Init
    BY DEF Init, Lifecycle!Init, Stage, Created, NoConn, NoSock, Reset
  <1>2. ServerInv /\ ServerInv' /\ [Next]_vars => [Lifecycle!Next]_(Lifecycle!vars)
    BY StepIsLifecycle
  <1> QED BY <1>1, <1>2, ServerInvInductive, PTL DEF Spec, Lifecycle!SafeSpec

------------------------------------------------------------------------------
(* HttpServer: what it answers to the messages of one connection. *)

(* Nothing is sent after a reply that announced a close. *)
CloseInv ==
    /\ \A i \in 1 .. Len(replies) - 1 : ~replies[i].close
    /\ state = "Connected" => \A i \in 1 .. Len(replies) : ~replies[i].close

(* Between two messages the parser is as reset() leaves it, and send() has *)
(* emptied readBuf_.                                                       *)
RestInv ==
    /\ phase = "idle" => checked = 0 /\ checkState = "REQUESTLINE" /\ request = NoRequest
    /\ phase = "idle" /\ state = "Connected" => buf = <<>>

(* The message in hand is the request r, and request_ has of it what the   *)
(* parser has passed.                                                      *)
InHand(r) ==
    /\ buf = Lines(r)
    /\ checkState = "REQUESTLINE" /\ phase = "parse" =>
          checked = 0 /\ request = NoRequest
    /\ checkState = "REQUESTLINE" /\ phase = "respond" =>
          r.version = "bad" /\ request = [NoRequest EXCEPT !.code = "BAD_REQUEST"]
    /\ checkState # "REQUESTLINE" =>
          /\ r.version # "bad" /\ request.version = r.version /\ request.file = r.file
          /\ request.connection = IF checked = 1 THEN "none" ELSE r.connection
          /\ checked > 0
          /\ checkState = "HEADER" => checked < Len(buf) /\ phase # "respond"
          /\ checkState = "CONTENT" => checked > 1
          /\ phase = "respond" => request.code = "GET_REQUEST"

(* While every message was one request, it is the first unanswered one. *)
MessageInv ==
    whole /\ state = "Connected" =>
        /\ Len(replies) <= Len(sent)
        /\ phase \in {"parse", "respond"} =>
              Len(replies) < Len(sent) /\ InHand(sent[Len(replies) + 1])

RepliesMatch ==
    whole => \A i \in 1 .. Len(replies) :
                /\ i <= Len(sent)
                /\ replies[i].code = Expected(sent[i]).code
                /\ sent[i].connection # "none" => replies[i] = Expected(sent[i])

HttpInv == HttpTypeOK /\ CloseInv /\ RestInv /\ MessageInv /\ RepliesMatch

RequestSet == [code : Codes, version : Versions \cup {Unset},
               file : Files \cup {Unset}, connection : Values]
ReplySet == [code : {"200", "400", "403", "404"}, close : BOOLEAN]

------------------------------------------------------------------------------
(* The empty string is not the name of a file. *)
LEMMA UnsetIsNoFile == Unset \notin Files
  BY Zenon DEF Unset, Files

(* A request is its line, perhaps a header, and the empty line. *)
LEMMA LinesFacts ==
    ASSUME NEW r \in Requests
    PROVE  /\ Lines(r) \in Seq(LineSet)
           /\ Len(Lines(r)) = IF r.connection = "none" THEN 2 ELSE 3
           /\ Lines(r)[1] = [kind |-> "request", of |-> r]
           /\ Lines(r)[2] = [kind |-> IF r.connection = "none" THEN "empty" ELSE "header",
                             of |-> r]
           /\ r.connection # "none" => Lines(r)[3] = [kind |-> "empty", of |-> r]
  <1> DEFINE a == [kind |-> "request", of |-> r]
             b == [kind |-> "header", of |-> r]
             e == [kind |-> "empty", of |-> r]
  <1>1. a \in LineSet /\ b \in LineSet /\ e \in LineSet
    BY DEF LineSet
  <1> HIDE DEF a, b, e
  <1>2. ASSUME NEW low \in Seq(LineSet), NEW u \in LineSet
        PROVE  /\ low \o <<u>> \in Seq(LineSet) /\ Len(low \o <<u>>) = Len(low) + 1
               /\ (low \o <<u>>)[Len(low) + 1] = u
               /\ \A i \in 1 .. Len(low) : (low \o <<u>>)[i] = low[i]
    <2>1. low \o <<u>> = Append(low, u)
      BY AppendIsConcat
    <2> QED BY <2>1, AppendProperties
  <1>3. <<a>> \in Seq(LineSet) /\ Len(<<a>>) = 1 /\ <<a>>[1] = a /\ <<a>> \o <<>> = <<a>>
    BY <1>1, ConcatEmptySeq
  <1>4. CASE r.connection = "none"
    <2>1. Lines(r) = <<a>> \o <<e>>
      BY <1>3, <1>4 DEF Lines, a, e
    <2>2. /\ <<a>> \o <<e>> \in Seq(LineSet) /\ Len(<<a>> \o <<e>>) = 2
          /\ (<<a>> \o <<e>>)[1] = a /\ (<<a>> \o <<e>>)[2] = e
      BY <1>1, <1>2, <1>3
    <2> QED BY <1>4, <2>1, <2>2 DEF a, e
  <1>5. CASE r.connection # "none"
    <2>1. Lines(r) = <<a>> \o <<b>> \o <<e>>
      BY <1>5 DEF Lines, a, b, e
    <2>2. PICK low : low = <<a>> \o <<b>>
      OBVIOUS
    <2>4. low \in Seq(LineSet) /\ Len(low) = 2 /\ low[1] = a /\ low[2] = b
      <3>1. /\ low \in Seq(LineSet) /\ Len(low) = Len(<<a>>) + 1 /\ low[Len(<<a>>) + 1] = b
            /\ \A i \in 1 .. Len(<<a>>) : low[i] = <<a>>[i]
        BY <1>1, <1>2, <1>3, <2>2
      <3>2. 1 \in 1 .. Len(<<a>>) /\ Len(<<a>>) + 1 = 2
        BY <1>3
      <3> QED BY <1>3, <3>1, <3>2
    <2>3. /\ low \o <<e>> \in Seq(LineSet) /\ Len(low \o <<e>>) = 3
          /\ (low \o <<e>>)[1] = a /\ (low \o <<e>>)[2] = b /\ (low \o <<e>>)[3] = e
      <3>1. /\ low \o <<e>> \in Seq(LineSet) /\ Len(low \o <<e>>) = Len(low) + 1
            /\ (low \o <<e>>)[Len(low) + 1] = e
            /\ \A i \in 1 .. Len(low) : (low \o <<e>>)[i] = low[i]
        BY <1>1, <1>2, <2>4
      <3>2. Len(low) + 1 = 3 /\ 1 \in 1 .. Len(low) /\ 2 \in 1 .. Len(low)
        BY <2>4
      <3> QED BY <2>4, <3>1, <3>2
    <2> QED BY <1>5, <2>1, <2>2, <2>3 DEF a, b, e
  <1> QED BY <1>4, <1>5

(* A complete line is one of the buffer, and ends in it. *)
LEMMA LineFacts ==
    ASSUME HttpTypeOK, LineReady
    PROVE  /\ Line \in LineSet /\ Line.of \in Requests
           /\ LineEnd \in 0 .. Len(buf) /\ LineEnd > checked
           /\ Line.kind # "torn" => LineEnd = checked + 1
  <1>1. checked \in 0 .. Len(buf) /\ Len(buf) \in Nat /\ buf \in Seq(LineSet)
    BY LenProperties DEF HttpTypeOK
  <1>2. checked + 1 \in 1 .. Len(buf)
    BY <1>1 DEF LineReady
  <1>3. Line \in LineSet
    BY <1>1, <1>2, ElementOfSeq DEF Line
  <1> QED BY <1>1, <1>2, <1>3 DEF LineReady, LineEnd, LineSet

(* What onRequest leaves in the buffer are lines. *)
LEMMA KeptIsLines ==
    ASSUME HttpTypeOK
    PROVE  Kept \in Seq(LineSet)
  <1>1. checked \in 0 .. Len(buf) /\ Len(buf) \in Nat /\ buf \in Seq(LineSet)
    BY LenProperties DEF HttpTypeOK
  <1>2. SubSeq(buf, checked + 1, Len(buf)) \in Seq(LineSet)
    BY <1>1, SubSeqProperties
  <1>3. CASE \A i \in 1 .. checked : SubSeq(buf, 1, checked)[i].kind = "empty"
    BY <1>2, <1>3 DEF Kept
  <1>4. CASE ~(\A i \in 1 .. checked : SubSeq(buf, 1, checked)[i].kind = "empty")
    <2>1. 1 \in 1 .. Len(buf)
      BY <1>1, <1>4
    <2>2. buf[1] \in LineSet
      BY <1>1, <2>1, ElementOfSeq
    <2>3. [kind |-> "torn", of |-> buf[1].of] \in LineSet
      BY <2>2 DEF LineSet
    <2>4. <<[kind |-> "torn", of |-> buf[1].of]>> \in Seq(LineSet)
      BY <2>3
    <2>5. Kept = <<[kind |-> "torn", of |-> buf[1].of]>>
                       \o SubSeq(buf, checked + 1, Len(buf))
      BY <1>4 DEF Kept
    <2> QED BY <1>2, <2>4, <2>5, ConcatProperties
  <1> QED BY <1>3, <1>4

------------------------------------------------------------------------------
(* Before the first request there is no message in hand and no reply. *)
LEMMA HttpInitEstablishes == HttpInit => HttpInv
  <1> SUFFICES ASSUME HttpInit PROVE HttpInv
    OBVIOUS
  <1>1. HttpTypeOK
    <2>1. request \in RequestSet
      BY DEF HttpInit, NoRequest, Codes, Values, RequestSet
    <2>2. checked \in 0 .. Len(buf)
      BY DEF HttpInit
    <2>3. /\ stream \in Seq(LineSet) /\ buf \in Seq(LineSet)
          /\ sent \in Seq(Requests)
          /\ replies \in Seq([code : {"200", "400", "403", "404"}, close : BOOLEAN])
      BY DEF HttpInit
    <2>4. /\ phase = "idle" /\ checkState = "REQUESTLINE" /\ state = "Connected" /\ whole = TRUE
      BY DEF HttpInit
    <2> QED BY <2>1, <2>2, <2>3, <2>4 DEF HttpTypeOK, RequestSet
  <1>2. CloseInv /\ RestInv /\ MessageInv /\ RepliesMatch
    BY DEF HttpInit, CloseInv, RestInv, MessageInv, RepliesMatch
  <1> QED BY <1>1, <1>2 DEF HttpInv

(* Sending a request makes no difference to the one in hand. *)
LEMMA SendPreserves ==
    ASSUME HttpInv, NEW r \in Requests, SendRequest(r)
    PROVE  HttpInv'
  <1>1. /\ stream' = stream \o Lines(r) /\ sent' = Append(sent, r)
        /\ UNCHANGED <<buf, phase, checked, checkState, request, state, replies, whole>>
    BY DEF SendRequest, contextVars
  <1>2. sent \in Seq(Requests) /\ Len(sent) \in Nat
        /\ replies \in Seq(ReplySet) /\ Len(replies) \in Nat
    BY LenProperties DEF HttpInv, HttpTypeOK, ReplySet
  <1>3. /\ sent' \in Seq(Requests) /\ Len(sent') = Len(sent) + 1
        /\ \A i \in 1 .. Len(sent) : sent'[i] = sent[i]
    BY <1>1, <1>2, AppendProperties
  <1>4. HttpTypeOK'
    <2>1. stream' \in Seq(LineSet)
      BY <1>1, LinesFacts, ConcatProperties DEF HttpInv, HttpTypeOK
    <2> QED BY <1>1, <1>3, <2>1 DEF HttpInv, HttpTypeOK
  <1>5. CloseInv' /\ RestInv'
    BY <1>1 DEF HttpInv, CloseInv, RestInv
  <1>6. MessageInv'
    <2> SUFFICES ASSUME whole, state = "Connected"
                 PROVE  /\ Len(replies) <= Len(sent')
                        /\ phase \in {"parse", "respond"} =>
                              /\ Len(replies) < Len(sent')
                              /\ \E q : q = sent'[Len(replies) + 1] /\ InHand(q)
      BY <1>1 DEF MessageInv, InHand
    <2>1. Len(replies) <= Len(sent)
      BY DEF HttpInv, MessageInv
    <2>2. ASSUME phase \in {"parse", "respond"}
          PROVE  Len(replies) < Len(sent) /\ InHand(sent'[Len(replies) + 1])
      <3>1. Len(replies) < Len(sent) /\ InHand(sent[Len(replies) + 1])
        BY <2>2 DEF HttpInv, MessageInv
      <3>2. Len(replies) + 1 \in 1 .. Len(sent)
        BY <1>2, <3>1
      <3> QED BY <1>3, <3>1, <3>2
    <2> QED BY <1>2, <1>3, <2>1, <2>2
  <1>7. RepliesMatch'
    <2> SUFFICES ASSUME whole, NEW i \in 1 .. Len(replies)
                 PROVE  /\ i <= Len(sent')
                        /\ replies[i].code = Expected(sent'[i]).code
                        /\ sent'[i].connection # "none" => replies[i] = Expected(sent'[i])
      BY <1>1 DEF RepliesMatch, Expected
    <2>1. /\ i <= Len(sent) /\ replies[i].code = Expected(sent[i]).code
          /\ sent[i].connection # "none" => replies[i] = Expected(sent[i])
      BY DEF HttpInv, RepliesMatch
    <2>2. i \in 1 .. Len(sent) /\ i <= Len(sent')
      BY <1>2, <1>3, <2>1
    <2> QED BY <1>3, <2>1, <2>2
  <1> QED BY <1>4, <1>5, <1>6, <1>7 DEF HttpInv

(* Old replies match as long as there are no new ones. *)
LEMMA RepliesStay ==
    ASSUME RepliesMatch, UNCHANGED <<sent, replies>>, whole' => whole
    PROVE  RepliesMatch'
  <1> SUFFICES ASSUME whole', NEW i \in 1 .. Len(replies)
               PROVE  /\ i <= Len(sent)
                      /\ replies[i].code = Expected(sent[i]).code
                      /\ sent[i].connection # "none" => replies[i] = Expected(sent[i])
    BY DEF RepliesMatch, Expected
  <1> QED BY DEF RepliesMatch

(* handleRead has a message that is one request, the first unanswered one, *)
(* parsed from its start.                                                  *)
LEMMA ReadPreserves ==
    ASSUME HttpInv, handleRead
    PROVE  HttpInv'
  <1>1. PICK n \in 1 .. Len(stream) :
          /\ buf' = buf \o SubSeq(stream, 1, n)
          /\ stream' = SubSeq(stream, n + 1, Len(stream))
          /\ whole' = (whole /\ Len(replies) < Len(sent)
                             /\ buf' = Lines(sent[Len(replies) + 1]))
    BY DEF handleRead
  <1>2. /\ phase = "idle" /\ phase' = "parse"
        /\ UNCHANGED <<sent, checked, checkState, request, state, replies>>
    BY DEF handleRead, contextVars
  <1>3. checked = 0 /\ checkState = "REQUESTLINE" /\ request = NoRequest
    BY <1>2 DEF HttpInv, RestInv
  <1>4. HttpTypeOK'
    <2>1. stream \in Seq(LineSet) /\ buf \in Seq(LineSet) /\ Len(stream) \in Nat
      BY LenProperties DEF HttpInv, HttpTypeOK
    <2>2. SubSeq(stream, 1, n) \in Seq(LineSet)
      BY <1>1, <2>1, SubSeqProperties
    <2>3. stream' \in Seq(LineSet)
      BY <1>1, <2>1, SubSeqProperties
    <2>4. buf' \in Seq(LineSet) /\ Len(buf') \in Nat
      BY <1>1, <2>1, <2>2, ConcatProperties, LenProperties
    <2>5. checked' \in 0 .. Len(buf')
      BY <1>2, <1>3, <2>4
    <2>6. whole' \in BOOLEAN
      BY <1>1
    <2> QED BY <1>2, <2>3, <2>4, <2>5, <2>6 DEF HttpInv, HttpTypeOK
  <1>5. CloseInv' /\ RestInv'
    BY <1>2 DEF HttpInv, CloseInv, RestInv
  <1>7. RepliesMatch'
    BY <1>1, <1>2, RepliesStay DEF HttpInv
  <1>6. MessageInv'
    <2> SUFFICES ASSUME whole'
                 PROVE  /\ Len(replies) <= Len(sent)
                        /\ Len(replies) < Len(sent)
                        /\ \E q : q = sent[Len(replies) + 1] /\ InHand(q)'
      BY <1>2 DEF MessageInv, InHand
    <2>1. Len(replies) < Len(sent) /\ buf' = Lines(sent[Len(replies) + 1])
      BY <1>1
    <2>2. Len(replies) \in Nat /\ Len(sent) \in Nat
      BY LenProperties DEF HttpInv, HttpTypeOK
    <2> QED BY <1>2, <1>3, <2>1, <2>2 DEF InHand
  <1> QED BY <1>4, <1>5, <1>6, <1>7 DEF HttpInv

(* What the parser's steps have in common: they change no message. *)
LEMMA ParseFollows ==
    ASSUME HttpInv, phase = "parse", phase' \in {"parse", "respond", "hung"},
           UNCHANGED <<stream, buf, state, replies, sent, whole>>,
           checked' \in 0 .. Len(buf), checkState' \in {"REQUESTLINE", "HEADER", "CONTENT"},
           request' \in RequestSet,
           ASSUME whole, state = "Connected", phase' # "hung", NEW r \in Requests, InHand(r)
           PROVE  InHand(r)'
    PROVE  HttpInv'
  <1>1. HttpTypeOK'
    BY DEF HttpInv, HttpTypeOK, RequestSet
  <1>2. CloseInv' /\ RestInv'
    BY DEF HttpInv, CloseInv, RestInv
  <1>4. RepliesMatch'
    BY RepliesStay DEF HttpInv
  <1>3. MessageInv'
    <2> SUFFICES ASSUME whole, state = "Connected"
                 PROVE  /\ Len(replies) <= Len(sent)
                        /\ phase' # "hung" =>
                              /\ Len(replies) < Len(sent)
                              /\ \E q : q = sent[Len(replies) + 1] /\ InHand(q)'
      BY DEF MessageInv, InHand
    <2>1. Len(replies) <= Len(sent) /\ Len(replies) < Len(sent)
          /\ InHand(sent[Len(replies) + 1])
      BY DEF HttpInv, MessageInv
    <2>2. sent[Len(replies) + 1] \in Requests
      <3>1. Len(replies) \in Nat /\ Len(sent) \in Nat /\ sent \in Seq(Requests)
        BY LenProperties DEF HttpInv, HttpTypeOK
      <3>2. PICK m \in Nat, n \in Nat : m = Len(replies) /\ n = Len(sent)
        BY <3>1
      <3>3. m + 1 \in 1 .. n
        <4>1. m < n /\ m \in Nat /\ n \in Nat
          BY <2>1, <3>2
        <4> QED BY <4>1
      <3> QED BY <3>1, <3>2, <3>3, ElementOfSeq
    <2> QED BY <2>1, <2>2
  <1> QED BY <1>1, <1>2, <1>3, <1>4 DEF HttpInv

(* The request in hand has the line that the parser expects next. *)
LEMMA NextLine ==
    ASSUME HttpTypeOK, NEW r \in Requests, InHand(r), phase = "parse"
    PROVE  /\ checkState = "REQUESTLINE" =>
                 LineReady /\ Line = [kind |-> "request", of |-> r]
           /\ checkState = "HEADER" =>
                 /\ LineReady /\ Line.of = r
                 /\ checked = 1 => (Line.kind = "header" <=> r.connection # "none")
                                   /\ Line.kind \in {"header", "empty"}
                 /\ checked # 1 => checked = 2 /\ Line.kind = "empty"
  <1>1. /\ buf = Lines(r) /\ checked \in 0 .. Len(buf)
        /\ Len(buf) = IF r.connection = "none" THEN 2 ELSE 3
        /\ buf[1] = [kind |-> "request", of |-> r]
        /\ buf[2] = [kind |-> IF r.connection = "none" THEN "empty" ELSE "header", of |-> r]
        /\ r.connection # "none" => buf[3] = [kind |-> "empty", of |-> r]
    BY LinesFacts DEF InHand, HttpTypeOK
  <1>2. ASSUME checkState = "REQUESTLINE"
        PROVE  LineReady /\ Line = [kind |-> "request", of |-> r]
    <2>1. checked = 0
      BY <1>2 DEF InHand
    <2> QED BY <1>1, <2>1 DEF LineReady, Line, LineEnd
  <1>3. ASSUME checkState = "HEADER"
        PROVE  /\ LineReady /\ Line.of = r
               /\ checked = 1 => (Line.kind = "header" <=> r.connection # "none")
                                 /\ Line.kind \in {"header", "empty"}
               /\ checked # 1 => checked = 2 /\ Line.kind = "empty"
    <2>1. checked > 0 /\ checked < Len(buf)
      BY <1>3 DEF InHand
    <2>2. checked = 1 \/ (checked = 2 /\ r.connection # "none")
      <3>1. PICK k \in Nat : k = checked
        <4>1. Len(buf) \in Nat
          BY <1>1
        <4> QED BY <1>1, <4>1
      <3>2. CASE r.connection = "none"
        <4>1. k > 0 /\ k < 2
          BY <1>1, <2>1, <3>1, <3>2
        <4>2. k = 1
          BY <4>1
        <4> QED BY <3>1, <4>2
      <3>3. CASE r.connection # "none"
        <4>1. k > 0 /\ k < 3
          BY <1>1, <2>1, <3>1, <3>3
        <4>2. k = 1 \/ k = 2
          BY <4>1
        <4> QED BY <3>1, <3>3, <4>2
      <3> QED BY <3>2, <3>3
    <2>3. CASE checked = 1
      BY <1>1, <2>3 DEF LineReady, Line, LineEnd
    <2>4. CASE checked = 2 /\ r.connection # "none"
      BY <1>1, <2>4 DEF LineReady, Line, LineEnd
    <2> QED BY <2>2, <2>3, <2>4
  <1> QED BY <1>2, <1>3

------------------------------------------------------------------------------
(* parseRequestLine takes the version and the file of the request in hand, *)
(* or ends with BAD_REQUEST.                                               *)
LEMMA RequestLinePreserves ==
    ASSUME HttpInv, parseRequestLine
    PROVE  HttpInv'
  <1>1. /\ phase = "parse" /\ checkState = "REQUESTLINE" /\ LineReady
        /\ checked' = LineEnd
        /\ UNCHANGED <<stream, buf, state, replies, sent, whole>>
    BY DEF parseRequestLine, historyVars
  <1>2. checked' \in 0 .. Len(buf) /\ Line.of \in Requests
    BY <1>1, LineFacts DEF HttpInv
  <1>3. request \in RequestSet
    BY DEF HttpInv, HttpTypeOK, RequestSet
  <1>4. CASE Line.kind = "request" /\ Line.of.version # "bad"
    <2>1. /\ request' = [request EXCEPT !.version = Line.of.version,
                                     !.file = Line.of.file]
          /\ checkState' = "HEADER" /\ phase' = phase
      BY <1>4 DEF parseRequestLine
    <2>2. request' \in RequestSet
      BY <1>2, <1>3, <2>1 DEF Requests, RequestSet
    <2>3. ASSUME whole, state = "Connected", phase' # "hung",
                 NEW r \in Requests, InHand(r)
          PROVE  InHand(r)'
      <3>1. Line = [kind |-> "request", of |-> r] /\ checked = 0 /\ request = NoRequest
            /\ buf = Lines(r)
        BY <1>1, <2>3, NextLine DEF InHand, HttpInv
      <3>2. checked' = 1
        BY <1>1, <3>1 DEF LineEnd
      <3>3. checked' < Len(buf)
        <4>1. Len(buf) = 2 \/ Len(buf) = 3
          BY <3>1, LinesFacts
        <4> QED BY <3>2, <4>1
      <3>4. request' = [code |-> "NO_REQUEST", version |-> r.version, file |-> r.file,
                        connection |-> "none"]
        BY <2>1, <3>1 DEF NoRequest
      <3>5. r.version # "bad"
        BY <1>4, <3>1
      <3>6. /\ request'.version = r.version /\ request'.file = r.file
            /\ request'.connection = "none"
        BY <3>4
      <3> QED BY <1>1, <2>1, <3>1, <3>2, <3>3, <3>5, <3>6 DEF InHand
    <2> QED BY <1>1, <1>2, <2>1, <2>2, <2>3, ParseFollows
  <1>5. CASE ~(Line.kind = "request" /\ Line.of.version # "bad")
    <2>1. request' = [request EXCEPT !.code = "BAD_REQUEST"] /\ phase' = "respond"
          /\ checkState' = checkState
      BY <1>5 DEF parseRequestLine, ParseEnds
    <2>2. request' \in RequestSet
      BY <1>3, <2>1 DEF Codes, RequestSet
    <2>3. ASSUME whole, state = "Connected", phase' # "hung",
                 NEW r \in Requests, InHand(r)
          PROVE  InHand(r)'
      <3>1. Line = [kind |-> "request", of |-> r] /\ request = NoRequest
            /\ buf = Lines(r)
        BY <1>1, <2>3, NextLine DEF InHand, HttpInv
      <3> QED BY <1>1, <1>5, <2>1, <3>1 DEF InHand
    <2> QED BY <1>1, <1>2, <2>1, <2>2, <2>3, ParseFollows
  <1> QED BY <1>4, <1>5

(* parseHeader takes the Connection header of the request in hand. *)
LEMMA HeaderPreserves ==
    ASSUME HttpInv, parseHeader
    PROVE  HttpInv'
  <1>1. /\ phase = "parse" /\ checkState = "HEADER" /\ LineReady
        /\ checked' = LineEnd
        /\ Line.kind = "header" /\ checkState' = checkState
        /\ UNCHANGED <<stream, buf, state, replies, sent, whole>>
        /\ \/ phase' = "hung" /\ request' = request
           \/ /\ phase' = phase
              /\ request' = [request EXCEPT !.connection = Line.of.connection]
    BY DEF parseHeader, historyVars
  <1>2. checked' \in 0 .. Len(buf) /\ Line.of \in Requests
        /\ LineEnd = checked + 1
    BY <1>1, LineFacts DEF HttpInv
  <1>3. request' \in RequestSet
    BY <1>1, <1>2 DEF HttpInv, HttpTypeOK, Requests, RequestSet
  <1>4. ASSUME whole, state = "Connected", phase' # "hung", NEW r \in Requests, InHand(r)
        PROVE  InHand(r)'
    <2>1. Line.of = r /\ checked = 1 /\ r.connection # "none"
      BY <1>1, <1>4, NextLine DEF HttpInv
    <2>2. phase' = "parse" /\ request' = [request EXCEPT !.connection = r.connection]
      BY <1>1, <1>4, <2>1
    <2>3. checked' = 2 /\ Len(buf) = 3
      <3>1. buf = Lines(r)
        BY <1>4 DEF InHand
      <3>2. checked' = 1 + 1
        BY <1>1, <1>2, <2>1
      <3>3. Len(buf) = 3
        BY <2>1, <3>1, LinesFacts
      <3> QED BY <3>2, <3>3
    <2>4. /\ request'.version = request.version /\ request'.file = request.file
          /\ request'.connection = r.connection
      BY <2>2 DEF HttpInv, HttpTypeOK
    <2> QED BY <1>1, <1>4, <2>1, <2>2, <2>3, <2>4 DEF InHand
  <1> QED BY <1>1, <1>2, <1>3, <1>4, ParseFollows

(* The line that ends the headers of the request in hand is its last. *)
LEMMA HeaderEndPreserves ==
    ASSUME HttpInv, parseHeaderEnd
    PROVE  HttpInv'
  <1>1. /\ phase = "parse" /\ checkState = "HEADER" /\ LineReady
        /\ checked' = LineEnd
        /\ Line.kind # "header" /\ checkState' = "CONTENT"
        /\ UNCHANGED <<stream, buf, phase, request, state, replies, sent, whole>>
    BY DEF parseHeaderEnd, historyVars
  <1>2. checked' \in 0 .. Len(buf) /\ (Line.kind # "torn" => LineEnd = checked + 1)
    BY <1>1, LineFacts DEF HttpInv
  <1>3. request' \in RequestSet
    BY <1>1 DEF HttpInv, HttpTypeOK, RequestSet
  <1>4. ASSUME whole, state = "Connected", phase' # "hung", NEW r \in Requests, InHand(r)
        PROVE  InHand(r)'
    <2>1. /\ Line.kind = "empty"
          /\ (checked = 1 /\ r.connection = "none") \/ checked = 2
      BY <1>1, <1>4, NextLine DEF HttpInv
    <2>2. checked' = checked + 1
      BY <1>1, <1>2, <2>1
    <2>3. checked' > 1 /\ checked' > 0 /\ checked' # 1
      BY <2>1, <2>2
    <2>4. request.connection = r.connection
      BY <1>1, <1>4, <2>1 DEF InHand
    <2>5. /\ buf = Lines(r) /\ r.version # "bad" /\ request.version = r.version
          /\ request.file = r.file
      BY <1>1, <1>4 DEF InHand
    <2>6. checkState' = "CONTENT" /\ phase' = "parse" /\ buf' = buf /\ request' = request
      BY <1>1
    <2> QED BY <2>3, <2>4, <2>5, <2>6 DEF InHand
  <1> QED BY <1>1, <1>2, <1>3, <1>4, ParseFollows

(* Where parseRequest ends with a request: behind the empty line, if the   *)
(* message was one request.                                                *)
LEMMA EndPreserves ==
    ASSUME HttpInv, parseBody \/ OutOfLines
    PROVE  HttpInv'
  <1>1. /\ phase = "parse" /\ phase' = "respond"
        /\ checkState = "CONTENT" \/ ~LineReady
        /\ request' = [request EXCEPT !.code = "GET_REQUEST"]
        /\ UNCHANGED <<stream, buf, checked, checkState, state, replies, sent, whole>>
    BY DEF parseBody, OutOfLines, ParseEnds, historyVars
  <1>2. request' \in RequestSet
    BY <1>1 DEF HttpInv, HttpTypeOK, Codes, RequestSet
  <1>3. checked' \in 0 .. Len(buf) /\ checkState' \in {"REQUESTLINE", "HEADER", "CONTENT"}
    BY <1>1 DEF HttpInv, HttpTypeOK
  <1>4. ASSUME whole, state = "Connected", phase' # "hung", NEW r \in Requests, InHand(r)
        PROVE  InHand(r)'
    <2>1. checkState = "CONTENT"
      BY <1>1, <1>3, <1>4, NextLine DEF HttpInv
    <2>2. /\ request'.version = request.version /\ request'.file = request.file
          /\ request'.connection = request.connection /\ request'.code = "GET_REQUEST"
      BY <1>1 DEF HttpInv, HttpTypeOK
    <2> QED BY <1>1, <1>4, <2>1, <2>2 DEF InHand
  <1> QED BY <1>1, <1>2, <1>3, <1>4, ParseFollows

(* What is sent for the request in hand is what it is to be answered with. *)
LEMMA AnswerIsExpected ==
    ASSUME NEW r \in Requests, InHand(r), phase = "respond",
           request \in RequestSet,
           checkState \in {"REQUESTLINE", "HEADER", "CONTENT"}, checked \in Nat,
           NEW connection \in getHeader, NEW code \in defaultHttpCB
    PROVE  /\ code = Expected(r).code
           /\ r.connection # "none" =>
                 (Closes(connection) \/ request.code # "GET_REQUEST")
                    = Expected(r).close
  <1>1. CASE checkState = "REQUESTLINE"
    <2>1. r.version = "bad" /\ request.code = "BAD_REQUEST"
      BY <1>1 DEF InHand, NoRequest
    <2>2. code = "404"
      BY <2>1 DEF defaultHttpCB
    <2>3. Expected(r).code = "404" /\ Expected(r).close = TRUE
      BY <2>1 DEF Expected
    <2> QED BY <2>1, <2>2, <2>3
  <1>2. CASE checkState = "CONTENT"
    <2>1. /\ r.version # "bad" /\ request.version = r.version /\ request.file = r.file
          /\ request.connection = r.connection /\ request.code = "GET_REQUEST"
      <3>1. checked > 1
        BY <1>2 DEF InHand
      <3>2. checked # 1
        <4>1. checked \in Nat
          OBVIOUS
        <4> QED BY <3>1, <4>1
      <3> QED BY <1>2, <3>2 DEF InHand
    <2>2. r.file \in Files
      BY DEF Requests
    <2>3. code = Expected(r).code
      <3>1. defaultHttpCB = CASE r.file = "page"    -> {"200"}
                              [] r.file = "private" -> {"403"}
                              [] r.file = Unset     -> {"400", "403"}
                              [] OTHER              -> {"400"}
        BY <2>1 DEF defaultHttpCB
      <3>2. r.file # Unset
        BY <2>2, UnsetIsNoFile
      <3>3. Expected(r).code = CASE r.file = "page"    -> "200"
                                 [] r.file = "private" -> "403"
                                 [] OTHER              -> "400"
        BY <2>1 DEF Expected
      <3> QED BY <3>1, <3>2, <3>3
    <2>4. ASSUME r.connection # "none" PROVE connection = r.connection
      BY <2>1, <2>4 DEF getHeader
    <2> QED BY <2>1, <2>3, <2>4 DEF Expected, Closes
  <1>3. checkState # "HEADER"
    BY DEF InHand
  <1> QED BY <1>1, <1>2, <1>3

(* onRequest answers the request in hand, unless a close was announced, and *)
(* leaves the parser and readBuf_ ready for the next message.              *)
LEMMA RespondPreserves ==
    ASSUME HttpInv, onRequest
    PROVE  HttpInv'
  <1>1. PICK connection \in getHeader, code \in defaultHttpCB :
          LET close == Closes(connection) \/ request.code # "GET_REQUEST"
          IN  /\ send([code |-> code, close |-> close])
              /\ state' = IF close THEN "Disconnecting" ELSE state
    BY DEF onRequest
  <1>2. PICK close \in BOOLEAN :
          close = (Closes(connection) \/ request.code # "GET_REQUEST")
    OBVIOUS
  <1>3. /\ send([code |-> code, close |-> close])
        /\ state' = IF close THEN "Disconnecting" ELSE state
    BY <1>1, <1>2
  <1>4. /\ phase = "respond" /\ phase' = "idle"
        /\ checked' = 0 /\ checkState' = "REQUESTLINE" /\ request' = NoRequest
        /\ UNCHANGED <<stream, sent, whole>>
    BY DEF onRequest, reset, historyVars
  <1>5. PICK a \in ReplySet : a = [code |-> code, close |-> close]
    <2>1. code \in {"200", "400", "403", "404"}
      BY DEF defaultHttpCB
    <2> QED BY <2>1 DEF ReplySet
  <1>6. IF state = "Connected"
        THEN replies' = Append(replies, a) /\ buf' = <<>>
        ELSE buf' = Kept /\ replies' = replies
    BY <1>3, <1>5 DEF send
  <1>7. replies \in Seq(ReplySet) /\ Len(replies) \in Nat /\ sent \in Seq(Requests)
        /\ Len(sent) \in Nat
    BY LenProperties DEF HttpInv, HttpTypeOK, ReplySet
  <1>8. /\ Append(replies, a) \in Seq(ReplySet)
        /\ Len(Append(replies, a)) = Len(replies) + 1
        /\ Append(replies, a)[Len(replies) + 1] = a
        /\ \A i \in 1 .. Len(replies) : Append(replies, a)[i] = replies[i]
    BY <1>7, AppendProperties
  <1>9. HttpTypeOK'
    <2>1. request' \in RequestSet
      BY <1>4 DEF NoRequest, Codes, Values, RequestSet
    <2>2. buf' \in Seq(LineSet) /\ Len(buf') \in Nat
      <3>1. Kept \in Seq(LineSet) /\ <<>> \in Seq(LineSet)
        BY KeptIsLines DEF HttpInv
      <3>2. buf' = Kept \/ buf' = <<>>
        BY <1>6
      <3> QED BY <3>1, <3>2, LenProperties
    <2>3. checked' \in 0 .. Len(buf')
      BY <1>4, <2>2
    <2>4. replies' \in Seq(ReplySet)
      BY <1>6, <1>7, <1>8
    <2> QED BY <1>3, <1>4, <2>1, <2>2, <2>3, <2>4 DEF HttpInv, HttpTypeOK, ReplySet, RequestSet
  <1>10. RestInv'
    BY <1>3, <1>4, <1>6 DEF RestInv
  <1>11. CASE state # "Connected"
    <2>1. replies' = replies /\ state' # "Connected"
      BY <1>3, <1>6, <1>11
    <2> QED BY <1>4, <1>9, <1>10, <2>1
            DEF HttpInv, CloseInv, MessageInv, RepliesMatch, Expected
  <1>12. CASE state = "Connected"
    <2>1. Len(replies') = Len(replies) + 1 /\ replies'[Len(replies) + 1] = a
          /\ \A i \in 1 .. Len(replies) : replies'[i] = replies[i]
      BY <1>6, <1>8, <1>12
    <2>2. CloseInv'
      <3>1. \A i \in 1 .. Len(replies) : ~replies'[i].close
        BY <1>12, <2>1 DEF HttpInv, CloseInv
      <3>2. state' = "Connected" => ~a.close
        BY <1>3, <1>5
      <3>3. \A i \in 1 .. Len(replies') : i \in 1 .. Len(replies) \/ i = Len(replies) + 1
        BY <1>7, <2>1
      <3>4. Len(replies') - 1 = Len(replies)
        BY <1>7, <2>1
      <3> QED BY <2>1, <3>1, <3>2, <3>3, <3>4 DEF CloseInv
    <2>3. ASSUME whole
          PROVE  Len(replies) < Len(sent) /\ InHand(sent[Len(replies) + 1])
      BY <1>4, <1>12, <2>3 DEF HttpInv, MessageInv
    <2>4. MessageInv'
      BY <1>4, <1>7, <2>1, <2>3 DEF MessageInv
    <2>5. RepliesMatch'
      <3> SUFFICES ASSUME whole, NEW i \in 1 .. Len(replies')
                   PROVE  /\ i <= Len(sent)
                          /\ replies'[i].code = Expected(sent[i]).code
                          /\ sent[i].connection # "none" => replies'[i] = Expected(sent[i])
        BY <1>4 DEF RepliesMatch, Expected
      <3>1. CASE i \in 1 .. Len(replies)
        BY <2>1, <3>1 DEF HttpInv, RepliesMatch
      <3>2. CASE i = Len(replies) + 1
        <4>1. PICK r \in Requests : r = sent[i]
          <5>1. i \in 1 .. Len(sent)
            BY <1>7, <2>3, <3>2
          <5> QED BY <1>7, <5>1, ElementOfSeq
        <4>2. InHand(r) /\ i <= Len(sent)
          BY <1>7, <2>3, <3>2, <4>1
        <4>3. /\ code = Expected(r).code
              /\ r.connection # "none" => close = Expected(r).close
          <5>1. checked \in Nat
            <6>1. checked \in 0 .. Len(buf)
              BY DEF HttpInv, HttpTypeOK
            <6> QED BY <6>1
          <5> QED BY <1>2, <1>4, <4>2, <5>1, AnswerIsExpected DEF HttpInv, HttpTypeOK, RequestSet
        <4>4. a.code = code /\ a.close = close /\ replies'[i] = a
          BY <1>5, <2>1, <3>2
        <4>5. Expected(r)
              = [code |-> Expected(r).code, close |-> Expected(r).close]
          BY DEF Expected
        <4> QED BY <1>5, <4>1, <4>2, <4>3, <4>4, <4>5
      <3> QED BY <1>7, <2>1, <3>1, <3>2
    <2> QED BY <1>9, <1>10, <2>2, <2>4, <2>5 DEF HttpInv
  <1> QED BY <1>11, <1>12

(* Every step of the client, of the parser and of onRequest keeps it all. *)
LEMMA HttpStepPreserves == HttpInv /\ [HttpNext]_httpVars => HttpInv'
  <1> SUFFICES ASSUME HttpInv, [HttpNext]_httpVars PROVE HttpInv'
    OBVIOUS
  <1>1. CASE UNCHANGED httpVars
    <2> USE <1>1 DEF httpVars, contextVars, historyVars
    <2>1. HttpTypeOK'
      BY DEF HttpInv, HttpTypeOK
    <2>2. CloseInv' /\ RestInv'
      BY DEF HttpInv, CloseInv, RestInv
    <2>3. MessageInv'
      BY DEF HttpInv, MessageInv, InHand
    <2>4. RepliesMatch'
      BY RepliesStay DEF HttpInv
    <2> QED BY <2>1, <2>2, <2>3, <2>4 DEF HttpInv
  <1>2. CASE getHeaderCrashes
    <2> USE <1>2 DEF getHeaderCrashes, contextVars, historyVars
    <2>1. HttpTypeOK'
      BY DEF HttpInv, HttpTypeOK
    <2>2. CloseInv' /\ RestInv' /\ MessageInv'
      BY DEF HttpInv, CloseInv, RestInv, MessageInv
    <2>3. RepliesMatch'
      BY RepliesStay DEF HttpInv
    <2> QED BY <2>1, <2>2, <2>3 DEF HttpInv
  <1>3. CASE HttpNext /\ ~getHeaderCrashes
    BY <1>3, SendPreserves, ReadPreserves, RequestLinePreserves, HeaderPreserves,
       HeaderEndPreserves, EndPreserves, RespondPreserves DEF HttpNext, ServerStep
  <1> QED BY <1>1, <1>2, <1>3

------------------------------------------------------------------------------
(* At every moment the parser is where it should be in the message in hand, *)
(* and every reply is the one to its request.                              *)
THEOREM HttpInvInductive == HttpSpec => []HttpInv
  <1> QED BY HttpInitEstablishes, HttpStepPreserves, PTL DEF HttpSpec

(* checkedIdx_ stays in readBuf_, and the parser in its states. *)
THEOREM HttpTypeCorrect == HttpSpec => []HttpTypeOK
  BY HttpInvInductive, PTL DEF HttpInv

(* However many requests a client sends, whatever they ask for and however *)
(* they arrive: while every message is one request, onRequest answers them *)
(* one by one as they are to be answered, and nothing follows a reply that *)
(* announced a close.                                                      *)
THEOREM HttpAnsweredInFull == HttpSpec => []AnsweredInFull
  <1>1. HttpInv => AnsweredInFull
    BY DEF HttpInv, RepliesMatch, CloseInv, AnsweredInFull
  <1> QED BY <1>1, HttpInvInductive, PTL

==============================================================================
