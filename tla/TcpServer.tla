------------------------------ MODULE TcpServer ------------------------------
(***************************************************************************)
(* The life of the connections of a TcpServer (src/src/TcpServer.cc): the  *)
(* Acceptor on the base loop, the EventLoopThreadPool that deals them out, *)
(* the map connections_, the TcpConnection objects and their Channels, and *)
(* the functors that the base loop and the io loops send each other.       *)
(*                                                                         *)
(* Every loop is its own thread.  It repeats: epoll_wait takes a snapshot  *)
(* of the ready channels; each is dispatched; the queue of functors is     *)
(* swapped out and run.  FunctorExecutor.tla is what EventLoop.tla shows   *)
(* such a loop to guarantee; here epoll_wait may return at any time.       *)
(*                                                                         *)
(* A TcpConnection lives as long as a shared_ptr to it does: in            *)
(* connections_, or in a functor, where the vector of doPendingFunctors    *)
(* keeps the functors already run until the whole batch is done.           *)
(*                                                                         *)
(* Abstracted: the bytes that are read and written (TcpConnection.tla). A  *)
(* message callback replies once and may shut down after it (HttpServer);  *)
(* the reply leaves at once or is kept for handleWrite, whose loop keeps   *)
(* the whole thread until the client has read enough.                      *)
(***************************************************************************)
EXTENDS Naturals, Sequences

CONSTANTS
    Conns,            \* the connections that clients may make, one fd each
    MaxThreads,       \* bound: the largest numThreads_ of the pool
    MaxWrites         \* bound: the write()s that handleWrite may need

ASSUME MaxThreadsAssumption == MaxThreads \in Nat
ASSUME MaxWritesAssumption == MaxWrites \in Nat \ {0}

VARIABLES
    lpc,              \* per loop: "poll", "handle" or "functors"
    active,           \* per loop: connections in activeChannels_ to dispatch
    acceptActive,     \* the base loop has the acceptor's channel to dispatch
    queue,            \* per loop: pendingFunctor_
    batch,            \* per loop: functors swapped out and not yet run
    held,             \* per loop: connections of the batch's functors run so far
    conn,             \* per connection: state_, the loop, the Channel
    sock,             \* per connection: the socket as the kernel sees it
    mapped,           \* connections_
    numThreads,       \* numThreads_ of the pool, set once, before start()
    next,             \* next_ of the pool
    backlog,          \* the listen queue
    listenReady,      \* the listening fd is on epoll's ready list
    dead              \* how the process has ended, or "no"

loopVars == <<lpc, active, acceptActive>>
workVars == <<queue, batch, held>>
acceptVars == <<numThreads, next, backlog, listenReady>>
vars == <<loopVars, workVars, conn, sock, mapped, acceptVars, dead>>

Base == 0
Loops == 0 .. MaxThreads

States == {"none", "Connecting", "Connected", "Disconnecting", "Disconnected"}

(* status, events: status_ and events_ of the Channel.  ep: epoll has the   *)
(* descriptor.  rcv: rcvEvents_, until it is dispatched.  buf: writeIdx_,   *)
(* as the number of write()s that handleWrite may still need.  writing: the *)
(* loop is inside handleWrite of this connection.                           *)
ConnType == [state : States, loop : Loops, status : {"New", "Added", "Deleted"},
             events : SUBSET {"in", "out"}, ep : BOOLEAN,
             rcv : SUBSET {"in", "out", "hup"}, buf : 0 .. MaxWrites, writing : BOOLEAN]

(* peer: what the client has done last.  data: bytes to read, while it is   *)
(* open.  full: no room in the send buffer, while it is not reset.  wrShut: *)
(* the server has shut its side.  ready: on epoll's ready list.             *)
SockType == [peer : {"absent", "open", "fin", "rst"}, data : BOOLEAN,
             full : BOOLEAN, wrShut : BOOLEAN, ready : BOOLEAN]

Functor == [op : {"established", "remove", "destroyed"}, c : Conns]

TypeOK ==
    /\ lpc \in [Loops -> {"poll", "handle", "functors"}]
    /\ active \in [Loops -> SUBSET Conns]
    /\ acceptActive \in BOOLEAN
    /\ queue \in [Loops -> Seq(Functor)]
    /\ batch \in [Loops -> Seq(Functor)]
    /\ held \in [Loops -> SUBSET Conns]
    /\ conn \in [Conns -> ConnType]
    /\ sock \in [Conns -> SockType]
    /\ mapped \in SUBSET Conns
    /\ numThreads \in 0 .. MaxThreads
    /\ next \in 0 .. numThreads /\ (next = 0 \/ next < numThreads)
    /\ backlog \in Seq(Conns)
    /\ listenReady \in BOOLEAN
    /\ dead \in {"no", "close", "assert", "sigpipe"}

NoConn == [state |-> "none", loop |-> Base, status |-> "New",
           events |-> {}, ep |-> FALSE, rcv |-> {}, buf |-> 0, writing |-> FALSE]

NoSock == [peer |-> "absent", data |-> FALSE, full |-> FALSE, wrShut |-> FALSE,
           ready |-> FALSE]

Init ==
    /\ lpc = [l \in Loops |-> "poll"]
    /\ active = [l \in Loops |-> {}]
    /\ acceptActive = FALSE
    /\ queue = [l \in Loops |-> <<>>]
    /\ batch = [l \in Loops |-> <<>>]
    /\ held = [l \in Loops |-> {}]
    /\ conn = [c \in Conns |-> NoConn]
    /\ sock = [c \in Conns |-> NoSock]
    /\ mapped = {}
    /\ numThreads \in 0 .. MaxThreads
    /\ next = 0
    /\ backlog = <<>>
    /\ listenReady = FALSE
    /\ dead = "no"

------------------------------------------------------------------------------
(* Who refers to a connection *)

Elements(s) == {s[i] : i \in DOMAIN s}

InFunctor(l, c) == \E f \in Elements(queue[l]) \cup Elements(batch[l]) : f.c = c

(* A handler that runs is kept by the guard of Channel::handleEvent. *)
Referenced(c) ==
    \/ c \in mapped
    \/ conn[c].writing
    \/ \E l \in Loops : InFunctor(l, c) \/ c \in held[l]

Created(c) == conn[c].state # "none"

(* The last shared_ptr is gone: ~TcpConnection and ~Channel have run. *)
Deleted(c) == Created(c) /\ ~Referenced(c)

------------------------------------------------------------------------------
(* The kernel's view of a socket *)

Reset(s) == s.peer = "rst"
Hup(s)   == Reset(s) \/ (s.peer = "fin" /\ s.wrShut)
In(s)    == s.data \/ s.peer # "open"
Out(s)   == ~s.full

(* What epoll has to report of a socket with Channel k: a hangup always. *)
EpollEvents(k, s) ==
    (IF Hup(s) THEN {"hup"} ELSE {}) \cup
    (IF In(s) THEN {"in"} \cap k.events ELSE {}) \cup
    (IF Out(s) THEN {"out"} \cap k.events ELSE {})

Connect(c) ==
    /\ sock[c].peer = "absent"
    /\ sock' = [sock EXCEPT ![c].peer = "open"]
    /\ backlog' = Append(backlog, c)
    /\ listenReady' = TRUE
    /\ UNCHANGED <<loopVars, workVars, conn, mapped, numThreads, next, dead>>

(* Any change of the socket is an edge for whoever watches it.  What the    *)
(* client does to a connection that nobody looks at any more is left out.   *)
PeerChange(c, s) ==
    /\ conn[c].state # "Disconnected" \/ conn[c].writing
    /\ sock' = [sock EXCEPT ![c] = [s EXCEPT !.ready = @ \/ conn[c].ep]]
    /\ UNCHANGED <<loopVars, workVars, conn, mapped, acceptVars, dead>>

PeerSend(c) ==
    /\ sock[c].peer = "open"
    /\ PeerChange(c, [sock[c] EXCEPT !.data = TRUE])

PeerFin(c) ==
    /\ sock[c].peer = "open"
    /\ PeerChange(c, [sock[c] EXCEPT !.peer = "fin", !.data = FALSE])

PeerReset(c) ==
    /\ sock[c].peer \in {"open", "fin"}
    /\ PeerChange(c, [sock[c] EXCEPT !.peer = "rst", !.data = FALSE, !.full = FALSE])

PeerReads(c) ==
    /\ sock[c].peer \in {"open", "fin"}
    /\ sock[c].full
    /\ PeerChange(c, [sock[c] EXCEPT !.full = FALSE])

------------------------------------------------------------------------------
(* The loop of each thread *)

(* epoll_wait and fillActiveChannel.  Edge-triggered: what is reported, or  *)
(* found not to be ready any more, leaves the ready list.                   *)
Poll(l) ==
    LET mine == {c \in Conns : conn[c].ep /\ conn[c].loop = l}
        now == {c \in mine : sock[c].ready /\ EpollEvents(conn[c], sock[c]) # {}}
    IN  /\ lpc[l] = "poll"
        /\ lpc' = [lpc EXCEPT ![l] = "handle"]
        /\ active' = [active EXCEPT ![l] = now]
        /\ sock' = [c \in Conns |-> IF c \in mine THEN [sock[c] EXCEPT !.ready = FALSE]
                                                  ELSE sock[c]]
        /\ conn' = [c \in Conns |-> IF c \in now
                                    THEN [conn[c] EXCEPT !.rcv = EpollEvents(conn[c], sock[c])]
                                    ELSE conn[c]]
        /\ IF l = Base
           THEN /\ acceptActive' = (listenReady /\ backlog # <<>>)
                /\ listenReady' = FALSE
           ELSE UNCHANGED <<acceptActive, listenReady>>
        /\ UNCHANGED <<workVars, mapped, numThreads, next, backlog, dead>>

(* The thread is inside handleWrite of a connection. *)
Busy(l) == \E c \in Conns : conn[c].loop = l /\ conn[c].writing

Dispatched(l) == active[l] = {} /\ (l = Base => ~acceptActive) /\ ~Busy(l)

SwapPending(l) ==
    /\ lpc[l] = "handle"
    /\ Dispatched(l)
    /\ lpc' = [lpc EXCEPT ![l] = "functors"]
    /\ batch' = [batch EXCEPT ![l] = queue[l]]
    /\ queue' = [queue EXCEPT ![l] = <<>>]
    /\ UNCHANGED <<active, acceptActive, held, conn, sock, mapped, acceptVars, dead>>

BatchDone(l) ==
    /\ lpc[l] = "functors"
    /\ batch[l] = <<>>
    /\ lpc' = [lpc EXCEPT ![l] = "poll"]
    /\ held' = [held EXCEPT ![l] = {}]
    /\ UNCHANGED <<active, acceptActive, queue, batch, conn, sock, mapped, acceptVars, dead>>

queueInLoop(l, op, c) ==
    queue' = [queue EXCEPT ![l] = Append(@, [op |-> op, c |-> c])]

------------------------------------------------------------------------------
(* Accepting, on the base loop *)

(* Mutant: next_ moves past the last loop. *)
NextNext_NoModulo == IF numThreads = 0 THEN next ELSE next + 1

(* getNextLoop: the loop, and the new value of next_. *)
NextLoop == IF numThreads = 0 THEN Base ELSE next + 1
NextNext == IF numThreads = 0 THEN next ELSE (next + 1) % numThreads

(* Mutant: the state is left as it was. *)
Established_StaysConnecting(k) ==
    [k EXCEPT !.events = {"in"}, !.status = "Added", !.ep = TRUE]

(* connectionEstablished: Connected, and the Channel is added to epoll,     *)
(* which reports at once what is already there.                             *)
Established(k) == [k EXCEPT !.state = "Connected", !.events = {"in"},
                            !.status = "Added", !.ep = TRUE]
Registered(s) == [s EXCEPT !.ready = In(s) \/ Hup(s)]

(* newConnection: the next loop gets the connection, through runInLoop, so  *)
(* that it is established at once when that is the base loop.               *)
newConnection(c) ==
    LET k == [NoConn EXCEPT !.state = "Connecting", !.loop = NextLoop]
    IN  /\ next' = NextNext
        /\ mapped' = mapped \cup {c}
        /\ IF NextLoop = Base
           THEN /\ conn' = [conn EXCEPT ![c] = Established(k)]
                /\ sock' = [sock EXCEPT ![c] = Registered(@)]
                /\ UNCHANGED queue
           ELSE /\ conn' = [conn EXCEPT ![c] = k]
                /\ queueInLoop(NextLoop, "established", c)
                /\ UNCHANGED sock

(* Acceptor::handleRead accepts one connection for each event. *)
Accept ==
    /\ lpc[Base] = "handle"
    /\ acceptActive /\ ~Busy(Base)
    /\ acceptActive' = FALSE
    /\ newConnection(Head(backlog))
    /\ backlog' = Tail(backlog)
    /\ UNCHANGED <<lpc, active, batch, held, numThreads, listenReady, dead>>

------------------------------------------------------------------------------
(* Dispatching a connection's events, on its loop: EPOLLHUP, EPOLLIN, then  *)
(* EPOLLOUT                                                                 *)

Dispatch(l, c) ==
    /\ lpc[l] = "handle"
    /\ c \in active[l] /\ ~Busy(l)
    /\ active' = [active EXCEPT ![l] = @ \ {c}]
    /\ UNCHANGED <<lpc, acceptActive, batch, held, acceptVars>>

(* Mutant: disableAll is forgotten. *)
Disabled_KeepsInterest(k) == [k EXCEPT !.state = "Disconnected", !.rcv = {}]

(* disableAll: no interest is left, so the descriptor leaves epoll. *)
Disabled(k) == [k EXCEPT !.state = "Disconnected", !.events = {},
                         !.status = "Deleted", !.ep = FALSE, !.rcv = {}]

(* handleClose, and closeCB_ down to removeConnection, which on the base    *)
(* loop erases at once.                                                     *)
handleClose(l, c) ==
    /\ conn[c].state \in {"Connected", "Connecting"}
    /\ conn' = [conn EXCEPT ![c] = Disabled(@)]
    /\ IF l = Base
       THEN /\ mapped' = mapped \ {c}
            /\ queueInLoop(conn[c].loop, "destroyed", c)
            /\ dead' = IF c \in mapped THEN dead ELSE "assert"
       ELSE /\ queueInLoop(Base, "remove", c)
            /\ UNCHANGED <<mapped, dead>>

(* Its assertion fails: the server has shut the connection down, or closed  *)
(* it already.                                                              *)
CloseAborts(c) ==
    /\ conn[c].state \notin {"Connected", "Connecting"}
    /\ dead' = "close"

(* The EPOLLIN that comes with a hangup ends in handleError or at the end   *)
(* of the file, without a message.                                          *)
DispatchHup(l, c) ==
    /\ Dispatch(l, c)
    /\ "hup" \in conn[c].rcv
    /\ \/ /\ handleClose(l, c)
          /\ sock' = [sock EXCEPT ![c].ready = FALSE]
       \/ /\ CloseAborts(c)
          /\ UNCHANGED <<queue, conn, sock, mapped>>

(* sendInLoop: all of the reply leaves; or the socket takes a part of it or *)
(* nothing, and the rest waits for EPOLLOUT; or that is waited for already. *)
Answered(k, s) ==
    {[conn |-> k, sock |-> [s EXCEPT !.full = b]] :
        b \in {b \in BOOLEAN : "out" \notin k.events /\ ~s.full}}
    \cup
    {[conn |-> [k EXCEPT !.events = @ \cup {"out"}, !.buf = n],
      sock |-> [s EXCEPT !.full = @ \/ "out" \notin k.events]] :
        n \in {n \in 1 .. MaxWrites : n >= k.buf}}

shutdownInLoop(k, s) == [s EXCEPT !.wrShut = @ \/ "out" \notin k.events]

(* shutdown(), after the reply. *)
ShutDown(r) ==
    [conn |-> [r.conn EXCEPT !.state = "Disconnecting"],
     sock |-> shutdownInLoop(r.conn, r.sock)]

(* send() and shutdown() do nothing unless Connected. *)
Replied(k, s) ==
    IF k.state = "Connected"
    THEN UNION {{r, ShutDown(r)} : r \in Answered(k, s)}
    ELSE {[conn |-> k, sock |-> s]}

(* EPOLL_CTL_MOD reports what is already there. *)
Rearmed(k, s) == [s EXCEPT !.ready = @ \/ EpollEvents(k, s) # {}]

(* The rest of the events: handleWrite is entered if there is interest.     *)
Continued(k) == [k EXCEPT !.writing = "out" \in k.rcv \cap k.events, !.rcv = {}]

(* handleRead up to EAGAIN, and messageCB_. *)
handleMessage(l, c) ==
    /\ Dispatch(l, c)
    /\ "hup" \notin conn[c].rcv /\ "in" \in conn[c].rcv
    /\ sock[c].peer = "open"
    /\ \E r \in Replied(conn[c], [sock[c] EXCEPT !.data = FALSE]) :
          /\ conn' = [conn EXCEPT ![c] = Continued(r.conn)]
          /\ sock' = [sock EXCEPT ![c] = Rearmed(r.conn, r.sock)]
    /\ UNCHANGED <<queue, mapped, dead>>

(* handleRead that returns early, at the client's FIN or RST or with         *)
(* readBuf_ full: what it has read before is not delivered, and nothing is   *)
(* closed.  Or there is no EPOLLIN at all.                                   *)
handleReadEnd(l, c) ==
    /\ Dispatch(l, c)
    /\ "hup" \notin conn[c].rcv
    /\ conn' = [conn EXCEPT ![c] = Continued(@)]
    /\ UNCHANGED <<queue, sock, mapped, dead>>

------------------------------------------------------------------------------
(* handleWrite: one write() of its loop for each step.  When the socket is  *)
(* full, EAGAIN makes the loop continue: that iteration changes nothing, so *)
(* it is no step, and the thread does nothing else (Spinning).              *)

Writing(l, c) ==
    /\ lpc[l] = "handle"
    /\ conn[c].loop = l /\ conn[c].writing
    /\ UNCHANGED <<loopVars, batch, held, acceptVars>>

(* What is counted as all of writeBuf_ is sent.  disableWrite keeps the     *)
(* interest it should drop and drops the other.                             *)
Flushed(k) == [k EXCEPT !.events = @ \cap {"out"}, !.buf = 0, !.writing = FALSE]

WriteSome(l, c) ==
    LET k == conn[c]
        s == sock[c]
    IN  /\ Writing(l, c)
        /\ ~Reset(s) /\ ~s.full
        /\ \/ /\ k.buf > 1
              /\ conn' = [conn EXCEPT ![c].buf = @ - 1]
              /\ sock' = [sock EXCEPT ![c].full = TRUE]
           \/ \E b \in BOOLEAN :
                LET left == [s EXCEPT !.full = b]
                    shut == IF k.state = "Disconnecting"
                            THEN shutdownInLoop(Flushed(k), left) ELSE left
                IN  /\ k.buf > 0
                    /\ conn' = [conn EXCEPT ![c] = Flushed(@)]
                    /\ sock' = [sock EXCEPT ![c] = Rearmed(Flushed(k), shut)]
        /\ UNCHANGED <<queue, mapped, dead>>

(* With writeIdx_ = 0 the write() of no byte returns 0, which is taken for  *)
(* a closed connection; the loop goes on.                                   *)
WriteNothing(l, c) ==
    /\ Writing(l, c)
    /\ ~Reset(sock[c]) /\ conn[c].buf = 0
    /\ \/ /\ handleClose(l, c)
          /\ sock' = [sock EXCEPT ![c].ready = FALSE]
       \/ /\ CloseAborts(c)
          /\ UNCHANGED <<queue, conn, sock, mapped>>

(* A write() that fails ends the handler.  With EPIPE comes SIGPIPE, which  *)
(* nobody ignores: when the client had closed before it reset, or when       *)
(* handleRead has taken the ECONNRESET.                                      *)
WriteFails(l, c) ==
    /\ Writing(l, c)
    /\ Reset(sock[c])
    /\ conn' = [conn EXCEPT ![c].writing = FALSE]
    /\ dead' \in {dead, "sigpipe"}
    /\ UNCHANGED <<queue, sock, mapped>>

------------------------------------------------------------------------------
(* Running a functor *)

Run(l, op, c) ==
    /\ lpc[l] = "functors"
    /\ batch[l] # <<>>
    /\ Head(batch[l]) = [op |-> op, c |-> c]
    /\ batch' = [batch EXCEPT ![l] = Tail(@)]
    /\ held' = [held EXCEPT ![l] = @ \cup {c}]
    /\ UNCHANGED <<loopVars, acceptVars>>

connectionEstablished(l, c) ==
    /\ Run(l, "established", c)
    /\ conn' = [conn EXCEPT ![c] = Established(@)]
    /\ sock' = [sock EXCEPT ![c] = Registered(@)]
    /\ dead' = IF conn[c].state = "Connecting" /\ conn[c].status = "New"
               THEN dead ELSE "assert"
    /\ UNCHANGED <<queue, mapped>>

(* Mutant: the connection is not sent to its loop to be destroyed. *)
removeConnectionInLoop_NotDestroyed(l, c) ==
    /\ Run(l, "remove", c)
    /\ mapped' = mapped \ {c}
    /\ dead' = IF c \in mapped THEN dead ELSE "assert"
    /\ UNCHANGED <<queue, conn, sock>>

removeConnectionInLoop(l, c) ==
    /\ Run(l, "remove", c)
    /\ mapped' = mapped \ {c}
    /\ queueInLoop(conn[c].loop, "destroyed", c)
    /\ dead' = IF c \in mapped THEN dead ELSE "assert"
    /\ UNCHANGED <<conn, sock>>

(* A connection still Connected is disabled first; then the Channel leaves  *)
(* the poller's map.                                                        *)
connectionDestroyed(l, c) ==
    LET k == IF conn[c].state = "Connected" THEN Disabled(conn[c]) ELSE conn[c]
    IN  /\ Run(l, "destroyed", c)
        /\ conn' = [conn EXCEPT ![c] = [k EXCEPT !.status = "New", !.ep = FALSE]]
        /\ dead' = IF k.events = {} /\ k.status # "New" THEN dead ELSE "assert"
        /\ UNCHANGED <<queue, sock, mapped>>

------------------------------------------------------------------------------
LoopStep(l) ==
    /\ l <= numThreads
    /\ \/ Poll(l)
       \/ SwapPending(l)
       \/ BatchDone(l)
       \/ l = Base /\ Accept
       \/ \E c \in Conns :
             \/ DispatchHup(l, c)
             \/ handleMessage(l, c)
             \/ handleReadEnd(l, c)
             \/ WriteSome(l, c)
             \/ WriteNothing(l, c)
             \/ WriteFails(l, c)
             \/ connectionEstablished(l, c)
             \/ removeConnectionInLoop(l, c)
             \/ connectionDestroyed(l, c)

Client(c) == Connect(c) \/ PeerSend(c) \/ PeerFin(c) \/ PeerReset(c) \/ PeerReads(c)

Next ==
    /\ dead = "no"
    /\ \/ \E l \in Loops : LoopStep(l)
       \/ \E c \in Conns : Client(c)

Spec == Init /\ [][Next]_vars

(* Every loop thread keeps running, its epoll_wait returning at the latest  *)
(* after CPollTimeMs.  Inside handleWrite that may mean to try the same     *)
(* write() for ever, which is no step: clients need not do anything.        *)
FairSpec == Spec /\ \A l \in Loops : WF_vars(dead = "no" /\ LoopStep(l))

Spinning(l) ==
    \E c \in Conns : /\ conn[c].loop = l /\ conn[c].writing
                     /\ conn[c].buf > 0 /\ sock[c].full

------------------------------------------------------------------------------
(* Properties *)

(* Once the last shared_ptr to a connection is gone, nothing points to its   *)
(* Channel any more: not the poller's map, not the kernel's event data, not  *)
(* a batch of active channels; and ~TcpConnection finds it Disconnected      *)
(* (TcpConnection.cc:25, Channel.cc:26).                                     *)
DeletedCleanly ==
    \A c \in Conns : Deleted(c) =>
        /\ conn[c].state = "Disconnected"
        /\ conn[c].status = "New" /\ ~conn[c].ep
        /\ \A l \in Loops : c \notin active[l]

(* The functors of a connection's teardown come one after the other, each    *)
(* in its place: a connection to be removed is closed and still in           *)
(* connections_, one to be destroyed is closed and no longer in it           *)
(* (TcpServer.cc:70-84).                                                     *)
Waiting(op, c) ==
    \E l \in Loops : [op |-> op, c |-> c] \in Elements(queue[l]) \cup Elements(batch[l])

TeardownInOrder ==
    \A c \in Conns :
        /\ Waiting("established", c) => c \in mapped /\ conn[c].state = "Connecting"
        /\ Waiting("remove", c) => c \in mapped /\ conn[c].state = "Disconnected"
        /\ Waiting("destroyed", c) => c \notin mapped /\ conn[c].state = "Disconnected"

TornDownCleanly == DeletedCleanly /\ TeardownInOrder

(* No other assertion fails on the way: Connecting when established, in     *)
(* connections_ exactly once when removed, without interest and known to the *)
(* poller when destroyed (TcpConnection.cc:96, TcpServer.cc:81,              *)
(* Channel.cc:38, EpollPoller.cc:86-90) - whatever the server shuts down and *)
(* whatever handleWrite closes.                                              *)
AssertsHold == dead # "assert"

(* What the assertion of handleClose says: a connection is closed only when  *)
(* it is open, and once (TcpConnection.cc:196).                              *)
ClosedOnlyWhenOpen == dead # "close"

(* Each connection goes through its life in order, and one whose client has  *)
(* reset it reaches the end of it - unless the process ends, or its loop or  *)
(* the base loop stays in handleWrite for a client that does not read.       *)
Stage(c) ==
    IF ~Created(c) THEN "absent"
    ELSE IF Deleted(c) THEN "released"
    ELSE IF conn[c].state = "Disconnected" THEN "closed"
    ELSE IF conn[c].state = "Connecting" THEN "accepted"
    ELSE "serving"

Lifecycle == INSTANCE ConnectionLifecycle WITH
                 stage <- [c \in Conns |-> Stage(c)],
                 gone <- {c \in Conns : Reset(sock[c])},
                 stalled <- {c \in Conns : \/ dead # "no"
                                           \/ Spinning(Base)
                                           \/ Spinning(conn[c].loop)}

IsLifecycle == Lifecycle!Spec
==============================================================================
