---------------------------- MODULE TcpConnection ----------------------------
(***************************************************************************)
(* One TcpConnection (src/src/TcpConnection.cc) on its loop's thread, with *)
(* the socket under it, the epoll registration of its Channel and a client *)
(* that sends requests, reads replies slowly, closes or resets.            *)
(*                                                                         *)
(* pc is where the thread is: "idle" outside this connection, "events" in  *)
(* Channel::handleEventWithGuard with rcv still to be dispatched,          *)
(* "message" in messageCB_ (HttpServer::onMessage, which replies once),    *)
(* "writing" inside the loop of handleWrite.  The client acts between any  *)
(* two of these.                                                           *)
(*                                                                         *)
(* A reply is a sequence of bytes, all different but for NUL; the socket   *)
(* buffer holds SndCap bytes and readBuf_ holds ReadCap chunks of requests.*)
(***************************************************************************)
EXTENDS Integers, Sequences, SequencesExt

CONSTANTS
    Replies,          \* what the message callback may send
    MaxRequests,      \* bound: chunks the client sends
    SndCap,           \* the socket's send buffer, in bytes
    ReadCap           \* READ_BUFFER_SIZE, in chunks

ASSUME CapAssumption == SndCap \in Nat \ {0} /\ ReadCap \in Nat \ {0}
ASSUME BoundAssumption == MaxRequests \in Nat
ASSUME RepliesAssumption == \A r \in Replies : r \in Seq(Nat)

NUL == 0              \* the byte that ends a C string
Garbage == 99         \* a byte that no reply holds: memory never written

VARIABLES
    state,            \* state_
    inEv, outEv,      \* CReadEvent and CWriteEvent in events_ of the Channel
    ep,               \* epoll has the descriptor (status_ is CAdded)
    rcv,              \* rcvEvents_ not yet dispatched
    pc,
    readIdx,          \* readIdx_, in chunks
    wbuf,             \* writeBuf_ up to writeIdx_
    toSend, haveSent, \* bytes_to_send and bytes_have_send of handleWrite
    inq,              \* chunks in the socket's receive queue
    unsent,           \* bytes in the socket's send buffer
    wrShut,           \* SHUT_WR was done
    peer,             \* what the client did last
    ready,            \* the descriptor is on epoll's ready list
    requests,         \* history: chunks the client has sent
    sent,             \* history: bytes that write() accepted
    replies,          \* history: the replies that send() accepted
    dead              \* the process was ended by an assertion or SIGPIPE

channelVars == <<inEv, outEv, ep>>
sendVars == <<wbuf, unsent, sent, replies>>
loopVars == <<toSend, haveSent>>
clientVars == <<peer, requests>>
vars == <<state, channelVars, rcv, pc, readIdx, sendVars, loopVars, inq,
          wrShut, clientVars, ready, dead>>

Bytes == (UNION {Range(r) : r \in Replies}) \cup {NUL, Garbage}

TypeOK ==
    /\ state \in {"Connecting", "Connected", "Disconnecting", "Disconnected"}
    /\ inEv \in BOOLEAN /\ outEv \in BOOLEAN /\ ep \in BOOLEAN
    /\ wrShut \in BOOLEAN /\ ready \in BOOLEAN
    /\ rcv \in SUBSET {"hup", "in", "out"}
    /\ pc \in {"idle", "events", "message", "writing"}
    /\ readIdx \in 0 .. ReadCap
    /\ wbuf \in Seq(Bytes)
    /\ toSend \in Int /\ haveSent \in Nat
    /\ inq \in 0 .. MaxRequests /\ requests \in 0 .. MaxRequests
    /\ unsent \in 0 .. SndCap
    /\ peer \in {"open", "fin", "rst", "finrst"}
    /\ sent \in Seq(Bytes)
    /\ replies \in Seq(Replies)
    /\ dead \in {"no", "assert", "sigpipe"}

Init ==
    /\ state = "Connecting"
    /\ inEv = FALSE /\ outEv = FALSE /\ ep = FALSE
    /\ rcv = {} /\ pc = "idle"
    /\ readIdx = 0 /\ wbuf = <<>> /\ toSend = 0 /\ haveSent = 0
    /\ inq = 0 /\ unsent = 0 /\ wrShut = FALSE /\ peer = "open"
    /\ ready = FALSE
    /\ requests = 0 /\ sent = <<>> /\ replies = <<>>
    /\ dead = "no"

------------------------------------------------------------------------------
(* Kernel: what epoll reports for the descriptor, and when it is put on the *)
(* ready list.  HUP is reported whatever the interest is.                   *)

Reset == peer \in {"rst", "finrst"}

Reported ==
    (IF Reset \/ (wrShut /\ peer = "fin") THEN {"hup"} ELSE {}) \cup
    (IF inEv /\ (inq > 0 \/ peer # "open") THEN {"in"} ELSE {}) \cup
    (IF outEv /\ (unsent < SndCap \/ Reset) THEN {"out"} ELSE {})

(* EPOLL_CTL_ADD and EPOLL_CTL_MOD report what is already there. *)
Rearm == Reported' # {}

------------------------------------------------------------------------------
(* The client *)

ClientSends ==
    /\ peer = "open"
    /\ requests < MaxRequests
    /\ requests' = requests + 1
    /\ inq' = inq + 1
    /\ ready' = (ready \/ (ep /\ inEv))
    /\ UNCHANGED <<state, channelVars, rcv, pc, readIdx, sendVars, loopVars,
                   wrShut, peer, dead>>

ClientReads(n) ==
    /\ n <= unsent
    /\ ~Reset
    /\ unsent' = unsent - n
    /\ ready' = (ready \/ (ep /\ outEv /\ unsent = SndCap))
    /\ UNCHANGED <<state, channelVars, rcv, pc, readIdx, wbuf, sent, replies,
                   loopVars, inq, wrShut, clientVars, dead>>

ClientCloses ==
    /\ peer = "open"
    /\ peer' = "fin"
    /\ ready' = (ready \/ ep)
    /\ UNCHANGED <<state, channelVars, rcv, pc, readIdx, sendVars, loopVars,
                   inq, wrShut, requests, dead>>

ClientResets ==
    /\ ~Reset
    /\ peer' = IF peer = "open" THEN "rst" ELSE "finrst"
    /\ ready' = (ready \/ ep)
    /\ UNCHANGED <<state, channelVars, rcv, pc, readIdx, sendVars, loopVars,
                   inq, wrShut, requests, dead>>

------------------------------------------------------------------------------
(* The loop's thread: establishing, polling, dispatching in the order of    *)
(* Channel::handleEventWithGuard                                            *)

connectionEstablished ==
    /\ state = "Connecting"
    /\ state' = "Connected"
    /\ inEv' = TRUE
    /\ ep' = TRUE
    /\ UNCHANGED <<outEv, rcv, pc, readIdx, sendVars, loopVars, inq, wrShut,
                   clientVars, dead>>
    /\ ready' = Rearm

Poll ==
    /\ pc = "idle"
    /\ ep /\ ready
    /\ ready' = FALSE
    /\ rcv' = Reported
    /\ pc' = IF Reported = {} THEN "idle" ELSE "events"
    /\ UNCHANGED <<state, channelVars, readIdx, sendVars, loopVars, inq,
                   wrShut, clientVars, dead>>

EventsDone ==
    /\ pc = "events"
    /\ rcv = {}
    /\ pc' = "idle"
    /\ UNCHANGED <<state, channelVars, rcv, readIdx, sendVars, loopVars, inq,
                   wrShut, clientVars, ready, dead>>

(* handleClose, its assertion and disableAll *)
handleClose ==
    /\ dead' = IF state \in {"Connected", "Connecting"} THEN "no" ELSE "assert"
    /\ state' = "Disconnected"
    /\ inEv' = FALSE /\ outEv' = FALSE /\ ep' = FALSE
    /\ ready' = FALSE

DispatchHup ==
    /\ pc = "events"
    /\ "hup" \in rcv
    /\ rcv' = rcv \ {"hup"}
    /\ handleClose
    /\ UNCHANGED <<pc, readIdx, sendVars, loopVars, inq, wrShut, clientVars>>

DispatchIn ==
    /\ pc = "events"
    /\ "in" \in rcv /\ "hup" \notin rcv
    /\ rcv' = rcv \ {"in"}

(* Mutant: one read() per event, although the channel is edge-triggered. *)
ReadMessage_Once ==
    /\ DispatchIn
    /\ peer = "open"
    /\ readIdx + 1 < ReadCap
    /\ readIdx' = readIdx + 1
    /\ inq' = inq - 1
    /\ pc' = "message"
    /\ UNCHANGED <<state, channelVars, sendVars, loopVars, wrShut, clientVars,
                   ready, dead>>

(* handleRead: all there is, up to EAGAIN, fits in readBuf_ with room left. *)
ReadMessage ==
    /\ DispatchIn
    /\ peer = "open"
    /\ readIdx + inq < ReadCap
    /\ readIdx' = readIdx + inq
    /\ inq' = 0
    /\ pc' = "message"
    /\ UNCHANGED <<state, channelVars, sendVars, loopVars, wrShut, clientVars,
                   ready, dead>>

(* Mutant: read() is not limited to what is left of readBuf_. *)
ReadReturns_NoLimit ==
    /\ DispatchIn
    /\ peer # "open" \/ readIdx + inq >= ReadCap
    /\ readIdx' = readIdx + inq
    /\ inq' = 0
    /\ UNCHANGED <<state, channelVars, pc, sendVars, loopVars, wrShut,
                   clientVars, ready, dead>>

(* handleRead meets end of file, an error, or a full readBuf_, for which    *)
(* read() is asked for no byte and returns 0: it returns without a message. *)
ReadReturns ==
    LET taken == IF inq <= ReadCap - readIdx THEN inq ELSE ReadCap - readIdx
    IN  /\ DispatchIn
        /\ peer # "open" \/ readIdx + inq >= ReadCap
        /\ readIdx' = readIdx + taken
        /\ inq' = inq - taken
        /\ UNCHANGED <<state, channelVars, pc, sendVars, loopVars, wrShut,
                       clientVars, ready, dead>>

------------------------------------------------------------------------------
(* send() and shutdown(), from the message callback *)

(* strcpy into writeBuf_: nothing after the first NUL is copied, although   *)
(* writeIdx_ moves over all of it.                                          *)
StrCopy(s) == [i \in DOMAIN s |-> IF \E j \in 1 .. i - 1 : s[j] = NUL
                                  THEN Garbage ELSE s[i]]

(* What sendInLoop(r) buffers after a write() that returned n: what is left *)
(* from buf + n on, n = -1 included, where the byte before buf is anything. *)
Buffered(r, n) ==
    IF n >= 0 THEN {StrCopy(SubSeq(r, n + 1, Len(r)))}
              ELSE {StrCopy(<<before>> \o r) : before \in {NUL, Garbage}}

(* Mutant: no write interest for what is kept. *)
Buffer_NoEnable(r, n) ==
    /\ \E b \in Buffered(r, n) : wbuf' = wbuf \o b
    /\ UNCHANGED outEv

(* enableWrite, a no-op for the interest of a Channel that writes already. *)
Buffer(r, n) ==
    /\ \E b \in Buffered(r, n) : wbuf' = wbuf \o b
    /\ outEv' = TRUE

(* The write fails for good: nothing is buffered, nothing is closed. *)
SendFails(r) ==
    /\ ~outEv
    /\ Reset
    /\ dead' = IF peer = "finrst" THEN "sigpipe" ELSE dead
    /\ UNCHANGED <<outEv, wbuf, unsent, sent>>

(* The socket is full: write() returns -1 with EAGAIN. *)
SendAgain(r) ==
    /\ ~outEv
    /\ ~Reset /\ unsent = SndCap
    /\ Buffer(r, -1)
    /\ UNCHANGED <<unsent, sent, dead>>

(* The socket takes the first n bytes; it is not tried while writing.       *)
SendWrites(r) ==
    LET room == SndCap - unsent
        n == IF outEv THEN 0 ELSE IF Len(r) <= room THEN Len(r) ELSE room
    IN  /\ outEv \/ (~Reset /\ room > 0)
        /\ sent' = sent \o SubSeq(r, 1, n)
        /\ unsent' = unsent + n
        /\ IF n < Len(r) THEN Buffer(r, n) ELSE UNCHANGED <<wbuf, outEv>>
        /\ UNCHANGED dead

sendInLoop(r) ==
    /\ SendFails(r) \/ SendAgain(r) \/ SendWrites(r)
    /\ readIdx' = 0

(* Mutant: the socket is shut although output is buffered. *)
shutdownInLoop_Always == wrShut' = TRUE

shutdownInLoop == wrShut' = (wrShut \/ ~outEv')

(* onMessage replies once, and shuts down after a reply that says so.       *)
Reply(r, close) ==
    /\ pc = "message"
    /\ state = "Connected"
    /\ pc' = "events"
    /\ replies' = Append(replies, r)
    /\ sendInLoop(r)
    /\ state' = IF close THEN "Disconnecting" ELSE state
    /\ IF close THEN shutdownInLoop ELSE UNCHANGED wrShut
    /\ UNCHANGED <<inEv, ep, rcv, loopVars, inq, clientVars>>
    /\ ready' = \/ ready
                \/ outEv' # outEv /\ Rearm
                \/ wrShut' # wrShut

(* Neither send() nor shutdown() does anything unless Connected.            *)
ReplyIgnored ==
    /\ pc = "message"
    /\ state # "Connected"
    /\ pc' = "events"
    /\ UNCHANGED <<state, channelVars, rcv, readIdx, sendVars, loopVars, inq,
                   wrShut, clientVars, ready, dead>>

------------------------------------------------------------------------------
(* handleWrite *)

DispatchOut ==
    /\ pc = "events"
    /\ rcv = {"out"}
    /\ rcv' = {}
    /\ IF outEv
       THEN pc' = "writing" /\ toSend' = Len(wbuf) /\ haveSent' = 0
       ELSE UNCHANGED <<pc, loopVars>>
    /\ UNCHANGED <<state, channelVars, readIdx, sendVars, inq, wrShut,
                   clientVars, ready, dead>>

(* disableWrite: events_ &= CWriteEvent keeps the interest it should drop   *)
(* and drops all others.                                                    *)
disableWrite == inEv' = FALSE /\ UNCHANGED <<outEv, ep>>

(* One write() of the loop, always from the start of writeBuf_.  When the   *)
(* socket is full, EAGAIN makes the loop continue: that iteration changes   *)
(* nothing, so it is no step.                                               *)
WriteSome ==
    LET room == SndCap - unsent
        n == IF Len(wbuf) <= room THEN Len(wbuf) ELSE room
    IN  /\ pc = "writing"
        /\ ~Reset
        /\ n > 0
        /\ sent' = sent \o SubSeq(wbuf, 1, n)
        /\ unsent' = unsent + n
        /\ toSend' = toSend - n
        /\ haveSent' = haveSent + n
        /\ IF toSend' <= haveSent'
           THEN /\ disableWrite
                /\ IF state = "Disconnecting" THEN shutdownInLoop ELSE UNCHANGED wrShut
                /\ wbuf' = <<>>
                /\ pc' = "events"
           ELSE UNCHANGED <<channelVars, wrShut, wbuf, pc>>
        /\ UNCHANGED <<state, rcv, readIdx, inq, clientVars, replies, dead>>
        /\ ready' = \/ ready
                    \/ pc' = "events" /\ Rearm
                    \/ wrShut' # wrShut

(* With writeIdx_ = 0 the write() of no byte returns 0, which is taken for  *)
(* a closed connection; the loop goes on.                                   *)
WriteNothing ==
    /\ pc = "writing"
    /\ ~Reset
    /\ wbuf = <<>>
    /\ handleClose
    /\ UNCHANGED <<rcv, pc, readIdx, sendVars, loopVars, inq, wrShut, clientVars>>

WriteFails ==
    /\ pc = "writing"
    /\ Reset
    /\ pc' = "events"
    /\ dead' = IF peer = "finrst" THEN "sigpipe" ELSE dead
    /\ UNCHANGED <<state, channelVars, rcv, readIdx, sendVars, loopVars, inq,
                   wrShut, clientVars, ready>>

------------------------------------------------------------------------------
LoopThread ==
    \/ connectionEstablished
    \/ Poll
    \/ EventsDone
    \/ DispatchHup
    \/ ReadMessage
    \/ ReadReturns
    \/ \E r \in Replies, close \in BOOLEAN : Reply(r, close)
    \/ ReplyIgnored
    \/ DispatchOut
    \/ WriteSome
    \/ WriteNothing
    \/ WriteFails

Client ==
    \/ ClientSends
    \/ \E n \in 1 .. SndCap : ClientReads(n)
    \/ ClientCloses
    \/ ClientResets

Next == dead = "no" /\ (LoopThread \/ Client)

Spec == Init /\ [][Next]_vars

(* The loop's thread keeps running; the client need not do anything. *)
FairSpec == Spec /\ WF_vars(dead = "no" /\ LoopThread)

------------------------------------------------------------------------------
(* Properties *)

(* Bytes kept in writeBuf_ have a write interest to carry them: sendInLoop  *)
(* and the end of handleWrite (TcpConnection.cc:69, :175) never leave data  *)
(* that no EPOLLOUT will come for.                                          *)
BufferedIsWaitedFor == wbuf # <<>> /\ state # "Disconnected" => outEv

(* No edge is lost: as long as nothing waits to be written, a chunk in the  *)
(* socket of an open connection is on epoll's ready list or about to be     *)
(* dispatched, or readBuf_ is full.  The channel is edge-triggered, so that *)
(* what handleRead leaves behind, or what comes while it and the message    *)
(* callback run, would otherwise stay unread (TcpConnection.cc:125-146).    *)
NoLostEdge ==
    inq > 0 /\ peer = "open" /\ state = "Connected" /\ ~outEv
    => \/ ready
       \/ pc # "idle" /\ "in" \in rcv
       \/ readIdx = ReadCap

(* shutdown() is graceful: the FIN comes after every byte that write()      *)
(* accepted before it, nothing buffered is left behind it, and no write()   *)
(* is accepted after it (shutdownInLoop, TcpConnection.cc:89; send, :33).   *)
FinIsLast == [][wrShut' => wbuf' = <<>> /\ (wrShut => sent' = sent)]_vars

(* A request that reaches a Connected connection is read, although its edge  *)
(* may come while an earlier one is being handled (TcpConnection.cc:126-143) *)
(* - unless readBuf_ has no room for it, or output waits for the client to   *)
(* read: from then on disableWrite may have dropped the read interest.       *)
RequestsRead ==
    (inq > 0 /\ state = "Connected") ~>
        \/ inq = 0 \/ readIdx = ReadCap \/ outEv
        \/ peer # "open" \/ state # "Connected" \/ dead # "no"
==============================================================================
