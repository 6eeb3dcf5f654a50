------------------------ MODULE TcpConnection_proofs ------------------------
(* Safety of a TcpConnection for any replies, any number of requests and   *)
(* any size of the buffers.                                                *)
EXTENDS TcpConnection, SequenceTheorems, TLAPS

(* What the socket has received, the client has sent. *)
QueueInv == inq <= requests

(* After SHUT_WR there is nothing to send, and no message callback that    *)
(* could send more: the connection is not Connected any longer.            *)
ShutInv == wrShut => wbuf = <<>> /\ state \in {"Disconnecting", "Disconnected"}

BytesInv == TypeOK /\ QueueInv /\ BufferedIsWaitedFor /\ ShutInv

(* No event comes before the connection is established.  After that, with  *)
(* nothing to write, it is registered for reading, and handleWrite, which  *)
(* would end that, is not at work.  The message callback runs with room in *)
(* readBuf_.                                                               *)
InterestInv ==
    /\ state = "Connecting" => pc = "idle" /\ ~ep
    /\ state = "Connected" => outEv \/ (inEv /\ ep /\ pc # "writing")
    /\ pc = "message" => readIdx < ReadCap

ConnInv == BytesInv /\ InterestInv /\ NoLostEdge

------------------------------------------------------------------------------
(* A reply is a sequence of the bytes that may be buffered and sent. *)
LEMMA ReplyBytes ==
    ASSUME NEW r \in Replies
    PROVE  r \in Seq(Bytes) /\ Len(r) \in Nat
  <1>1. r \in Seq(Nat)
    BY RepliesAssumption
  <1>2. \A i \in 1 .. Len(r) : r[i] \in Bytes
    <2>1. Range(r) \subseteq Bytes
      BY DEF Bytes
    <2>2. DOMAIN r = 1 .. Len(r)
      BY <1>1, LenProperties
    <2> QED BY <2>1, <2>2 DEF Range
  <1>3. r \in Seq(Bytes)
    BY <1>1, <1>2, SeqDef
  <1> QED BY <1>1, <1>3, LenProperties

(* What is no byte of a reply. *)
LEMMA OtherBytes == NUL \in Bytes /\ Garbage \in Bytes
  BY DEF Bytes

(* The first n bytes, and those from the n-th on. *)
LEMMA Pieces ==
    ASSUME NEW s \in Seq(Bytes), NEW n \in 0 .. Len(s)
    PROVE  SubSeq(s, 1, n) \in Seq(Bytes) /\ SubSeq(s, n + 1, Len(s)) \in Seq(Bytes)
  BY SubSeqProperties, LenProperties

(* strcpy leaves a sequence as long as it was, of bytes or of garbage. *)
LEMMA StrCopyBytes ==
    ASSUME NEW s \in Seq(Bytes)
    PROVE  StrCopy(s) \in Seq(Bytes)
  <1>1. s \in [1 .. Len(s) -> Bytes] /\ Len(s) \in Nat /\ DOMAIN s = 1 .. Len(s)
    BY LenProperties
  <1>2. StrCopy(s) \in [1 .. Len(s) -> Bytes]
    BY <1>1, OtherBytes DEF StrCopy
  <1> QED BY <1>1, <1>2, SeqDef

(* What sendInLoop keeps of a reply is bytes again. *)
LEMMA BufferedBytes ==
    ASSUME NEW r \in Replies, NEW n \in -1 .. Len(r), NEW b \in Buffered(r, n)
    PROVE  b \in Seq(Bytes)
  <1>1. r \in Seq(Bytes) /\ Len(r) \in Nat
    BY ReplyBytes
  <1>2. CASE n >= 0
    <2>1. b = StrCopy(SubSeq(r, n + 1, Len(r))) /\ n \in 0 .. Len(r)
      BY <1>1, <1>2 DEF Buffered
    <2> QED BY <1>1, <2>1, Pieces, StrCopyBytes
  <1>3. CASE n = -1
    <2>1. PICK before \in {NUL, Garbage} : b = StrCopy(<<before>> \o r)
      BY <1>3 DEF Buffered
    <2>2. before \in Bytes /\ <<before>> \in Seq(Bytes)
      BY OtherBytes
    <2>3. <<before>> \o r \in Seq(Bytes)
      BY <1>1, <2>2, ConcatProperties
    <2> QED BY <2>1, <2>3, StrCopyBytes
  <1> QED BY <1>1, <1>2, <1>3

(* What sendInLoop leaves: bytes kept have a write interest, which is never *)
(* taken back, and nothing is kept without it.                              *)
LEMMA SendKeeps ==
    ASSUME BytesInv, NEW r \in Replies, sendInLoop(r)
    PROVE  /\ wbuf' \in Seq(Bytes) /\ sent' \in Seq(Bytes)
           /\ unsent' \in 0 .. SndCap /\ readIdx' = 0
           /\ outEv' \in BOOLEAN /\ dead' \in {"no", "assert", "sigpipe"}
           /\ outEv' \/ (~outEv /\ wbuf' = wbuf)
  <1>1. r \in Seq(Bytes) /\ Len(r) \in Nat /\ SndCap \in Nat
    BY ReplyBytes, CapAssumption
  <1>2. wbuf \in Seq(Bytes) /\ sent \in Seq(Bytes) /\ unsent \in 0 .. SndCap
        /\ outEv \in BOOLEAN /\ dead \in {"no", "assert", "sigpipe"}
    BY DEF BytesInv, TypeOK
  <1>3. ASSUME NEW n \in -1 .. Len(r), Buffer(r, n)
        PROVE  wbuf' \in Seq(Bytes) /\ outEv' = TRUE
    <2>1. PICK b \in Buffered(r, n) : wbuf' = wbuf \o b
      BY <1>3 DEF Buffer
    <2>2. b \in Seq(Bytes)
      BY BufferedBytes
    <2> QED BY <1>2, <1>3, <2>1, <2>2, ConcatProperties DEF Buffer
  <1>4. readIdx' = 0
    BY DEF sendInLoop
  <1>5. CASE SendFails(r)
    BY <1>2, <1>4, <1>5 DEF SendFails
  <1>6. CASE SendAgain(r)
    <2>1. Buffer(r, -1) /\ UNCHANGED <<unsent, sent, dead>>
      BY <1>6 DEF SendAgain
    <2>2. -1 \in -1 .. Len(r)
      BY <1>1
    <2> QED BY <1>2, <1>3, <1>4, <2>1, <2>2
  <1>7. CASE SendWrites(r)
    <2> DEFINE room == SndCap - unsent
               n == IF outEv THEN 0 ELSE IF Len(r) <= room THEN Len(r) ELSE room
    <2>1. n \in 0 .. Len(r) /\ n \in -1 .. Len(r) /\ unsent + n \in 0 .. SndCap
      BY <1>1, <1>2
    <2>2. sent' = sent \o SubSeq(r, 1, n) /\ unsent' = unsent + n /\ dead' = dead
          /\ IF n < Len(r) THEN Buffer(r, n) ELSE UNCHANGED <<wbuf, outEv>>
      BY <1>7 DEF SendWrites
    <2> HIDE DEF n
    <2>3. SubSeq(r, 1, n) \in Seq(Bytes)
      BY <1>1, <2>1, Pieces
    <2>4. sent' \in Seq(Bytes)
      BY <1>2, <2>2, <2>3, ConcatProperties
    <2>5. wbuf' \in Seq(Bytes) /\ outEv' \in BOOLEAN /\ (outEv' \/ (~outEv /\ wbuf' = wbuf))
      BY <1>2, <1>3, <2>1, <2>2
    <2> QED BY <1>2, <1>4, <2>1, <2>2, <2>4, <2>5
  <1> QED BY <1>5, <1>6, <1>7 DEF sendInLoop

------------------------------------------------------------------------------
(* A connection begins with nothing to send. *)
LEMMA InitEstablishes == Init => BytesInv
  <1> SUFFICES ASSUME Init PROVE BytesInv
    OBVIOUS
  <1>1. <<>> \in Seq(Bytes) /\ <<>> \in Seq(Replies)
    OBVIOUS
  <1>2. 0 \in 0 .. ReadCap /\ 0 \in 0 .. MaxRequests /\ 0 \in 0 .. SndCap
    BY BoundAssumption, CapAssumption
  <1>3. TypeOK
    <2>1. wbuf \in Seq(Bytes) /\ sent \in Seq(Bytes) /\ replies \in Seq(Replies)
      BY <1>1 DEF Init
    <2>2. readIdx \in 0 .. ReadCap /\ inq \in 0 .. MaxRequests
          /\ requests \in 0 .. MaxRequests /\ unsent \in 0 .. SndCap
          /\ toSend \in Int /\ haveSent \in Nat
      BY <1>2 DEF Init
    <2> QED BY <2>1, <2>2 DEF Init, TypeOK
  <1> QED BY <1>3 DEF Init, BytesInv, QueueInv, BufferedIsWaitedFor, ShutInv

(* The client sends, reads, closes and resets. *)
LEMMA ClientPreserves ==
    ASSUME BytesInv, Client
    PROVE  BytesInv'
  <1> USE DEF BytesInv, TypeOK, QueueInv, BufferedIsWaitedFor, ShutInv,
              channelVars, sendVars, loopVars, clientVars
  <1>1. CASE ClientSends
    BY <1>1, BoundAssumption DEF ClientSends
  <1>2. CASE \E n \in 1 .. SndCap : ClientReads(n)
    BY <1>2, CapAssumption DEF ClientReads
  <1>3. CASE ClientCloses
    BY <1>3 DEF ClientCloses
  <1>4. CASE ClientResets
    BY <1>4 DEF ClientResets
  <1> QED BY <1>1, <1>2, <1>3, <1>4 DEF Client

(* Establishing, polling and reading touch neither writeBuf_ nor the write *)
(* interest; a close drops both interests, and the connection for good.    *)
LEMMA ReadSidePreserves ==
    ASSUME BytesInv,
           \/ connectionEstablished \/ Poll \/ EventsDone \/ DispatchHup
           \/ ReadMessage \/ ReadReturns \/ ReplyIgnored
    PROVE  BytesInv'
  <1> USE DEF BytesInv, TypeOK, QueueInv, BufferedIsWaitedFor, ShutInv,
              channelVars, sendVars, loopVars, clientVars
  <1>1. CASE connectionEstablished
    BY <1>1 DEF connectionEstablished, Rearm
  <1>2. CASE Poll
    <2>1. Reported \in SUBSET {"hup", "in", "out"}
      BY DEF Reported
    <2> QED BY <1>2, <2>1 DEF Poll
  <1>3. CASE EventsDone
    BY <1>3 DEF EventsDone
  <1>4. CASE DispatchHup
    BY <1>4 DEF DispatchHup, handleClose
  <1>5. CASE ReadMessage
    BY <1>5, CapAssumption, BoundAssumption DEF ReadMessage, DispatchIn
  <1>6. CASE ReadReturns
    BY <1>6, CapAssumption, BoundAssumption DEF ReadReturns, DispatchIn
  <1>7. CASE ReplyIgnored
    BY <1>7 DEF ReplyIgnored
  <1> QED BY <1>1, <1>2, <1>3, <1>4, <1>5, <1>6, <1>7

(* The callback sends and may shut down: the socket is shut at once only   *)
(* if nothing is kept for it.                                              *)
LEMMA ReplyPreserves ==
    ASSUME BytesInv, NEW r \in Replies, NEW close \in BOOLEAN, Reply(r, close)
    PROVE  BytesInv'
  <1>1. /\ wbuf' \in Seq(Bytes) /\ sent' \in Seq(Bytes)
        /\ unsent' \in 0 .. SndCap /\ readIdx' = 0
        /\ outEv' \in BOOLEAN /\ dead' \in {"no", "assert", "sigpipe"}
        /\ outEv' \/ (~outEv /\ wbuf' = wbuf)
    BY SendKeeps DEF Reply
  <1>2. state = "Connected" /\ ~wrShut
    BY DEF Reply, BytesInv, ShutInv
  <1>3. state' = (IF close THEN "Disconnecting" ELSE "Connected")
        /\ wrShut' \in BOOLEAN /\ (wrShut' => close /\ ~outEv')
    BY <1>2 DEF Reply, shutdownInLoop, BytesInv, TypeOK
  <1>4. ~outEv' => wbuf' = <<>>
    BY <1>1, <1>2 DEF BytesInv, BufferedIsWaitedFor
  <1>5. replies' \in Seq(Replies)
    BY AppendProperties DEF Reply, BytesInv, TypeOK
  <1>6. ready' \in BOOLEAN
    BY DEF Reply, Rearm, BytesInv, TypeOK
  <1>7. TypeOK' /\ QueueInv'
    BY <1>1, <1>3, <1>5, <1>6, CapAssumption
       DEF Reply, BytesInv, TypeOK, QueueInv, loopVars, clientVars
  <1> QED BY <1>3, <1>4, <1>7 DEF BytesInv, BufferedIsWaitedFor, ShutInv

(* handleWrite empties writeBuf_ before it shuts the socket, and never     *)
(* takes the write interest back while there is something left.            *)
LEMMA WriteSidePreserves ==
    ASSUME BytesInv, DispatchOut \/ WriteSome \/ WriteNothing \/ WriteFails
    PROVE  BytesInv'
  <1> USE DEF channelVars, sendVars, loopVars, clientVars
  <1>1. CASE DispatchOut
    <2>1. Len(wbuf) \in Nat
      BY LenProperties DEF BytesInv, TypeOK
    <2> QED BY <1>1, <2>1
            DEF DispatchOut, BytesInv, TypeOK, QueueInv, BufferedIsWaitedFor, ShutInv
  <1>2. CASE WriteSome
    <2> DEFINE room == SndCap - unsent
               n == IF Len(wbuf) <= room THEN Len(wbuf) ELSE room
    <2>1. wbuf \in Seq(Bytes) /\ sent \in Seq(Bytes) /\ unsent \in 0 .. SndCap
          /\ Len(wbuf) \in Nat /\ SndCap \in Nat /\ toSend \in Int /\ haveSent \in Nat
      BY CapAssumption, LenProperties DEF BytesInv, TypeOK
    <2>2. n > 0 /\ sent' = sent \o SubSeq(wbuf, 1, n) /\ unsent' = unsent + n
          /\ toSend' = toSend - n /\ haveSent' = haveSent + n
      BY <1>2 DEF WriteSome
    <2>3. n \in 0 .. Len(wbuf) /\ unsent + n \in 0 .. SndCap /\ Len(wbuf) # 0
      BY <2>1, <2>2
    <2> HIDE DEF n
    <2>4. toSend' \in Int /\ haveSent' \in Nat /\ unsent' \in 0 .. SndCap
      BY <2>1, <2>2, <2>3
    <2>5. sent' \in Seq(Bytes)
      BY <2>1, <2>2, <2>3, Pieces, ConcatProperties
    <2>6. ~wrShut
      BY <2>1, <2>3 DEF BytesInv, ShutInv
    <2>7. \/ /\ inEv' = FALSE /\ UNCHANGED <<outEv, ep>>
             /\ wbuf' = <<>> /\ pc' = "events"
             /\ IF state = "Disconnecting" THEN wrShut' \in BOOLEAN ELSE wrShut' = wrShut
          \/ UNCHANGED <<inEv, outEv, ep, wrShut, wbuf, pc>>
      BY <1>2 DEF WriteSome, disableWrite, shutdownInLoop, BytesInv, TypeOK
    <2>8. ready' \in BOOLEAN
      BY <1>2 DEF WriteSome, Rearm, BytesInv, TypeOK
    <2>9. UNCHANGED <<state, rcv, readIdx, inq, peer, requests, replies, dead>>
      BY <1>2 DEF WriteSome
    <2>10. wbuf' \in Seq(Bytes) /\ pc' \in {"idle", "events", "message", "writing"}
           /\ inEv' \in BOOLEAN /\ outEv' \in BOOLEAN /\ ep' \in BOOLEAN
           /\ wrShut' \in BOOLEAN
      <3>1. <<>> \in Seq(Bytes)
        OBVIOUS
      <3> QED BY <2>7, <3>1 DEF BytesInv, TypeOK
    <2>11. TypeOK'
      BY <2>4, <2>5, <2>8, <2>9, <2>10 DEF BytesInv, TypeOK
    <2> QED BY <2>6, <2>7, <2>9, <2>11
            DEF BytesInv, QueueInv, BufferedIsWaitedFor, ShutInv
  <1>3. CASE WriteNothing
    BY <1>3 DEF WriteNothing, handleClose,
                BytesInv, TypeOK, QueueInv, BufferedIsWaitedFor, ShutInv
  <1>4. CASE WriteFails
    BY <1>4 DEF WriteFails, BytesInv, TypeOK, QueueInv, BufferedIsWaitedFor, ShutInv
  <1> QED BY <1>1, <1>2, <1>3, <1>4

------------------------------------------------------------------------------
(* A connection begins without an event, and with none to lose. *)
LEMMA InitHasNoEdge == Init => InterestInv /\ NoLostEdge
  BY DEF Init, InterestInv, NoLostEdge

(* Every chunk that comes makes the descriptor ready while it is registered *)
(* for reading, which is as long as nothing is to be written.               *)
LEMMA ClientKeepsEdge ==
    ASSUME ConnInv, Client
    PROVE  InterestInv' /\ NoLostEdge'
  <1> USE DEF ConnInv, InterestInv, NoLostEdge, channelVars, sendVars, loopVars, clientVars
  <1>1. CASE ClientSends
    BY <1>1 DEF ClientSends, BytesInv, TypeOK
  <1>2. CASE \E n \in 1 .. SndCap : ClientReads(n)
    BY <1>2 DEF ClientReads, BytesInv, TypeOK
  <1>3. CASE ClientCloses
    BY <1>3 DEF ClientCloses
  <1>4. CASE ClientResets
    BY <1>4 DEF ClientResets
  <1> QED BY <1>1, <1>2, <1>3, <1>4 DEF Client

(* EPOLL_CTL_ADD reports what came before it; epoll_wait hands the edge on  *)
(* as an event; handleRead takes all there is, or readBuf_ is full.         *)
LEMMA ReadSideKeepsEdge ==
    ASSUME ConnInv,
           \/ connectionEstablished \/ Poll \/ EventsDone \/ DispatchHup
           \/ ReadMessage \/ ReadReturns \/ ReplyIgnored
    PROVE  InterestInv' /\ NoLostEdge'
  <1> USE DEF ConnInv, InterestInv, NoLostEdge, channelVars, sendVars, loopVars, clientVars
  <1>1. CASE connectionEstablished
    <2>1. inq' > 0 => "in" \in Reported'
      BY <1>1 DEF connectionEstablished, Reported
    <2>2. ready' = (Reported' # {})
      BY <1>1 DEF connectionEstablished, Rearm
    <2>3. inq' > 0 => ready'
      BY <2>1, <2>2
    <2> QED BY <1>1, <2>3 DEF connectionEstablished
  <1>2. CASE Poll
    <2>1. inEv /\ inq > 0 => "in" \in Reported
      BY DEF Reported
    <2>2. "in" \in Reported => Reported # {}
      OBVIOUS
    <2> QED BY <1>2, <2>1, <2>2 DEF Poll
  <1>3. CASE EventsDone
    BY <1>3 DEF EventsDone
  <1>4. CASE DispatchHup
    BY <1>4 DEF DispatchHup, handleClose
  <1>5. CASE ReadMessage
    BY <1>5 DEF ReadMessage, DispatchIn
  <1>6. CASE ReadReturns
    BY <1>6, CapAssumption, BoundAssumption DEF ReadReturns, DispatchIn, BytesInv, TypeOK
  <1>7. CASE ReplyIgnored
    BY <1>7 DEF ReplyIgnored
  <1> QED BY <1>1, <1>2, <1>3, <1>4, <1>5, <1>6, <1>7

(* The callback empties readBuf_, which had room, and never takes an        *)
(* interest away.                                                           *)
LEMMA ReplyKeepsEdge ==
    ASSUME ConnInv, NEW r \in Replies, NEW close \in BOOLEAN, Reply(r, close)
    PROVE  InterestInv' /\ NoLostEdge'
  <1>1. outEv' \/ (~outEv /\ wbuf' = wbuf)
    BY SendKeeps DEF Reply, ConnInv
  <1>2. /\ pc = "message" /\ pc' = "events" /\ state = "Connected"
        /\ state' \in {"Connected", "Disconnecting"}
        /\ UNCHANGED <<inEv, ep, rcv, inq, peer>> /\ (ready => ready')
    BY DEF Reply, clientVars
  <1>3. readIdx < ReadCap
    BY <1>2 DEF ConnInv, InterestInv
  <1>4. readIdx # ReadCap
    BY <1>3, CapAssumption DEF ConnInv, BytesInv, TypeOK
  <1> QED BY <1>1, <1>2, <1>4 DEF ConnInv, InterestInv, NoLostEdge

(* handleWrite is not at work unless there is something to write, or the   *)
(* connection is closed.                                                   *)
LEMMA WriteSideKeepsEdge ==
    ASSUME ConnInv, DispatchOut \/ WriteSome \/ WriteNothing \/ WriteFails
    PROVE  InterestInv' /\ NoLostEdge'
  <1> USE DEF ConnInv, InterestInv, NoLostEdge, channelVars, sendVars, loopVars, clientVars
  <1>1. CASE DispatchOut
    BY <1>1 DEF DispatchOut
  <1>2. CASE WriteSome
    BY <1>2 DEF WriteSome, disableWrite
  <1>3. CASE WriteNothing
    BY <1>3 DEF WriteNothing, handleClose
  <1>4. CASE WriteFails
    BY <1>4 DEF WriteFails
  <1> QED BY <1>1, <1>2, <1>3, <1>4

------------------------------------------------------------------------------
(* The invariant holds at first. *)
LEMMA InvInit == Init => ConnInv
  BY InitEstablishes, InitHasNoEdge DEF ConnInv

(* The client and the three parts of the loop's thread, together. *)
LEMMA StepPreserves == ConnInv /\ [Next]_vars => ConnInv'
  <1> SUFFICES ASSUME ConnInv, [Next]_vars PROVE ConnInv'
    OBVIOUS
  <1>1. CASE UNCHANGED vars
    BY <1>1 DEF vars, channelVars, sendVars, loopVars, clientVars, ConnInv, BytesInv,
                TypeOK, QueueInv, BufferedIsWaitedFor, ShutInv, InterestInv, NoLostEdge
  <1>2. CASE Next
    <2>1. BytesInv'
      BY <1>2, ClientPreserves, ReadSidePreserves, ReplyPreserves, WriteSidePreserves
         DEF Next, LoopThread, ConnInv
    <2>2. InterestInv' /\ NoLostEdge'
      BY <1>2, ClientKeepsEdge, ReadSideKeepsEdge, ReplyKeepsEdge, WriteSideKeepsEdge
         DEF Next, LoopThread
    <2> QED BY <2>1, <2>2 DEF ConnInv
  <1> QED BY <1>1, <1>2

------------------------------------------------------------------------------
(* The invariant holds in every state. *)
THEOREM ConnInvInductive == Spec => []ConnInv
  <1> QED BY InvInit, StepPreserves, PTL DEF Spec

(* Indices, counts and interests keep their types: readIdx_ stays within   *)
(* readBuf_ whatever arrives, and the socket takes no more than it holds.  *)
THEOREM TypeCorrect == Spec => []TypeOK
  BY ConnInvInductive, PTL DEF ConnInv, BytesInv

(* Bytes in writeBuf_ have a write interest for as long as the connection  *)
(* is open, whatever was sent and however much of it the socket took.      *)
THEOREM BufferedIsWaitedForHolds == Spec => []BufferedIsWaitedFor
  BY ConnInvInductive, PTL DEF ConnInv, BytesInv

(* No request is left in the socket unnoticed: the read interest is edge-   *)
(* triggered, and whatever arrives while a request is read or answered is   *)
(* either read then or reported again.                                      *)
THEOREM NoLostEdgeHolds == Spec => []NoLostEdge
  BY ConnInvInductive, PTL DEF ConnInv

(* The FIN is the last thing sent: nothing is left behind it and no write  *)
(* is accepted after it.                                                   *)
THEOREM FinIsLastHolds == Spec => FinIsLast
  <1>1. ASSUME ConnInv, ConnInv', [Next]_vars
        PROVE  [wrShut' => wbuf' = <<>> /\ (wrShut => sent' = sent)]_vars
    <2>1. CASE UNCHANGED vars
      BY <2>1
    <2>2. wrShut' => wbuf' = <<>>
      BY <1>1 DEF ConnInv, BytesInv, ShutInv
    <2>3. ASSUME wrShut, Next PROVE sent' = sent
      <3>1. wbuf = <<>> /\ state # "Connected"
        BY <1>1, <2>3 DEF ConnInv, BytesInv, ShutInv
      <3>2. ~WriteSome
        BY <1>1, <3>1, CapAssumption DEF WriteSome, ConnInv, BytesInv, TypeOK
      <3>3. \A r \in Replies, close \in BOOLEAN : ~Reply(r, close)
        BY <3>1 DEF Reply
      <3> QED BY <2>3, <3>2, <3>3
              DEF Next, LoopThread, Client, connectionEstablished, Poll, EventsDone,
                  DispatchHup, ReadMessage, ReadReturns, ReplyIgnored, DispatchOut,
                  WriteNothing, WriteFails, ClientSends, ClientReads, ClientCloses,
                  ClientResets, sendVars
    <2> QED BY <1>1, <2>1, <2>2, <2>3
  <1> QED BY <1>1, ConnInvInductive, PTL DEF Spec, FinIsLast

==============================================================================
