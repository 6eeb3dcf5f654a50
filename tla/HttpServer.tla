------------------------------ MODULE HttpServer ------------------------------
(***************************************************************************)
(* One connection of the HTTP server: HttpServer::onMessage, the parser of *)
(* HttpContext that it runs over the bytes read, and the response, which   *)
(* is sent and may be followed by shutdown().                              *)
(*                                                                         *)
(* A line is what it means to the parser, and the stream is a sequence of  *)
(* lines.  TCP delivers it in pieces; a piece is cut between lines here.   *)
(* (A cut within a line is, for the first piece, a cut before the line -   *)
(* parseLine finds no end of it; what the rest of the line is to the next  *)
(* message depends on its text.)  Requests have no bodies, and every line  *)
(* ends in CR LF.                                                          *)
(*                                                                         *)
(* phase tells where the loop's thread is: "idle" outside onMessage,       *)
(* "parse" in parseRequest, "respond" in onRequest; and, for ever, "hung"  *)
(* in addHeader or "crashed" in getHeader.                                 *)
(***************************************************************************)
EXTENDS Naturals, Sequences

CONSTANT MaxRequests      \* how many requests the client sends

VARIABLES
    stream,           \* what the client has sent and the server not yet read
    sent,             \* history: the requests of the client
    buf,              \* the lines in readBuf_
    phase,
    checked,          \* how many lines of buf are behind checkedIdx_
    checkState,       \* checkState_
    request,          \* request_
    state,            \* state_ of the TcpConnection
    replies,          \* the responses sent
    whole             \* history: each message was one request, from its start

contextVars == <<checked, checkState, request>>
historyVars == <<sent, whole>>
httpVars == <<stream, buf, phase, contextVars, state, replies, historyVars>>

Versions == {"HTTP/1.0", "HTTP/1.1", "bad"}
Files == {"page", "missing", "private", "directory"}

(* The value of the Connection header; "padded" has white space behind it, *)
(* "none" is no such header.                                               *)
Values == {"close", "Keep-Alive", "keep-alive", "padded", "none"}

Requests == [version : Versions, file : Files, connection : Values]

(* A request on the wire: its line, perhaps a header, and the empty line. *)
Lines(r) ==
    <<[kind |-> "request", of |-> r]>>
    \o (IF r.connection = "none" THEN <<>> ELSE <<[kind |-> "header", of |-> r]>>)
    \o <<[kind |-> "empty", of |-> r]>>

(* Lines that were parsed lose their ends: together they are a "torn" line *)
(* that the next one goes on with.                                         *)
LineSet == [kind : {"request", "header", "empty", "torn"}, of : Requests]

(* What is not set in request_ is the empty string. *)
Unset == ""

NoRequest == [code |-> "NO_REQUEST", version |-> Unset, file |-> Unset, connection |-> "none"]

Codes == {"NO_REQUEST", "GET_REQUEST", "BAD_REQUEST"}

HttpTypeOK ==
    /\ stream \in Seq(LineSet)
    /\ sent \in Seq(Requests)
    /\ buf \in Seq(LineSet)
    /\ phase \in {"idle", "parse", "respond", "hung", "crashed"}
    /\ checked \in 0 .. Len(buf)
    /\ checkState \in {"REQUESTLINE", "HEADER", "CONTENT"}
    /\ request \in [code : Codes, version : Versions \cup {Unset},
                    file : Files \cup {Unset}, connection : Values]
    /\ state \in {"Connected", "Disconnecting"}
    /\ replies \in Seq([code : {"200", "400", "403", "404"}, close : BOOLEAN])
    /\ whole \in BOOLEAN

HttpInit ==
    /\ stream = <<>> /\ sent = <<>> /\ buf = <<>>
    /\ phase = "idle"
    /\ checked = 0 /\ checkState = "REQUESTLINE" /\ request = NoRequest
    /\ state = "Connected"
    /\ replies = <<>>
    /\ whole = TRUE

------------------------------------------------------------------------------
(* The client *)

SendRequest(r) ==
    /\ Len(sent) < MaxRequests
    /\ stream' = stream \o Lines(r)
    /\ sent' = Append(sent, r)
    /\ UNCHANGED <<buf, phase, contextVars, state, replies, whole>>

------------------------------------------------------------------------------
(* TcpConnection::handleRead hands over what has come, behind what is left *)
(* in readBuf_, and HttpServer::onMessage begins.                          *)

handleRead ==
    /\ phase = "idle"
    /\ \E n \in 1 .. Len(stream) :
          /\ buf' = buf \o SubSeq(stream, 1, n)
          /\ stream' = SubSeq(stream, n + 1, Len(stream))
          /\ whole' = (whole /\ Len(replies) < Len(sent)
                             /\ buf' = Lines(sent[Len(replies) + 1]))
    /\ phase' = "parse"
    /\ UNCHANGED <<sent, contextVars, state, replies>>

Line == buf[checked + 1]

(* parseLine moves checkedIdx_ behind the end of the line. *)
LineEnd == IF Line.kind = "torn" THEN checked + 2 ELSE checked + 1

(* parseLine finds a complete line. *)
LineReady == checked < Len(buf) /\ LineEnd <= Len(buf)

ParseEnds(code) ==
    /\ request' = [request EXCEPT !.code = code]
    /\ phase' = "respond"

parseRequestLine ==
    /\ phase = "parse" /\ checkState = "REQUESTLINE" /\ LineReady
    /\ checked' = LineEnd
    /\ IF Line.kind = "request" /\ Line.of.version # "bad"
       THEN /\ request' = [request EXCEPT !.version = Line.of.version, !.file = Line.of.file]
            /\ checkState' = "HEADER"
            /\ UNCHANGED phase
       ELSE ParseEnds("BAD_REQUEST") /\ UNCHANGED checkState
    /\ UNCHANGED <<stream, buf, state, replies, historyVars>>

(* A line with a colon is a header.  addHeader strips the white space      *)
(* behind a value with reserve, which does not make it any shorter.        *)
parseHeader ==
    /\ phase = "parse" /\ checkState = "HEADER" /\ LineReady
    /\ Line.kind = "header"
    /\ checked' = LineEnd
    /\ IF Line.of.connection = "padded"
       THEN phase' = "hung" /\ UNCHANGED request
       ELSE request' = [request EXCEPT !.connection = Line.of.connection] /\ UNCHANGED phase
    /\ UNCHANGED <<stream, buf, checkState, state, replies, historyVars>>

(* Any line without a colon ends the headers. *)
parseHeaderEnd ==
    /\ phase = "parse" /\ checkState = "HEADER" /\ LineReady
    /\ Line.kind # "header"
    /\ checked' = LineEnd
    /\ checkState' = "CONTENT"
    /\ UNCHANGED <<stream, buf, phase, request, state, replies, historyVars>>

(* Mutant: the body goes on for as long as there is no NUL. *)
parseBody_Continues ==
    /\ phase = "parse" /\ checkState = "CONTENT"
    /\ UNCHANGED httpVars

parseBody ==
    /\ phase = "parse" /\ checkState = "CONTENT"
    /\ ParseEnds("GET_REQUEST")
    /\ UNCHANGED <<stream, buf, checked, checkState, state, replies, historyVars>>

(* The loop ends when no further line is complete, and parseRequest        *)
(* returns what it returns for a complete request.                         *)
OutOfLines ==
    /\ phase = "parse" /\ checkState # "CONTENT" /\ ~LineReady
    /\ ParseEnds("GET_REQUEST")
    /\ UNCHANGED <<stream, buf, checked, checkState, state, replies, historyVars>>

------------------------------------------------------------------------------
(* HttpServer::onRequest *)

(* getHeader follows the end of the map when there is no such header: any  *)
(* text may come of it.                                                    *)
getHeader == IF request.connection = "none"
             THEN {"close", "Keep-Alive", Unset}
             ELSE {request.connection}

Closes(connection) ==
    \/ connection = "close"
    \/ request.version = "HTTP/1.0" /\ connection # "Keep-Alive"

(* With no path the file is /root itself. *)
defaultHttpCB ==
    IF request.code # "GET_REQUEST" THEN {"404"}
    ELSE CASE request.file = "page"    -> {"200"}
           [] request.file = "private" -> {"403"}
           [] request.file = Unset     -> {"400", "403"}
           [] OTHER                    -> {"400"}

(* Mutant: the parser keeps its place in the protocol. *)
reset_KeepsState ==
    /\ checked' = 0
    /\ request' = NoRequest
    /\ UNCHANGED checkState

(* Mutant: the parser keeps its place in the buffer. *)
reset_KeepsPlace ==
    /\ checkState' = "REQUESTLINE"
    /\ request' = NoRequest
    /\ UNCHANGED checked

(* HttpContext::reset *)
reset ==
    /\ checked' = 0
    /\ checkState' = "REQUESTLINE"
    /\ request' = NoRequest

(* parseLine has overwritten the ends of the lines it found with NULs.  A  *)
(* line that comes behind empty ones is what it would be without them, as  *)
(* parseRequestLine takes any method; behind others it is never a request. *)
Kept ==
    LET parsed == SubSeq(buf, 1, checked)
        rest   == SubSeq(buf, checked + 1, Len(buf))
    IN  IF \A i \in 1 .. checked : parsed[i].kind = "empty"
        THEN rest
        ELSE <<[kind |-> "torn", of |-> buf[1].of]>> \o rest

(* TcpConnection::send is ignored once the connection is no longer         *)
(* Connected; when it does send, it empties readBuf_.                      *)
send(reply) ==
    IF state = "Connected"
    THEN replies' = Append(replies, reply) /\ buf' = <<>>
    ELSE buf' = Kept /\ UNCHANGED replies

onRequest ==
    /\ phase = "respond"
    /\ \E connection \in getHeader, code \in defaultHttpCB :
          LET close == Closes(connection) \/ request.code # "GET_REQUEST"
          IN  /\ send([code |-> code, close |-> close])
              /\ state' = IF close THEN "Disconnecting" ELSE state
    /\ phase' = "idle"
    /\ reset
    /\ UNCHANGED <<stream, historyVars>>

getHeaderCrashes ==
    /\ phase = "respond"
    /\ request.connection = "none"
    /\ phase' = "crashed"
    /\ UNCHANGED <<stream, buf, contextVars, state, replies, historyVars>>

------------------------------------------------------------------------------
ServerStep ==
    \/ handleRead
    \/ parseRequestLine \/ parseHeader \/ parseHeaderEnd \/ parseBody \/ OutOfLines
    \/ onRequest \/ getHeaderCrashes

HttpNext == (\E r \in Requests : SendRequest(r)) \/ ServerStep

HttpSpec == HttpInit /\ [][HttpNext]_httpVars

(* The loop dispatches what can be read, and its thread is scheduled. *)
FairHttpSpec == HttpSpec /\ WF_httpVars(ServerStep)

------------------------------------------------------------------------------
(* What a request is to be answered with: the file, or the reason why not, *)
(* and a close if it asks for it or is of the version that does by default. *)
Expected(r) ==
    [code  |-> IF r.version = "bad" THEN "404"
               ELSE CASE r.file = "page"    -> "200"
                      [] r.file = "private" -> "403"
                      [] OTHER              -> "400",
     close |-> \/ r.version = "bad"
               \/ r.connection = "close"
               \/ r.version = "HTTP/1.0" /\ r.connection # "Keep-Alive"]

(* While every message was one request, the replies answer the requests,   *)
(* one by one and in order, whatever was asked and answered before on the  *)
(* same connection; requests without a Connection header, where getHeader   *)
(* returns anything, are answered with the right code.  However messages   *)
(* are cut, nothing is answered after a reply that announced a close.      *)
AnsweredInFull ==
    /\ whole => \A i \in 1 .. Len(replies) :
                   /\ i <= Len(sent)
                   /\ replies[i].code = Expected(sent[i]).code
                   /\ sent[i].connection # "none" => replies[i] = Expected(sent[i])
    /\ \A i \in 1 .. Len(replies) - 1 : ~replies[i].close

(* The parser comes to an end of every message, and everything sent is read *)
(* - unless the thread is lost in a header or in memory that is not its own. *)
EveryMessageAnswered ==
    (stream # <<>> \/ phase = "parse") ~>
        (stream = <<>> /\ phase = "idle") \/ phase \in {"hung", "crashed"}
==============================================================================
