------------------------------ MODULE HttpConn ------------------------------
(***************************************************************************)
(* The v0.1 server: the event loop of the reactor (src/v0.1/reactor.cc),   *)
(* the workers of its thread pool, and the HttpConn of one client          *)
(* (src/src/HttpConn.cc), which the handlers of src/src/handler_io.cc call.*)
(*                                                                         *)
(* No lock protects an HttpConn.  Its descriptor is registered one-shot:   *)
(* an event disarms it, and the worker that handles the event arms it with *)
(* modFd when the next worker may come.                                    *)
(*                                                                         *)
(* The stream is a sequence of units: lines, and the parts of a body.  It  *)
(* arrives in pieces cut anywhere between units; a cut within a line is a  *)
(* cut before it, as parseLine goes on where it stopped.  A unit carries   *)
(* the number of its request.  The pool is its queue of jobs (ThreadPool   *)
(* has the rest of it).                                                    *)
(***************************************************************************)
EXTENDS Naturals, Sequences, FiniteSets

CONSTANTS
    Workers,          \* the threads of the pool
    Requests,         \* the requests that the client chooses from
    MaxRequests,      \* how many it sends
    ReadSize          \* READ_BUFFER_SIZE, in units

(* form: of the request line; "bare" ends in a line feed alone.  file: what *)
(* stat(2) says of it.                                                     *)
AllRequests == [form : {"good", "bad", "bare"}, keepAlive : BOOLEAN, body : BOOLEAN,
                file : {"page", "missing", "private", "directory", "empty"}]

ASSUME RequestsAssumption == Requests \subseteq AllRequests
ASSUME SizeAssumption == MaxRequests \in Nat /\ ReadSize \in Nat \ {0}

VARIABLES
    stream,           \* the units sent by the client and not yet read
    fin,              \* the client has closed
    space,            \* the socket takes output
    reg,              \* what epoll watches the descriptor for, or "off"
    event,            \* the event that event_loop looks up the handler of
    jobs,             \* the jobs of the pool, by the event
    pc,               \* where each worker is
    stored,           \* ehs holds the handler of the client
    alive,            \* the HttpConn has been made and not deleted
    buf,              \* readBuf up to readIdx
    checked,          \* checkedIdx
    checkState, url, linger, contentLength,
    code,             \* the answer in writeBuf, "" if writeIdx is 0
    torn,             \* history: part of the answer has been written before
    lost,             \* the HttpConn was used after it was deleted
    sent,             \* history: the requests of the client
    polite,           \* history: none came before the answer to the one before
    choked,           \* history: a writev did not take everything
    replies           \* history: the answers that write() held to be complete

clientVars == <<stream, fin, space>>
reactorVars == <<reg, event, jobs, stored>>
parseVars == <<checked, checkState, url, linger, contentLength>>
connVars == <<alive, buf, parseVars, code, torn>>
historyVars == <<sent, polite, choked, replies>>
vars == <<clientVars, reactorVars, pc, connVars, lost, historyVars>>

ContentLength == 2    \* of every body

Units(r, n) ==
    LET Unit(kind) == [kind |-> kind, n |-> n]
        Opt(b, s) == IF b THEN s ELSE <<>>
    IN <<Unit(r.form)>>
       \o Opt(r.keepAlive, <<Unit("keep-alive")>>)
       \o Opt(r.body, <<Unit("length")>>)
       \o <<Unit("empty")>>
       \o Opt(r.body, <<Unit("body"), Unit("body")>>)

UnitSet == [kind : {"good", "bad", "bare", "keep-alive", "length", "empty", "body"},
            n : 1 .. MaxRequests]

(* The functions of the HttpConn, and its deletion. *)
Places == {"read", "parse", "respond", "write", "close"}
Inside == {w \in Workers : pc[w] \in Places}

TypeOK ==
    /\ stream \in Seq(UnitSet) /\ buf \in Seq(UnitSet)
    /\ fin \in BOOLEAN /\ space \in BOOLEAN /\ stored \in BOOLEAN
    /\ alive \in BOOLEAN /\ linger \in BOOLEAN /\ torn \in BOOLEAN
    /\ lost \in BOOLEAN /\ polite \in BOOLEAN /\ choked \in BOOLEAN
    /\ reg \in {"IN", "OUT", "off"} /\ event \in {"IN", "OUT", "none"}
    /\ jobs \in Seq({"listen", "IN", "OUT"})
    /\ pc \in [Workers -> {"idle", "accept", "store"} \cup Places]
    /\ Len(buf) < ReadSize /\ checked \in 0 .. Len(buf)
    /\ checkState \in {"REQUESTLINE", "HEADER", "CONTENT"}
    /\ url \in 0 .. MaxRequests /\ contentLength \in {0, ContentLength}
    /\ code \in {"", "200", "400", "403"}
    /\ sent \in Seq(Requests)
    /\ replies \in Seq([n : 1 .. MaxRequests, code : {"200", "400", "403"},
                        whole : BOOLEAN, closing : BOOLEAN])

(* A client has connected, and event_loop has given the event to the pool. *)
Init ==
    /\ stream = <<>> /\ fin = FALSE /\ space = TRUE
    /\ reg = "off" /\ event = "none" /\ jobs = <<"listen">> /\ stored = FALSE
    /\ pc = [w \in Workers |-> "idle"]
    /\ alive = FALSE /\ buf = <<>> /\ checked = 0 /\ checkState = "REQUESTLINE"
    /\ url = 0 /\ linger = FALSE /\ contentLength = 0 /\ code = "" /\ torn = FALSE
    /\ lost = FALSE
    /\ sent = <<>> /\ polite = TRUE /\ choked = FALSE /\ replies = <<>>

------------------------------------------------------------------------------
(* The client *)

Closing == \E i \in DOMAIN replies : replies[i].closing

ClientSends(r) ==
    /\ ~fin /\ Len(sent) < MaxRequests
    /\ stream' = stream \o Units(r, Len(sent) + 1)
    /\ sent' = Append(sent, r)
    /\ polite' = (polite /\ Len(replies) = Len(sent) /\ ~Closing)
    /\ UNCHANGED <<fin, space, reactorVars, pc, connVars, lost, choked, replies>>

ClientReads ==
    /\ ~space /\ space' = TRUE
    /\ UNCHANGED <<stream, fin, reactorVars, pc, connVars, lost, historyVars>>

ClientCloses ==
    /\ ~fin /\ fin' = TRUE
    /\ UNCHANGED <<stream, space, reactorVars, pc, connVars, lost, historyVars>>

------------------------------------------------------------------------------
(* event_loop: an event with EPOLLRDHUP is logged and dropped, any other   *)
(* becomes a job if the handler is found.                                  *)

(* Mutant: the descriptor is not registered one-shot. *)
epoll_wait_NotOneShot ==
    /\ event = "none" /\ reg # "off"
    /\ \/ reg = "IN" /\ stream # <<>> /\ event' = "IN"
       \/ reg = "OUT" /\ space /\ event' = "OUT"
       \/ fin /\ event' = "none"
    /\ UNCHANGED <<reg, clientVars, jobs, stored, pc, connVars, lost, historyVars>>

epoll_wait ==
    /\ event = "none" /\ reg # "off"
    /\ \/ reg = "IN" /\ stream # <<>> /\ event' = "IN"
       \/ reg = "OUT" /\ space /\ event' = "OUT"
       \/ fin /\ event' = "none"
    /\ reg' = "off"
    /\ UNCHANGED <<clientVars, jobs, stored, pc, connVars, lost, historyVars>>

(* Mutant: find_eh and add_eh take no lock. *)
MutexFree_Always == TRUE

(* find_eh and add_eh hold mutex_eh. *)
MutexFree == \A w \in Workers : pc[w] # "store"

find_eh ==
    /\ event # "none" /\ MutexFree
    /\ jobs' = IF stored THEN Append(jobs, event) ELSE jobs
    /\ event' = "none"
    /\ UNCHANGED <<clientVars, reg, stored, pc, connVars, lost, historyVars>>

TakeJob(w) ==
    /\ pc[w] = "idle" /\ jobs # <<>>
    /\ pc' = [pc EXCEPT ![w] = CASE Head(jobs) = "listen" -> "accept"
                                 [] Head(jobs) = "IN" -> "read"
                                 [] Head(jobs) = "OUT" -> "write"]
    /\ jobs' = Tail(jobs)
    /\ UNCHANGED <<clientVars, reg, event, stored, connVars, lost, historyVars>>

------------------------------------------------------------------------------
(* handle_listen_event makes the HttpConn and calls add_eh, which lets     *)
(* epoll report events before ehs has the handler.                         *)

Accept(w) ==
    /\ pc[w] = "accept" /\ MutexFree
    /\ alive' = TRUE
    /\ reg' = "IN"
    /\ pc' = [pc EXCEPT ![w] = "store"]
    /\ UNCHANGED <<clientVars, event, jobs, stored, buf, parseVars, code, torn, lost,
                   historyVars>>

add_eh(w) ==
    /\ pc[w] = "store"
    /\ stored' = TRUE
    /\ pc' = [pc EXCEPT ![w] = "idle"]
    /\ UNCHANGED <<clientVars, reg, event, jobs, connVars, lost, historyVars>>

------------------------------------------------------------------------------
(* handle_client_event, EPOLLIN: read() and process() *)

At(w, place) == pc[w] = place /\ alive
Goto(w, place) == pc' = [pc EXCEPT ![w] = place]

(* Mutant: the buffer is never full. *)
read_NoLimit(w) ==
    /\ At(w, "read")
    /\ \E n \in 0 .. Len(stream) :
          /\ n = 0 => stream = <<>>
          /\ stream' = SubSeq(stream, n + 1, Len(stream))
          /\ buf' = buf \o SubSeq(stream, 1, n)
          /\ Goto(w, "parse")
    /\ UNCHANGED <<fin, space, reactorVars, alive, parseVars, code, torn, lost, historyVars>>

(* recv is called until it would block; it returns 0 at the end of the     *)
(* stream, and when the buffer has no room left.                           *)
read(w) ==
    /\ At(w, "read")
    /\ \E n \in 0 .. Len(stream) :
          /\ n = 0 => stream = <<>>
          /\ LET all == buf \o SubSeq(stream, 1, n)
             IN /\ stream' = SubSeq(stream, n + 1, Len(stream))
                /\ \/ Len(all) < ReadSize /\ buf' = all /\ Goto(w, "parse")
                   \/ /\ Len(all) >= ReadSize \/ (fin /\ n = Len(stream))
                      /\ Goto(w, "close") /\ UNCHANGED buf
    /\ UNCHANGED <<fin, space, reactorVars, alive, parseVars, code, torn, lost, historyVars>>

modFd(ev) == reg' = ev

(* processRead returns NO_REQUEST. *)
NeedMore(w) == modFd("IN") /\ Goto(w, "idle") /\ UNCHANGED code

(* processRead returns any other code, and processWrite makes the answer. *)
processWrite(w, c) == code' = c /\ modFd("OUT") /\ Goto(w, "idle")

(* The file has no byte: processWrite runs into its default case and       *)
(* returns false, closeConn forgets the descriptor, and modFd gets -1.     *)
WelcomeFails(w) == Goto(w, "idle") /\ UNCHANGED <<code, reg>>

GoOn == UNCHANGED <<pc, code, reg>>
GetRequest(w) == Goto(w, "respond") /\ UNCHANGED <<code, reg>>

Content == checkState = "CONTENT" /\ Len(buf) >= checked + contentLength

(* parseLine: the text that a line ends, if it is complete, and the place  *)
(* behind it.  A part of a body has no line end.                           *)
LineEnds == {i \in checked + 1 .. Len(buf) : buf[i].kind # "body"}
LineEnd == CHOOSE i \in LineEnds : \A j \in LineEnds : i <= j
Text == buf[checked + 1].kind
LineOk == LineEnds # {} /\ buf[LineEnd].kind # "bare"

(* Neither a line nor a complete body: parseLine has gone over what there  *)
(* is, but not over a line feed that it holds to be wrong.                 *)
LineOpen(w) ==
    /\ At(w, "parse") /\ ~Content /\ ~LineOk
    /\ checked' = IF LineEnds = {} THEN Len(buf) ELSE LineEnd - 1
    /\ NeedMore(w)
    /\ UNCHANGED <<checkState, url, linger, contentLength>>

parseRequestLine(w) ==
    /\ At(w, "parse") /\ checkState = "REQUESTLINE" /\ LineOk
    /\ checked' = LineEnd
    /\ IF Text = "good"
       THEN checkState' = "HEADER" /\ GoOn
       ELSE UNCHANGED checkState /\ processWrite(w, "400")
    /\ url' = buf[checked + 1].n
    /\ UNCHANGED <<linger, contentLength>>

(* A line that is no known header is passed over. *)
parseHeaders(w) ==
    /\ At(w, "parse") /\ checkState = "HEADER" /\ LineOk
    /\ checked' = LineEnd
    /\ linger' = (linger \/ Text = "keep-alive")
    /\ contentLength' = IF Text = "length" THEN ContentLength ELSE contentLength
    /\ IF Text = "empty" /\ contentLength # 0
       THEN checkState' = "CONTENT" /\ GoOn
       ELSE /\ UNCHANGED checkState
            /\ IF Text = "empty" THEN GetRequest(w) ELSE GoOn
    /\ UNCHANGED url

parseContent(w) ==
    /\ At(w, "parse") /\ Content
    /\ GetRequest(w)
    /\ UNCHANGED parseVars

(* doRequest, and what becomes of its result: a missing file is no request *)
(* yet.                                                                    *)
doRequest(w) ==
    /\ At(w, "respond")
    /\ LET file == sent[url].file
       IN \/ file = "missing" /\ NeedMore(w)
          \/ file = "private" /\ processWrite(w, "403")
          \/ file = "directory" /\ processWrite(w, "400")
          \/ file = "empty" /\ WelcomeFails(w)
          \/ file = "page" /\ processWrite(w, "200")
    /\ UNCHANGED parseVars

(* A line that comes while a body is waited for does not end it. *)
LineInContent(w) ==
    /\ At(w, "parse") /\ checkState = "CONTENT" /\ ~Content /\ LineOk
    /\ checked' = LineEnd
    /\ GoOn /\ UNCHANGED <<checkState, url, linger, contentLength>>

process(w) ==
    /\ \/ LineOpen(w) \/ parseRequestLine(w) \/ parseHeaders(w)
       \/ parseContent(w) \/ LineInContent(w) \/ doRequest(w)
    /\ UNCHANGED <<clientVars, event, jobs, stored, alive, buf, torn, lost, historyVars>>

------------------------------------------------------------------------------
(* handle_client_event, EPOLLOUT: write() *)

(* Mutant: init() leaves linger as it is. *)
init_KeepsLinger ==
    /\ buf' = <<>> /\ checked' = 0 /\ checkState' = "REQUESTLINE"
    /\ url' = 0 /\ UNCHANGED linger /\ contentLength' = 0
    /\ code' = "" /\ torn' = FALSE

init ==
    /\ buf' = <<>> /\ checked' = 0 /\ checkState' = "REQUESTLINE"
    /\ url' = 0 /\ linger' = FALSE /\ contentLength' = 0
    /\ code' = "" /\ torn' = FALSE

(* The answer counts as complete.  One that does not linger is armed for   *)
(* the next worker first, and closed then.                                 *)
Complete(w, whole) ==
    /\ replies' = Append(replies, [n |-> url, code |-> code, closing |-> ~linger,
                                   whole |-> whole /\ ~torn])
    /\ modFd("IN")
    /\ IF linger THEN init /\ Goto(w, "idle")
       ELSE Goto(w, "close") /\ UNCHANGED <<buf, parseVars, code, torn>>

(* bytes_to_send does not count the file, and a writev that takes half of  *)
(* the head ends the loop.                                                 *)
WriteAll(w) == space /\ Complete(w, TRUE) /\ UNCHANGED <<space, choked>>

WriteHalf(w) == space /\ Complete(w, FALSE) /\ space' = FALSE /\ choked' = TRUE

(* Less than half: the loop goes on, and sends the answer from its start.  *)
WriteLittle(w) ==
    /\ space /\ space' = FALSE /\ choked' = TRUE /\ torn' = TRUE
    /\ UNCHANGED <<pc, reg, buf, parseVars, code, replies>>

WriteAgain(w) ==
    /\ ~space /\ modFd("OUT") /\ Goto(w, "idle")
    /\ UNCHANGED <<space, buf, parseVars, code, torn, choked, replies>>

WriteFails(w) ==
    /\ fin /\ Goto(w, "close")
    /\ UNCHANGED <<reg, space, buf, parseVars, code, torn, choked, replies>>

write(w) ==
    /\ At(w, "write")
    /\ WriteAll(w) \/ WriteHalf(w) \/ WriteLittle(w) \/ WriteAgain(w) \/ WriteFails(w)
    /\ UNCHANGED <<stream, fin, event, jobs, stored, alive, lost, sent, polite>>

(* read() or write() has returned false: closeConn, and delete. *)
CloseAndDelete(w) ==
    /\ At(w, "close")
    /\ alive' = FALSE
    /\ Goto(w, "idle")
    /\ UNCHANGED <<clientVars, reactorVars, buf, parseVars, code, torn, lost, historyVars>>

(* A worker calls a function of the HttpConn, or goes on in one, after     *)
(* another has deleted it: undefined behaviour, the model ends.            *)
UseAfterDelete(w) ==
    /\ w \in Inside /\ ~alive
    /\ lost' = TRUE
    /\ UNCHANGED <<clientVars, reactorVars, pc, connVars, historyVars>>

handle_client_event(w) ==
    read(w) \/ process(w) \/ write(w) \/ CloseAndDelete(w) \/ UseAfterDelete(w)

WorkerStep(w) == TakeJob(w) \/ Accept(w) \/ add_eh(w) \/ handle_client_event(w)

Next ==
    /\ ~lost
    /\ \/ \E r \in Requests : ClientSends(r)
       \/ ClientReads \/ ClientCloses
       \/ epoll_wait \/ find_eh
       \/ \E w \in Workers : WorkerStep(w)

(* The threads are scheduled, and the client reads what it is sent, so     *)
(* that the socket does not for ever take little.                          *)
Fairness ==
    /\ WF_vars(~lost /\ ClientReads)
    /\ WF_vars(~lost /\ (epoll_wait \/ find_eh))
    /\ \A w \in Workers : WF_vars(~lost /\ WorkerStep(w))
    /\ SF_vars(~lost /\ \E w \in Workers : write(w) /\ WriteAll(w))

Spec == Init /\ [][Next]_vars
FairSpec == Spec /\ Fairness
------------------------------------------------------------------------------
(* Properties *)

(* What one-shot registration stands in for a lock for: two workers are    *)
(* never in the HttpConn at once, and none uses it after another deleted   *)
(* it.  After an answer that closes this is up to the client: write() arms *)
(* the descriptor before its caller deletes the HttpConn, and what comes   *)
(* then is handled, a next request, or the rest of a bad one.              *)
NothingComesLate == polite /\ \A i \in DOMAIN sent : sent[i].form # "bad"

OneAtATime == ~Closing \/ NothingComesLate => Cardinality(Inside) <= 1 /\ ~lost

(* A connection that is open is not forgotten: the descriptor is armed, or  *)
(* the event it reported is on its way to a worker, or one is at work in    *)
(* the HttpConn - although epoll may report before add_eh has stored the    *)
(* handler (reactor.cc:39-64, handler_io.cc:169-189).  Once the client has  *)
(* closed, event_loop drops the event; an empty file makes process give     *)
(* the descriptor up.                                                       *)
NotForgotten ==
    alive /\ ~fin /\ (\A i \in DOMAIN sent : sent[i].file # "empty")
    => \/ reg # "off" \/ event # "none" \/ jobs # <<>>
       \/ \E w \in Workers : pc[w] \notin {"idle", "store"}

Answer(r) ==
    CASE r.form = "bad" -> "400"
      [] r.form = "good" /\ r.file = "page" -> "200"
      [] r.form = "good" /\ r.file = "private" -> "403"
      [] r.form = "good" /\ r.file = "directory" -> "400"
      [] OTHER -> "none"

(* A client that waits for each answer gets the answers to its requests,   *)
(* one by one, each whole if the socket took all that was written: process,*)
(* init() and write() leave nothing of one request to the next.  From a    *)
(* client that does not wait init() drops requests, but no answer is given *)
(* twice or out of order.  (All up to the first answer that closes.)       *)
AnswersInOrder ==
    \A i \in DOMAIN replies :
        (\A j \in 1 .. i - 1 : ~replies[j].closing) =>
            /\ \A j \in 1 .. i - 1 : replies[j].n < replies[i].n
            /\ polite =>
                  /\ replies[i].n = i /\ replies[i].code = Answer(sent[i])
                  /\ replies[i].closing = (sent[i].form = "bad" \/ ~sent[i].keepAlive)
                  /\ replies[i].whole \/ choked

(* The part of a body that came first is not counted. *)
BodyCut == checked > 0 /\ buf # <<>> /\ buf[checked].kind = "body"

(* Requests that the code leaves without an answer, and whatever follows   *)
(* them: missing and empty files, and a line that ends in a bare line feed.*)
Unanswerable(n) == \E i \in DOMAIN sent : i <= n /\ Answer(sent[i]) = "none"

(* Every request that a client sends when it has the answer to the one     *)
(* before is answered, unless it is one of those, its body came in pieces, *)
(* or the client closed: no event is lost between the workers that arm the *)
(* descriptor, event_loop, and the handler table that add_eh fills.        *)
EveryRequestAnswered ==
    \A n \in 1 .. MaxRequests :
        Len(sent) = n /\ polite
            ~> Len(replies) >= n \/ fin \/ BodyCut \/ Unanswerable(n) \/ ~polite

=============================================================================
