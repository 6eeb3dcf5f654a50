--------------------------- MODULE HttpConn_proofs ---------------------------
(* Safety of the v0.1 HttpConn that its workers share without a lock, for  *)
(* any number of workers and requests and any size of the buffer.          *)
EXTENDS HttpConn, SequenceTheorems, FiniteSetTheorems, WellFoundedInduction, TLAPS

(* A worker between its job and the arming of the descriptor. *)
Busy(w) == pc[w] \in {"accept", "read", "parse", "respond", "write"}

AtClose(w) == pc[w] = "close"

Idle == (\A w \in Workers : ~Busy(w)) /\ event = "none" /\ jobs = <<>>

(* The right to the HttpConn is in one place: the armed descriptor, the    *)
(* event just reported, the one job, or the one worker that is busy.       *)
TokenInv ==
    /\ \A v, w \in Workers : Busy(v) /\ Busy(w) => v = w
    /\ \A w \in Workers : Busy(w) => reg = "off" /\ event = "none" /\ jobs = <<>>
    /\ event # "none" => reg = "off" /\ jobs = <<>>
    /\ jobs # <<>> => reg = "off" /\ Len(jobs) = 1

(* The client's connection has not been accepted yet. *)
Fresh == jobs = <<"listen">> \/ \E w \in Workers : pc[w] = "accept"

(* The HttpConn is being deleted, or has been. *)
Gone == (\E w \in Workers : AtClose(w)) \/ (~alive /\ ~Fresh)

(* The worker that deletes is alone, and has something to delete. *)
OneCloser ==
    \A w \in Workers : AtClose(w) => alive /\ \A v \in Workers : AtClose(v) => v = w

(* Up to the first answer that closes nothing comes once the HttpConn is   *)
(* gone; after it nothing comes from a client that waits.                  *)
GoneInv ==
    /\ ~Closing /\ Gone => Idle /\ reg = "off" /\ OneCloser
    /\ Closing /\ NothingComesLate => Idle /\ reg # "OUT" /\ stream = <<>> /\ OneCloser

(* Whoever has to write finds an answer, and while there is one to write   *)
(* nobody reads.                                                           *)
ForWriter ==
    \/ reg = "OUT" \/ event = "OUT" \/ jobs = <<"OUT">>
    \/ \E w \in Workers : pc[w] = "write"

ForReader ==
    \/ reg = "IN" \/ event = "IN" \/ jobs = <<"IN">>
    \/ \E w \in Workers : pc[w] \in {"accept", "read", "parse", "respond"}

AnswerInv ==
    /\ Fresh => code = ""
    /\ ForWriter => code # ""
    /\ ~Closing /\ code # "" => ~ForReader

(* The units that have not been dropped, whether recv has read them or not.*)
Total == Len(buf) + Len(stream)
Pending(i) == IF i <= Len(buf) THEN buf[i] ELSE stream[i - Len(buf)]

(* The request that an answer is for has been sent. *)
UrlInv ==
    /\ code # "" => url > 0
    /\ checkState # "REQUESTLINE" => url > 0
    /\ (\E w \in Workers : pc[w] = "respond") => checkState # "REQUESTLINE"
    /\ url <= Len(sent)
    /\ \A i \in 1 .. Total : Pending(i).n <= Len(sent)
    /\ \A i \in 1 .. Len(replies) : replies[i].n <= Len(sent)

(* Where the empty line of a request is. *)
EmptyAt(r) == 2 + (IF r.keepAlive THEN 1 ELSE 0) + (IF r.body THEN 1 ELSE 0)

UnitsLen(r) == EmptyAt(r) + (IF r.body THEN 2 ELSE 0)

(* What a request consists of. *)
UnitAt(r, n, i) ==
    [n |-> n,
     kind |-> IF i = 1 THEN r.form
              ELSE IF i = EmptyAt(r) THEN "empty"
              ELSE IF i > EmptyAt(r) THEN "body"
              ELSE IF i = 2 /\ r.keepAlive THEN "keep-alive" ELSE "length"]

(* The parser is where it should be in the request r, the n-th. *)
Parsed(r, n) ==
    /\ checkState = "REQUESTLINE" =>
          /\ ~linger /\ contentLength = 0
          /\ IF code = "" THEN checked = 0
             ELSE r.form = "bad" /\ url = n /\ code = "400"
    /\ checkState # "REQUESTLINE" =>
          /\ r.form = "good" /\ url = n /\ checked > 0
          /\ linger <=> r.keepAlive /\ checked > 1
          /\ contentLength = IF r.body /\ checked >= EmptyAt(r) - 1 THEN ContentLength ELSE 0
    /\ checkState = "HEADER" => checked <= EmptyAt(r) /\ (r.body => checked < EmptyAt(r))
    /\ checkState = "CONTENT" => checked >= EmptyAt(r) /\ r.body
    /\ code # "" \/ (\E w \in Workers : pc[w] = "respond") =>
          \/ r.form = "bad"
          \/ stream = <<>> /\ checked >= EmptyAt(r) /\ checkState # "REQUESTLINE"
    /\ code # "" => code = Answer(r)

(* A client that waits for its answers: what it has sent last is, as far   *)
(* as it has arrived, in the buffer, and parsed in its place.              *)
PoliteInv ==
    polite /\ ~Closing =>
        LET n == Len(sent)
        IN  /\ n = Len(replies) \/ n = Len(replies) + 1
            /\ ~Gone /\ n = Len(replies) =>
                  /\ buf = <<>> /\ stream = <<>> /\ checked = 0 /\ checkState = "REQUESTLINE"
                  /\ ~linger /\ contentLength = 0 /\ code = "" /\ ~torn
            /\ ~Gone /\ n = Len(replies) + 1 =>
                  /\ Total = UnitsLen(sent[n])
                  /\ \A i \in 1 .. Total : Pending(i) = UnitAt(sent[n], n, i)
                  /\ Parsed(sent[n], n)
                  /\ torn => choked

(* The HttpConn holds the request from s on, and has answered none of it.  *)
InRequest(s) ==
    LET r == sent[url]
        e == s - 1 + EmptyAt(r)
    IN  /\ Pending(s) = [kind |-> "good", n |-> url]
        /\ checkState = "HEADER" /\ r.body => checked < e
        /\ r.body /\ checked >= e - 1 => contentLength = ContentLength
        /\ checkState = "CONTENT" => checked >= e /\ contentLength = ContentLength
        /\ code # "" \/ (\E w \in Workers : pc[w] = "respond") =>
              Len(buf) >= s - 1 + UnitsLen(r)

(* A request that starts with a request line is there as a whole, and is   *)
(* followed by later ones only.                                            *)
WholeRequests ==
    \A i \in 1 .. Total : Pending(i).kind = "good" =>
        LET m == Pending(i).n
            r == sent[m]
        IN  /\ i - 1 + UnitsLen(r) <= Total
            /\ \A k \in 1 .. UnitsLen(r) : Pending(i - 1 + k) = UnitAt(r, m, k)
            /\ \A j \in i + UnitsLen(r) .. Total : Pending(j).n > m

(* Whatever is left is younger than all that has been answered. *)
YoungerLeft ==
    \A j \in 1 .. Len(replies) :
        /\ \A i \in 1 .. Total : replies[j].n < Pending(i).n
        /\ url > 0 => replies[j].n < url

(* The parser is before a request line, or in a request. *)
InPlace ==
    /\ checkState = "REQUESTLINE" => ~linger
    /\ checkState # "REQUESTLINE" => \E s \in 1 .. checked : InRequest(s)

(* Also for a client that does not wait. *)
OrderInv == ~Closing /\ ~Gone => WholeRequests /\ YoungerLeft /\ InPlace

(* The HttpConn is used after its deletion only after an answer that       *)
(* closes, when the client has not waited.                                 *)
LostInv == lost => Closing /\ ~NothingComesLate

ConnInv ==
    /\ TypeOK /\ TokenInv /\ GoneInv /\ AnswerInv /\ UrlInv /\ PoliteInv
    /\ OrderInv /\ AnswersInOrder /\ LostInv

------------------------------------------------------------------------------
(* The sequence of the units of a request. *)
LEMMA UnitsFacts ==
    ASSUME NEW r \in AllRequests, NEW n \in 1 .. MaxRequests
    PROVE  /\ Units(r, n) \in Seq(UnitSet) /\ Len(Units(r, n)) = UnitsLen(r)
           /\ \A i \in 1 .. UnitsLen(r) : Units(r, n)[i] = UnitAt(r, n, i)
  <1> DEFINE Unit(kind) == [kind |-> kind, n |-> n]
             ka == IF r.keepAlive THEN <<Unit("keep-alive")>> ELSE <<>>
             le == IF r.body THEN <<Unit("length")>> ELSE <<>>
             bo == IF r.body THEN <<Unit("body"), Unit("body")>> ELSE <<>>
             em == <<Unit("empty")>>
             s1 == <<Unit(r.form)>>
             s2 == s1 \o ka
             s3 == s2 \o le
             s4 == s3 \o em
             s5 == s4 \o bo
  <1>1. Units(r, n) = s5
    BY DEF Units
  <1>2. \A k \in {"good", "bad", "bare", "keep-alive", "length", "empty", "body"} :
           Unit(k) \in UnitSet /\ Unit(k).n = n /\ Unit(k).kind = k
    BY DEF UnitSet
  <1>3. r.form \in {"good", "bad", "bare"} /\ r.keepAlive \in BOOLEAN /\ r.body \in BOOLEAN
    BY DEF AllRequests
  <1> HIDE DEF Unit
  <1>4. /\ s1 \in Seq(UnitSet) /\ Len(s1) = 1 /\ s1[1] = Unit(r.form)
        /\ ka \in Seq(UnitSet) /\ Len(ka) = (IF r.keepAlive THEN 1 ELSE 0)
        /\ r.keepAlive => ka[1] = Unit("keep-alive")
        /\ le \in Seq(UnitSet) /\ Len(le) = (IF r.body THEN 1 ELSE 0)
        /\ r.body => le[1] = Unit("length")
        /\ em \in Seq(UnitSet) /\ Len(em) = 1 /\ em[1] = Unit("empty")
        /\ bo \in Seq(UnitSet) /\ Len(bo) = (IF r.body THEN 2 ELSE 0)
        /\ r.body => bo[1] = Unit("body") /\ bo[2] = Unit("body")
    BY <1>2, <1>3
  <1> HIDE DEF s1, ka, le, bo, em
  <1>5. /\ s2 \in Seq(UnitSet) /\ Len(s2) = Len(s1) + Len(ka)
        /\ \A i \in 1 .. Len(s1) + Len(ka) : s2[i] = IF i <= Len(s1) THEN s1[i] ELSE ka[i - Len(s1)]
    <2>1. s1 \in Seq(UnitSet) /\ ka \in Seq(UnitSet)
      BY <1>4
    <2> QED BY <2>1, ConcatProperties
  <1> HIDE DEF s2
  <1>7. /\ s3 \in Seq(UnitSet) /\ Len(s3) = Len(s2) + Len(le)
        /\ \A i \in 1 .. Len(s2) + Len(le) : s3[i] = IF i <= Len(s2) THEN s2[i] ELSE le[i - Len(s2)]
    <2>1. s2 \in Seq(UnitSet) /\ le \in Seq(UnitSet)
      BY <1>4, <1>5
    <2> QED BY <2>1, ConcatProperties
  <1> HIDE DEF s3
  <1>8. /\ s4 \in Seq(UnitSet) /\ Len(s4) = Len(s3) + Len(em)
        /\ \A i \in 1 .. Len(s3) + Len(em) : s4[i] = IF i <= Len(s3) THEN s3[i] ELSE em[i - Len(s3)]
    <2>1. s3 \in Seq(UnitSet) /\ em \in Seq(UnitSet)
      BY <1>4, <1>7
    <2> QED BY <2>1, ConcatProperties
  <1> HIDE DEF s4
  <1>9. /\ s5 \in Seq(UnitSet) /\ Len(s5) = Len(s4) + Len(bo)
        /\ \A i \in 1 .. Len(s4) + Len(bo) : s5[i] = IF i <= Len(s4) THEN s4[i] ELSE bo[i - Len(s4)]
    <2>1. s4 \in Seq(UnitSet) /\ bo \in Seq(UnitSet)
      BY <1>4, <1>8
    <2> QED BY <2>1, ConcatProperties
  <1> HIDE DEF s5
  <1>10. Len(s5) = UnitsLen(r)
    BY <1>3, <1>4, <1>5, <1>7, <1>8, <1>9 DEF UnitsLen, EmptyAt
  <1>11. ASSUME NEW i \in 1 .. UnitsLen(r) PROVE s5[i] = UnitAt(r, n, i)
    <2>1. \A k \in {"good", "bad", "bare", "keep-alive", "length", "empty", "body"} :
             Unit(k) = [n |-> n, kind |-> k]
      BY DEF Unit
    <2>3. CASE r.keepAlive /\ r.body
      BY <1>3, <1>4, <1>5, <1>7, <1>8, <1>9, <2>1, <2>3 DEF UnitsLen, EmptyAt, UnitAt
    <2>4. CASE r.keepAlive /\ ~r.body
      BY <1>3, <1>4, <1>5, <1>7, <1>8, <1>9, <2>1, <2>4 DEF UnitsLen, EmptyAt, UnitAt
    <2>5. CASE ~r.keepAlive /\ r.body
      BY <1>3, <1>4, <1>5, <1>7, <1>8, <1>9, <2>1, <2>5 DEF UnitsLen, EmptyAt, UnitAt
    <2>6. CASE ~r.keepAlive /\ ~r.body
      BY <1>3, <1>4, <1>5, <1>7, <1>8, <1>9, <2>1, <2>6 DEF UnitsLen, EmptyAt, UnitAt
    <2> QED BY <1>3, <2>3, <2>4, <2>5, <2>6
  <1> QED BY <1>1, <1>9, <1>10, <1>11

(* Every nonempty set of natural numbers has a least element. *)
LEMMA LeastNatural ==
    ASSUME NEW T \in SUBSET Nat, T # {}
    PROVE  \E x \in T : \A y \in T : x <= y
  <1> DEFINE R == OpToRel(<, Nat)
  <1>1. IsWellFoundedOn(R, Nat)
    BY NatLessThanWellFounded
  <1> HIDE DEF R
  <1>2. PICK x \in T : \A y \in T : <<y, x>> \notin R
    BY <1>1, WFMin
  <1>3. ASSUME NEW y \in T, y < x PROVE FALSE
    <2>1. <<y, x>> \in R
      BY <1>3 DEF R, OpToRel
    <2> QED BY <1>2, <2>1
  <1> QED BY <1>2, <1>3

(* parseLine finds the first unit behind checkedIdx that ends a line. *)
LEMMA LineFacts ==
    ASSUME TypeOK, LineEnds # {}
    PROVE  /\ LineEnd \in checked + 1 .. Len(buf) /\ buf[LineEnd].kind # "body"
           /\ \A j \in checked + 1 .. Len(buf) : buf[j].kind # "body" => LineEnd <= j
           /\ checked \in Nat /\ Len(buf) \in Nat
  <1>1. checked \in Nat /\ Len(buf) \in Nat
    <2>1. buf \in Seq(UnitSet) /\ checked \in 0 .. Len(buf)
      BY DEF TypeOK
    <2>2. Len(buf) \in Nat
      BY <2>1, LenProperties
    <2> QED BY <2>1, <2>2
  <1>2. LineEnds \subseteq Nat
    BY <1>1 DEF LineEnds
  <1>3. \E i \in LineEnds : \A j \in LineEnds : i <= j
    BY <1>2, LeastNatural
  <1>4. LineEnd \in LineEnds /\ \A j \in LineEnds : LineEnd <= j
    BY <1>3 DEF LineEnd
  <1> QED BY <1>1, <1>4 DEF LineEnds

(* What recv takes from the stream goes to the end of the buffer. *)
LEMMA ReadFacts ==
    ASSUME TypeOK, NEW n \in 0 .. Len(stream)
    PROVE  LET all == buf \o SubSeq(stream, 1, n)
               rest == SubSeq(stream, n + 1, Len(stream))
           IN  /\ Len(buf) \in Nat /\ Len(stream) \in Nat /\ n \in Nat
               /\ all \in Seq(UnitSet) /\ Len(all) = Len(buf) + n
               /\ \A i \in 1 .. Len(all) :
                     all[i] = IF i <= Len(buf) THEN buf[i] ELSE stream[i - Len(buf)]
               /\ rest \in Seq(UnitSet) /\ Len(rest) = Len(stream) - n
               /\ \A i \in 1 .. Len(rest) : rest[i] = stream[n + i]
  <1> DEFINE got == SubSeq(stream, 1, n)
             rest == SubSeq(stream, n + 1, Len(stream))
  <1>1. /\ buf \in Seq(UnitSet) /\ stream \in Seq(UnitSet)
        /\ Len(buf) \in Nat /\ Len(stream) \in Nat /\ n \in Nat
    <2>1. buf \in Seq(UnitSet) /\ stream \in Seq(UnitSet)
      BY DEF TypeOK
    <2>2. Len(buf) \in Nat /\ Len(stream) \in Nat
      BY <2>1, LenProperties
    <2> QED BY <2>1, <2>2
  <1>2. \A i \in 1 .. Len(stream) : stream[i] \in UnitSet
    BY <1>1, ElementOfSeq
  <1>3. /\ got \in Seq(UnitSet) /\ Len(got) = n /\ \A i \in 1 .. n : got[i] = stream[i]
    <2>1. \A i \in 1 .. n : stream[i] \in UnitSet
      BY <1>1, <1>2
    <2> QED BY <1>1, <2>1, SubSeqProperties
  <1>4. /\ rest \in Seq(UnitSet) /\ Len(rest) = Len(stream) - n
        /\ \A i \in 1 .. Len(stream) - n : rest[i] = stream[n + i]
    <2>1. \A i \in n + 1 .. Len(stream) : stream[i] \in UnitSet
      BY <1>1, <1>2
    <2>2. /\ rest \in Seq(UnitSet)
          /\ Len(rest) = IF n + 1 <= Len(stream) THEN Len(stream) - (n + 1) + 1 ELSE 0
          /\ \A i \in 1 .. Len(stream) - (n + 1) + 1 : rest[i] = stream[n + 1 + i - 1]
      BY <1>1, <2>1, SubSeqProperties
    <2> QED BY <1>1, <2>2
  <1> HIDE DEF got, rest
  <1>5. /\ buf \o got \in Seq(UnitSet) /\ Len(buf \o got) = Len(buf) + n
        /\ \A i \in 1 .. Len(buf) + n :
              (buf \o got)[i] = IF i <= Len(buf) THEN buf[i] ELSE got[i - Len(buf)]
    BY <1>1, <1>3, ConcatProperties
  <1>6. \A i \in 1 .. Len(buf) + n :
           (buf \o got)[i] = IF i <= Len(buf) THEN buf[i] ELSE stream[i - Len(buf)]
    BY <1>1, <1>3, <1>5
  <1> QED BY <1>1, <1>4, <1>5, <1>6 DEF got, rest

------------------------------------------------------------------------------
(* Who has the right to the HttpConn *)

(* The steps of a worker that is in the HttpConn, as control sees them: it *)
(* goes on, or it arms the descriptor and leaves.                          *)
LEMMA WorkerControl ==
    ASSUME TypeOK, NEW w \in Workers, handle_client_event(w)
    PROVE  /\ UNCHANGED <<event, jobs, stored>>
           /\ \/ pc' = pc /\ reg' = reg
              \/ /\ Busy(w) /\ reg' = reg
                 /\ \E x \in {"parse", "respond", "close", "idle"} : pc' = [pc EXCEPT ![w] = x]
              \/ /\ Busy(w) /\ reg' \in {"IN", "OUT"}
                 /\ \E x \in {"idle", "close"} : pc' = [pc EXCEPT ![w] = x]
              \/ AtClose(w) /\ reg' = reg /\ pc' = [pc EXCEPT ![w] = "idle"]
  <1> USE DEF Goto, At, modFd, reactorVars, connVars, parseVars, historyVars, clientVars
  <1>1. CASE read(w)
    BY <1>1 DEF read, Busy
  <1>2. CASE process(w)
    <2>1. UNCHANGED <<event, jobs, stored>>
      BY <1>2 DEF process
    <2>2. CASE LineOpen(w)
      BY <2>1, <2>2 DEF LineOpen, NeedMore, Busy
    <2>3. CASE parseRequestLine(w)
      BY <2>1, <2>3 DEF parseRequestLine, GoOn, processWrite, Busy
    <2>4. CASE parseHeaders(w)
      BY <2>1, <2>4 DEF parseHeaders, GoOn, GetRequest, Busy
    <2>5. CASE parseContent(w) \/ LineInContent(w)
      BY <2>1, <2>5 DEF parseContent, LineInContent, GoOn, GetRequest, Busy
    <2>6. CASE doRequest(w)
      BY <2>1, <2>6 DEF doRequest, NeedMore, processWrite, WelcomeFails, Busy
    <2> QED BY <1>2, <2>2, <2>3, <2>4, <2>5, <2>6 DEF process
  <1>3. CASE write(w)
    <2>1. UNCHANGED <<event, jobs, stored>> /\ pc[w] = "write"
      BY <1>3 DEF write
    <2>2. CASE WriteAll(w) \/ WriteHalf(w)
      BY <2>1, <2>2 DEF WriteAll, WriteHalf, Complete, Busy
    <2>3. CASE WriteLittle(w) \/ WriteAgain(w) \/ WriteFails(w)
      BY <2>1, <2>3 DEF WriteLittle, WriteAgain, WriteFails, Busy
    <2> QED BY <1>3, <2>2, <2>3 DEF write
  <1>4. CASE CloseAndDelete(w)
    BY <1>4 DEF CloseAndDelete, AtClose
  <1>5. CASE UseAfterDelete(w)
    BY <1>5 DEF UseAfterDelete
  <1> QED BY <1>1, <1>2, <1>3, <1>4, <1>5 DEF handle_client_event

(* The one job of a pool that has a job. *)
LEMMA OneJob ==
    ASSUME TypeOK, TokenInv, jobs # <<>>
    PROVE  /\ Head(jobs) \in {"listen", "IN", "OUT"} /\ Tail(jobs) = <<>>
           /\ jobs = <<Head(jobs)>>
  <1>1. jobs \in Seq({"listen", "IN", "OUT"}) /\ Len(jobs) = 1
    BY DEF TypeOK, TokenInv
  <1>2. /\ Head(jobs) \in {"listen", "IN", "OUT"}
        /\ Tail(jobs) \in Seq({"listen", "IN", "OUT"}) /\ Len(Tail(jobs)) = 0
    BY <1>1, HeadTailProperties
  <1>3. Tail(jobs) = <<>>
    BY <1>2, EmptySeq
  <1>4. jobs = <<Head(jobs)>>
    BY <1>1, <1>2
  <1> QED BY <1>2, <1>3, <1>4

(* The right is handed on, and never doubled. *)
LEMMA TokenStep ==
    ASSUME TypeOK, TokenInv, [Next]_vars
    PROVE  TokenInv'
  <1> USE DEF reactorVars, connVars, parseVars, historyVars, clientVars
  <1>0. /\ pc \in [Workers -> {"idle", "accept", "store"} \cup Places]
        /\ jobs \in Seq({"listen", "IN", "OUT"})
    BY DEF TypeOK
  <1>1. ASSUME UNCHANGED <<reg, event, jobs, pc>> PROVE TokenInv'
    BY <1>1 DEF TokenInv, Busy
  <1>2. CASE epoll_wait
    BY <1>2 DEF epoll_wait, TokenInv, Busy
  <1>3. CASE find_eh
    <2>1. jobs = <<>> /\ event' = "none" /\ reg' = reg /\ pc' = pc /\ event # "none" /\ reg = "off"
      BY <1>3 DEF find_eh, TokenInv
    <2>2. jobs' = <<>> \/ jobs' = <<event>>
      BY <1>3, <2>1 DEF find_eh
    <2> QED BY <2>1, <2>2 DEF TokenInv, Busy
  <1>4. ASSUME NEW w \in Workers, TakeJob(w) PROVE TokenInv'
    <2>1. jobs' = <<>> /\ UNCHANGED <<reg, event>> /\ jobs # <<>>
      BY <1>4, OneJob DEF TakeJob
    <2>2. \A v \in Workers : v # w => pc'[v] = pc[v]
      BY <1>0, <1>4 DEF TakeJob
    <2> QED BY <2>1, <2>2 DEF TokenInv, Busy
  <1>5. ASSUME NEW w \in Workers, Accept(w) PROVE TokenInv'
    BY <1>0, <1>5 DEF Accept, TokenInv, Busy
  <1>6. ASSUME NEW w \in Workers, add_eh(w) PROVE TokenInv'
    BY <1>0, <1>6 DEF add_eh, TokenInv, Busy
  <1>7. ASSUME NEW w \in Workers, handle_client_event(w) PROVE TokenInv'
    <2>1. UNCHANGED <<event, jobs>>
      BY <1>7, WorkerControl
    <2>2. CASE UNCHANGED <<reg, pc>>
      BY <1>1, <2>1, <2>2
    <2>3. CASE /\ Busy(w) /\ reg' \in {reg, "IN", "OUT"}
               /\ \E x \in {"idle", "close"} : pc' = [pc EXCEPT ![w] = x]
      BY <1>0, <2>1, <2>3 DEF TokenInv, Busy
    <2>4. CASE Busy(w) /\ reg' = reg /\ \E x \in {"parse", "respond"} : pc' = [pc EXCEPT ![w] = x]
      BY <1>0, <2>1, <2>4 DEF TokenInv, Busy
    <2>5. CASE AtClose(w) /\ reg' = reg /\ pc' = [pc EXCEPT ![w] = "idle"]
      BY <1>0, <2>1, <2>5 DEF TokenInv, Busy, AtClose
    <2> QED BY <1>7, <2>2, <2>3, <2>4, <2>5, WorkerControl
  <1>8. CASE ClientReads \/ ClientCloses
    BY <1>1, <1>8 DEF ClientReads, ClientCloses
  <1>9. ASSUME NEW r \in Requests, ClientSends(r) PROVE TokenInv'
    BY <1>1, <1>9 DEF ClientSends
  <1>10. CASE UNCHANGED vars
    BY <1>1, <1>10 DEF vars
  <1> QED BY <1>2, <1>3, <1>4, <1>5, <1>6, <1>7, <1>8, <1>9, <1>10 DEF Next, WorkerStep

------------------------------------------------------------------------------
(* The types *)

(* A new request goes to the end of the stream. *)
LEMMA SendFacts ==
    ASSUME TypeOK, NEW r \in Requests, Len(sent) < MaxRequests
    PROVE  LET n == Len(sent) + 1
               all == stream \o Units(r, n)
           IN  /\ r \in AllRequests /\ n \in 1 .. MaxRequests /\ n \in Nat
               /\ Len(sent) \in Nat /\ Len(stream) \in Nat
               /\ all \in Seq(UnitSet) /\ Len(all) = Len(stream) + UnitsLen(r)
               /\ \A i \in 1 .. Len(all) :
                     all[i] = IF i <= Len(stream) THEN stream[i]
                              ELSE UnitAt(r, n, i - Len(stream))
               /\ Append(sent, r) \in Seq(Requests) /\ Len(Append(sent, r)) = n
               /\ Append(sent, r)[n] = r
               /\ \A i \in 1 .. Len(sent) : Append(sent, r)[i] = sent[i]
  <1> DEFINE n == Len(sent) + 1
  <1>1. r \in AllRequests
    BY RequestsAssumption
  <1>2. stream \in Seq(UnitSet) /\ sent \in Seq(Requests)
    BY DEF TypeOK
  <1>3. Len(stream) \in Nat /\ Len(sent) \in Nat
    BY <1>2, LenProperties
  <1>4. n \in 1 .. MaxRequests /\ n \in Nat
    BY <1>3, SizeAssumption
  <1> HIDE DEF n
  <1>5. /\ Units(r, n) \in Seq(UnitSet) /\ Len(Units(r, n)) = UnitsLen(r)
        /\ \A i \in 1 .. UnitsLen(r) : Units(r, n)[i] = UnitAt(r, n, i)
    BY <1>1, <1>4, UnitsFacts
  <1>6. UnitsLen(r) \in Nat
    BY <1>1 DEF UnitsLen, EmptyAt
  <1>7. LET all == stream \o Units(r, n)
        IN  /\ all \in Seq(UnitSet) /\ Len(all) = Len(stream) + UnitsLen(r)
            /\ \A i \in 1 .. Len(stream) + UnitsLen(r) :
                  all[i] = IF i <= Len(stream) THEN stream[i] ELSE Units(r, n)[i - Len(stream)]
    <2>1. /\ stream \o Units(r, n) \in Seq(UnitSet)
          /\ Len(stream \o Units(r, n)) = Len(stream) + Len(Units(r, n))
          /\ \A i \in 1 .. Len(stream) + Len(Units(r, n)) :
                (stream \o Units(r, n))[i] =
                    IF i <= Len(stream) THEN stream[i] ELSE Units(r, n)[i - Len(stream)]
      BY <1>2, <1>5, ConcatProperties
    <2> QED BY <1>5, <2>1
  <1>8. \A i \in 1 .. Len(stream) + UnitsLen(r) :
           i > Len(stream) => Units(r, n)[i - Len(stream)] = UnitAt(r, n, i - Len(stream))
    BY <1>3, <1>5, <1>6
  <1>9. /\ Append(sent, r) \in Seq(Requests) /\ Len(Append(sent, r)) = Len(sent) + 1
        /\ Append(sent, r)[Len(sent) + 1] = r
        /\ \A i \in 1 .. Len(sent) : Append(sent, r)[i] = sent[i]
    BY <1>2, AppendProperties
  <1>10. LET all == stream \o Units(r, n)
         IN  \A i \in 1 .. Len(all) :
                all[i] = IF i <= Len(stream) THEN stream[i] ELSE UnitAt(r, n, i - Len(stream))
    BY <1>3, <1>6, <1>7, <1>8
  <1> QED BY <1>1, <1>3, <1>4, <1>7, <1>9, <1>10 DEF n

(* An answer is added to the history. *)
ReplyType == [n : 1 .. MaxRequests, code : {"200", "400", "403"},
              whole : BOOLEAN, closing : BOOLEAN]

(* The history is one answer longer, and the new answer is its last.        *)
LEMMA ReplyFacts ==
    ASSUME TypeOK, NEW a \in ReplyType, replies' = Append(replies, a)
    PROVE  /\ replies' \in Seq(ReplyType) /\ Len(replies) \in Nat
           /\ Len(replies') = Len(replies) + 1 /\ replies'[Len(replies) + 1] = a
           /\ \A i \in 1 .. Len(replies) : replies'[i] = replies[i]
           /\ DOMAIN replies = 1 .. Len(replies) /\ DOMAIN replies' = 1 .. Len(replies) + 1
           /\ Closing' <=> Closing \/ a.closing
  <1>1. replies \in Seq(ReplyType)
    BY DEF TypeOK, ReplyType
  <1>2. /\ replies' \in Seq(ReplyType) /\ Len(replies) \in Nat
        /\ Len(replies') = Len(replies) + 1 /\ replies'[Len(replies) + 1] = a
        /\ \A i \in 1 .. Len(replies) : replies'[i] = replies[i]
    BY <1>1, AppendProperties, LenProperties
  <1>3. DOMAIN replies = 1 .. Len(replies) /\ DOMAIN replies' = 1 .. Len(replies) + 1
    BY <1>1, <1>2, LenProperties
  <1>4. Closing' <=> Closing \/ a.closing
    BY <1>2, <1>3 DEF Closing
  <1> QED BY <1>2, <1>3, <1>4

(* write() adds the answer that was to be written. *)
LEMMA CompleteFacts ==
    ASSUME TypeOK, AnswerInv, UrlInv, NEW w \in Workers, At(w, "write"),
           NEW b \in BOOLEAN, Complete(w, b)
    PROVE  \E a \in ReplyType :
              /\ replies' = Append(replies, a) /\ a.n = url /\ a.code = code
              /\ a.closing = ~linger /\ a.whole = (b /\ ~torn)
  <1>1. code # "" /\ url > 0
    BY DEF AnswerInv, UrlInv, ForWriter, At
  <1>2. /\ url \in 1 .. MaxRequests /\ code \in {"200", "400", "403"}
        /\ linger \in BOOLEAN /\ torn \in BOOLEAN
    <2>1. url \in 0 .. MaxRequests /\ code \in {"", "200", "400", "403"}
      BY DEF TypeOK
    <2>2. linger \in BOOLEAN /\ torn \in BOOLEAN
      BY DEF TypeOK
    <2>3. url \in 1 .. MaxRequests
      <3>1. MaxRequests \in Nat
        BY SizeAssumption
      <3>2. \A m \in Nat : \A u \in 0 .. m : u > 0 => u \in 1 .. m
        OBVIOUS
      <3> QED BY <1>1, <2>1, <3>1, <3>2
    <2> QED BY <1>1, <2>1, <2>2, <2>3
  <1> DEFINE a == [n |-> url, code |-> code, closing |-> ~linger, whole |-> b /\ ~torn]
  <1>3. a \in ReplyType
    BY <1>2 DEF ReplyType
  <1>4. replies' = Append(replies, a)
    BY DEF Complete
  <1> QED BY <1>3, <1>4

(* TypeOK in parts, as the steps touch it. *)
UnitsType == stream \in Seq(UnitSet) /\ buf \in Seq(UnitSet)

FlagsType ==
    /\ fin \in BOOLEAN /\ space \in BOOLEAN /\ stored \in BOOLEAN
    /\ alive \in BOOLEAN /\ linger \in BOOLEAN /\ torn \in BOOLEAN
    /\ lost \in BOOLEAN /\ polite \in BOOLEAN /\ choked \in BOOLEAN

ControlType ==
    /\ reg \in {"IN", "OUT", "off"} /\ event \in {"IN", "OUT", "none"}
    /\ jobs \in Seq({"listen", "IN", "OUT"})
    /\ pc \in [Workers -> {"idle", "accept", "store"} \cup Places]

ParseType ==
    /\ Len(buf) < ReadSize /\ checked \in 0 .. Len(buf)
    /\ checkState \in {"REQUESTLINE", "HEADER", "CONTENT"}
    /\ url \in 0 .. MaxRequests /\ contentLength \in {0, ContentLength}
    /\ code \in {"", "200", "400", "403"}

HistoryType == sent \in Seq(Requests) /\ replies \in Seq(ReplyType)

(* The types in groups of variables that the same actions change.           *)
LEMMA TypeParts ==
    TypeOK <=> UnitsType /\ FlagsType /\ ControlType /\ ParseType /\ HistoryType
  BY DEF TypeOK, UnitsType, FlagsType, ControlType, ParseType, HistoryType, ReplyType

(* The same of the next state. *)
LEMMA TypePartsNext ==
    TypeOK' <=> UnitsType' /\ FlagsType' /\ ControlType' /\ ParseType' /\ HistoryType'
  BY DEF TypeOK, UnitsType, FlagsType, ControlType, ParseType, HistoryType, ReplyType

(* Every action keeps the types; the handlers need the token, for the code  *)
(* of the answer, and the url, for the request it stands for.               *)
LEMMA TypeStep ==
    ASSUME TypeOK, TokenInv, AnswerInv, UrlInv, [Next]_vars
    PROVE  TypeOK'
  <1> USE DEF reactorVars, connVars, parseVars, historyVars, clientVars
  <1>0. UnitsType /\ FlagsType /\ ControlType /\ ParseType /\ HistoryType
    BY TypeParts
  <1>a. UNCHANGED <<stream, buf>> => UnitsType'
    BY <1>0 DEF UnitsType
  <1>b. UNCHANGED <<reg, event, jobs, pc>> => ControlType'
    BY <1>0 DEF ControlType
  <1>c. UNCHANGED <<buf, checked, checkState, url, contentLength, code>> => ParseType'
    BY <1>0 DEF ParseType
  <1>d. UNCHANGED <<sent, replies>> => HistoryType'
    BY <1>0 DEF HistoryType
  <1>1. ASSUME NEW r \in Requests, ClientSends(r) PROVE TypeOK'
    <2>1. stream' \in Seq(UnitSet) /\ sent' \in Seq(Requests)
      <3>1. Len(sent) < MaxRequests
        BY <1>1 DEF ClientSends
      <3>2. stream' = stream \o Units(r, Len(sent) + 1) /\ sent' = Append(sent, r)
        BY <1>1 DEF ClientSends
      <3> QED BY <3>1, <3>2, SendFacts
    <2>2. UnitsType' /\ HistoryType'
      BY <1>0, <1>1, <2>1 DEF ClientSends, UnitsType, HistoryType
    <2>3. FlagsType'
      BY <1>0, <1>1 DEF ClientSends, FlagsType
    <2> QED BY <1>1, <1>b, <1>c, <2>2, <2>3, TypePartsNext DEF ClientSends
  <1>2. CASE ClientReads \/ ClientCloses \/ UNCHANGED vars
    <2>1. FlagsType'
      <3>1. CASE ClientReads
        BY <1>0, <3>1 DEF ClientReads, FlagsType
      <3>2. CASE ClientCloses
        BY <1>0, <3>2 DEF ClientCloses, FlagsType
      <3>3. CASE UNCHANGED vars
        BY <1>0, <3>3 DEF vars, FlagsType
      <3> QED BY <1>2, <3>1, <3>2, <3>3
    <2>2. UNCHANGED <<stream, buf, reg, event, jobs, pc, checked, checkState, url,
                      contentLength, code, sent, replies>>
      BY <1>2 DEF ClientReads, ClientCloses, vars
    <2> QED BY <1>a, <1>b, <1>c, <1>d, <2>1, <2>2, TypePartsNext
  <1>3. ASSUME UNCHANGED <<clientVars, parseVars, buf, code, torn, lost, historyVars>>,
               ControlType', stored' \in BOOLEAN, alive' \in BOOLEAN
        PROVE  TypeOK'
    <2>1. FlagsType'
      BY <1>0, <1>3 DEF FlagsType
    <2>2. UNCHANGED <<stream, buf, checked, checkState, url, contentLength, code, sent, replies>>
      BY <1>3
    <2> QED BY <1>3, <1>a, <1>c, <1>d, <2>1, <2>2, TypePartsNext
  <1>4. CASE epoll_wait
    <2>1. ControlType'
      BY <1>0, <1>4 DEF epoll_wait, ControlType
    <2> QED BY <1>0, <1>3, <1>4, <2>1 DEF epoll_wait, FlagsType
  <1>5. CASE find_eh
    <2>1. event \in {"listen", "IN", "OUT"} /\ jobs \in Seq({"listen", "IN", "OUT"})
      BY <1>0, <1>5 DEF find_eh, ControlType
    <2>2. Append(jobs, event) \in Seq({"listen", "IN", "OUT"})
      BY <2>1, AppendProperties
    <2>3. jobs' \in Seq({"listen", "IN", "OUT"})
      BY <1>5, <2>1, <2>2 DEF find_eh
    <2>4. ControlType'
      BY <1>0, <1>5, <2>3 DEF find_eh, ControlType
    <2> QED BY <1>0, <1>3, <1>5, <2>4 DEF find_eh, FlagsType
  <1>6. ASSUME NEW w \in Workers, TakeJob(w) PROVE TypeOK'
    <2>1. Head(jobs) \in {"listen", "IN", "OUT"} /\ jobs' = <<>>
      BY <1>6, OneJob DEF TakeJob
    <2>2. jobs' \in Seq({"listen", "IN", "OUT"})
      BY <2>1, EmptySeq
    <2>3. \E x \in {"accept", "read", "write"} : pc' = [pc EXCEPT ![w] = x]
      BY <1>6, <2>1 DEF TakeJob
    <2>4. ControlType'
      BY <1>0, <1>6, <2>2, <2>3 DEF TakeJob, ControlType, Places
    <2> QED BY <1>0, <1>3, <1>6, <2>4 DEF TakeJob, FlagsType
  <1>7. ASSUME NEW w \in Workers, Accept(w) \/ add_eh(w) PROVE TypeOK'
    <2>1. ControlType'
      BY <1>0, <1>7 DEF Accept, add_eh, ControlType
    <2> QED BY <1>0, <1>3, <1>7, <2>1 DEF Accept, add_eh, FlagsType
  <1>8. ASSUME NEW w \in Workers, handle_client_event(w) PROVE TypeOK'
    <2>1. ControlType' /\ stored' \in BOOLEAN
      <3>1. UNCHANGED <<event, jobs, stored>> /\ reg' \in {reg, "IN", "OUT"}
            /\ (pc' = pc \/ \E x \in {"parse", "respond", "close", "idle"} : pc' = [pc EXCEPT ![w] = x])
        BY <1>8, WorkerControl
      <3>2. /\ reg' \in {"IN", "OUT", "off"}
            /\ pc' \in [Workers -> {"idle", "accept", "store"} \cup Places]
        BY <1>0, <3>1 DEF ControlType, Places
      <3> QED BY <1>0, <3>1, <3>2 DEF ControlType, FlagsType
    <2>2. CASE read(w)
      <3>1. UnitsType' /\ ParseType'
        <4>1. PICK n \in 0 .. Len(stream) :
                 /\ stream' = SubSeq(stream, n + 1, Len(stream))
                 /\ \/ /\ Len(buf \o SubSeq(stream, 1, n)) < ReadSize
                       /\ buf' = buf \o SubSeq(stream, 1, n)
                    \/ buf' = buf
          BY <2>2 DEF read
        <4> DEFINE all == buf \o SubSeq(stream, 1, n)
        <4>2. /\ all \in Seq(UnitSet) /\ Len(all) = Len(buf) + n
              /\ Len(buf) \in Nat /\ n \in Nat /\ stream' \in Seq(UnitSet)
          BY <4>1, ReadFacts
        <4>3. buf' = buf \/ (buf' = all /\ Len(all) < ReadSize)
          BY <4>1
        <4> HIDE DEF all
        <4>4. UNCHANGED <<checked, checkState, url, contentLength, code>>
          BY <2>2 DEF read
        <4>5. CASE buf' = buf
          BY <1>0, <4>2, <4>4, <4>5 DEF UnitsType, ParseType
        <4>6. CASE buf' = all /\ Len(all) < ReadSize
          <5>1. checked \in 0 .. Len(all)
            <6>1. checked \in 0 .. Len(buf)
              BY <1>0 DEF ParseType
            <6> QED BY <4>2, <6>1
          <5> QED BY <1>0, <4>2, <4>4, <4>6, <5>1 DEF UnitsType, ParseType
        <4> QED BY <4>3, <4>5, <4>6
      <3>2. FlagsType' /\ UNCHANGED <<sent, replies>>
        BY <1>0, <2>2 DEF read, FlagsType
      <3> QED BY <1>d, <2>1, <3>1, <3>2, TypePartsNext
    <2>3. CASE process(w)
      <3>1. UNCHANGED <<stream, buf, fin, space, torn, lost, alive, polite, choked, sent, replies>>
        BY <2>3 DEF process
      <3>2. ASSUME checked' \in 0 .. Len(buf),
                   checkState' \in {"REQUESTLINE", "HEADER", "CONTENT"},
                   url' \in 0 .. MaxRequests, linger' \in BOOLEAN,
                   contentLength' \in {0, ContentLength}, code' \in {"", "200", "400", "403"}
            PROVE  TypeOK'
        <4>1. FlagsType'
          BY <1>0, <2>1, <3>1, <3>2 DEF FlagsType
        <4>2. ParseType'
          BY <1>0, <3>1, <3>2 DEF ParseType
        <4> QED BY <1>a, <1>d, <2>1, <3>1, <4>1, <4>2, TypePartsNext
      <3>3. /\ checked \in 0 .. Len(buf) /\ url \in 0 .. MaxRequests /\ linger \in BOOLEAN
            /\ contentLength \in {0, ContentLength} /\ code \in {"", "200", "400", "403"}
            /\ checkState \in {"REQUESTLINE", "HEADER", "CONTENT"} /\ buf \in Seq(UnitSet)
        BY <1>0 DEF ParseType, FlagsType, UnitsType
      <3>4. checked \in Nat /\ Len(buf) \in Nat
        <4>1. Len(buf) \in Nat
          BY <3>3, LenProperties
        <4>2. checked \in 0 .. Len(buf)
          BY <3>3
        <4>3. \A m \in Nat : \A u \in 0 .. m : u \in Nat
          OBVIOUS
        <4> QED BY <4>1, <4>2, <4>3
      <3>5. LineEnds # {} => LineEnd \in 0 .. Len(buf) /\ LineEnd - 1 \in 0 .. Len(buf)
                             /\ checked + 1 \in 1 .. Len(buf)
        BY <3>4, LineFacts
      <3>6. CASE LineOpen(w)
        <4>1. checked' \in 0 .. Len(buf)
          BY <3>4, <3>5, <3>6 DEF LineOpen
        <4> QED BY <3>2, <3>3, <3>6, <4>1 DEF LineOpen, NeedMore
      <3>7. CASE parseRequestLine(w)
        <4>1. checked' \in 0 .. Len(buf) /\ checked + 1 \in 1 .. Len(buf)
          BY <3>5, <3>7 DEF parseRequestLine, LineOk
        <4>2. buf[checked + 1] \in UnitSet
          BY <3>3, <4>1, ElementOfSeq
        <4>3. url' \in 0 .. MaxRequests
          BY <3>7, <4>2, SizeAssumption DEF parseRequestLine, UnitSet
        <4> QED BY <3>2, <3>3, <3>7, <4>1, <4>3 DEF parseRequestLine, GoOn, processWrite
      <3>8. CASE parseHeaders(w)
        <4>1. checked' \in 0 .. Len(buf)
          BY <3>5, <3>8 DEF parseHeaders, LineOk
        <4> QED BY <3>2, <3>3, <3>8, <4>1 DEF parseHeaders, GoOn, GetRequest
      <3>9. CASE parseContent(w)
        BY <3>2, <3>3, <3>9 DEF parseContent, GetRequest
      <3>10. CASE LineInContent(w)
        <4>1. checked' \in 0 .. Len(buf)
          BY <3>5, <3>10 DEF LineInContent, LineOk
        <4> QED BY <3>2, <3>3, <3>10, <4>1 DEF LineInContent, GoOn
      <3>11. CASE doRequest(w)
        BY <3>2, <3>3, <3>11 DEF doRequest, NeedMore, processWrite, WelcomeFails
      <3> QED BY <2>3, <3>6, <3>7, <3>8, <3>9, <3>10, <3>11 DEF process
    <2>4. CASE write(w)
      <3>1. UNCHANGED <<stream, fin, alive, lost, sent, polite>> /\ At(w, "write")
        BY <2>4 DEF write
      <3>2. ASSUME NEW b \in BOOLEAN, Complete(w, b), space' \in BOOLEAN, choked' \in BOOLEAN
            PROVE  TypeOK'
        <4>1. replies' \in Seq(ReplyType)
          BY <3>1, <3>2, CompleteFacts, ReplyFacts
        <4>2. HistoryType'
          BY <1>0, <3>1, <4>1 DEF HistoryType
        <4>3. CASE linger
          <5>1. <<>> \in Seq(UnitSet) /\ Len(<<>>) = 0
            BY EmptySeq
          <5>2. init
            BY <3>2, <4>3 DEF Complete
          <5>3. ParseType'
            <6>1. /\ buf' = <<>> /\ checked' = 0 /\ checkState' = "REQUESTLINE" /\ url' = 0
                  /\ contentLength' = 0 /\ code' = ""
              BY <5>2 DEF init
            <6>2. Len(buf') = 0
              BY <5>1, <6>1
            <6>3. MaxRequests \in Nat /\ ReadSize \in Nat \ {0}
              BY SizeAssumption
            <6>4. 0 \in 0 .. 0 /\ 0 < ReadSize /\ 0 \in 0 .. MaxRequests
              BY <6>3
            <6> QED BY <6>1, <6>2, <6>4 DEF ParseType
          <5>4. UnitsType' /\ FlagsType'
            BY <1>0, <2>1, <3>1, <3>2, <5>1, <5>2 DEF init, UnitsType, FlagsType
          <5> QED BY <2>1, <4>2, <5>3, <5>4, TypePartsNext
        <4>4. CASE ~linger
          <5>1. UNCHANGED <<stream, buf, checked, checkState, url, contentLength, code, linger, torn>>
            BY <3>1, <3>2, <4>4 DEF Complete
          <5>2. FlagsType'
            BY <1>0, <2>1, <3>1, <3>2, <5>1 DEF FlagsType
          <5> QED BY <1>a, <1>c, <2>1, <4>2, <5>1, <5>2, TypePartsNext
        <4> QED BY <4>3, <4>4
      <3>3. CASE WriteAll(w)
        BY <1>0, <3>2, <3>3 DEF WriteAll, FlagsType
      <3>4. CASE WriteHalf(w)
        BY <3>2, <3>4 DEF WriteHalf
      <3>5. CASE WriteLittle(w) \/ WriteAgain(w) \/ WriteFails(w)
        <4>1. UNCHANGED <<stream, buf, checked, checkState, url, contentLength, code, linger,
                          sent, replies>>
          BY <3>1, <3>5 DEF WriteLittle, WriteAgain, WriteFails
        <4>2. FlagsType'
          BY <1>0, <2>1, <3>1, <3>5 DEF WriteLittle, WriteAgain, WriteFails, FlagsType
        <4> QED BY <1>a, <1>c, <1>d, <2>1, <4>1, <4>2, TypePartsNext
      <3> QED BY <2>4, <3>3, <3>4, <3>5 DEF write
    <2>5. CASE CloseAndDelete(w)
      BY <1>3, <2>1, <2>5 DEF CloseAndDelete
    <2>6. CASE UseAfterDelete(w)
      <3>1. UNCHANGED <<stream, buf, checked, checkState, url, contentLength, code, sent, replies>>
        BY <2>6 DEF UseAfterDelete
      <3>2. FlagsType'
        BY <1>0, <2>6 DEF UseAfterDelete, FlagsType
      <3> QED BY <1>a, <1>c, <1>d, <2>1, <3>1, <3>2, TypePartsNext
    <2> QED BY <1>8, <2>2, <2>3, <2>4, <2>5, <2>6 DEF handle_client_event
  <1> QED BY <1>1, <1>2, <1>4, <1>5, <1>6, <1>7, <1>8 DEF Next, WorkerStep


------------------------------------------------------------------------------
(* Who may be in the HttpConn *)

(* The steps outside the HttpConn, but for the next request of the client. *)
OutsideStep ==
    \/ ClientReads \/ ClientCloses \/ epoll_wait \/ find_eh
    \/ \E w \in Workers : TakeJob(w) \/ Accept(w) \/ add_eh(w)
    \/ UNCHANGED vars

(* A worker that is busy is alone with the HttpConn. *)
LEMMA BusyFacts ==
    ASSUME TypeOK, TokenInv, NEW w \in Workers, Busy(w)
    PROVE  /\ \A v \in Workers : Busy(v) => v = w
           /\ reg = "off" /\ event = "none" /\ jobs = <<>> /\ ~Idle
           /\ pc[w] # "accept" => ~Fresh
  <1>1. /\ \A v \in Workers : Busy(v) => v = w
        /\ reg = "off" /\ event = "none" /\ jobs = <<>>
    BY DEF TokenInv
  <1>2. pc[w] # "accept" => ~Fresh
    <2>1. \A v \in Workers : pc[v] = "accept" => v = w
      BY <1>1 DEF Busy
    <2>2. jobs # <<"listen">>
      BY <1>1
    <2> QED BY <2>1, <2>2 DEF Fresh
  <1> QED BY <1>1, <1>2 DEF Idle

(* Nothing outside touches what the HttpConn holds, brings a deleted one   *)
(* back or deletes one.                                                    *)
LEMMA OutsideFacts ==
    ASSUME TypeOK, TokenInv, OutsideStep
    PROVE  /\ UNCHANGED <<stream, buf, parseVars, code, torn, lost, historyVars>>
           /\ \A v \in Workers : (pc'[v] = "respond" <=> pc[v] = "respond")
                                 /\ (pc'[v] = "close" <=> pc[v] = "close")
           /\ Gone' <=> Gone
           /\ Fresh' => Fresh
  <1> USE DEF reactorVars, connVars, parseVars, historyVars, clientVars
  <1>0. /\ pc \in [Workers -> {"idle", "accept", "store"} \cup Places]
        /\ jobs \in Seq({"listen", "IN", "OUT"}) /\ event \in {"IN", "OUT", "none"}
    BY DEF TypeOK
  <1>1. ASSUME UNCHANGED <<pc, jobs, alive>>,
               UNCHANGED <<stream, buf, parseVars, code, torn, lost, historyVars>>
        PROVE  /\ \A v \in Workers : (pc'[v] = "respond" <=> pc[v] = "respond")
                                     /\ (pc'[v] = "close" <=> pc[v] = "close")
               /\ Gone' <=> Gone
               /\ Fresh' => Fresh
    BY <1>1 DEF Gone, Fresh, AtClose
  <1>2. CASE ClientReads \/ ClientCloses \/ UNCHANGED vars
    BY <1>1, <1>2 DEF ClientReads, ClientCloses, vars
  <1>3. CASE epoll_wait
    BY <1>1, <1>3 DEF epoll_wait
  <1>4. CASE find_eh
    <2>1. jobs = <<>> /\ event \in {"IN", "OUT"} /\ UNCHANGED <<pc, alive>>
      BY <1>0, <1>4 DEF find_eh, TokenInv
    <2>2. jobs' = <<>> \/ jobs' = <<event>>
      BY <1>4, <2>1 DEF find_eh
    <2>3. jobs # <<"listen">> /\ jobs' # <<"listen">>
      BY <2>1, <2>2
    <2>4. Fresh' <=> Fresh
      BY <2>1, <2>3 DEF Fresh
    <2> QED BY <1>4, <2>1, <2>4 DEF find_eh, Gone, AtClose
  <1>5. ASSUME NEW w \in Workers, TakeJob(w)
        PROVE  /\ UNCHANGED <<stream, buf, parseVars, code, torn, lost, historyVars>>
               /\ \A v \in Workers : (pc'[v] = "respond" <=> pc[v] = "respond")
                                     /\ (pc'[v] = "close" <=> pc[v] = "close")
               /\ Gone' <=> Gone
               /\ Fresh' => Fresh
    <2>1. /\ pc[w] = "idle" /\ jobs = <<Head(jobs)>> /\ Head(jobs) \in {"listen", "IN", "OUT"}
          /\ jobs' = <<>> /\ alive' = alive /\ jobs # <<>>
      BY <1>5, OneJob DEF TakeJob
    <2>2. /\ \A v \in Workers : v # w => pc'[v] = pc[v]
          /\ pc'[w] = CASE Head(jobs) = "listen" -> "accept"
                        [] Head(jobs) = "IN" -> "read"
                        [] Head(jobs) = "OUT" -> "write"
      BY <1>0, <1>5 DEF TakeJob
    <2>3. \A v \in Workers : pc[v] # "accept"
      BY <2>1 DEF TokenInv, Busy
    <2>4. Fresh <=> Head(jobs) = "listen"
      BY <2>1, <2>3 DEF Fresh
    <2>5. Fresh' <=> pc'[w] = "accept"
      BY <2>1, <2>2, <2>3 DEF Fresh
    <2>6. Fresh' <=> Fresh
      BY <2>1, <2>2, <2>4, <2>5
    <2>7. \A v \in Workers : (pc'[v] = "respond" <=> pc[v] = "respond")
                             /\ (pc'[v] = "close" <=> pc[v] = "close")
      BY <2>1, <2>2
    <2> QED BY <1>5, <2>1, <2>6, <2>7 DEF TakeJob, Gone, AtClose
  <1>6. ASSUME NEW w \in Workers, Accept(w)
        PROVE  /\ UNCHANGED <<stream, buf, parseVars, code, torn, lost, historyVars>>
               /\ \A v \in Workers : (pc'[v] = "respond" <=> pc[v] = "respond")
                                     /\ (pc'[v] = "close" <=> pc[v] = "close")
               /\ Gone' <=> Gone
               /\ Fresh' => Fresh
    <2>1. pc[w] = "accept" /\ alive' = TRUE /\ jobs' = jobs /\ pc' = [pc EXCEPT ![w] = "store"]
      BY <1>6 DEF Accept
    <2>2. Fresh
      BY <2>1 DEF Fresh
    <2>3. \A v \in Workers : (pc'[v] = "respond" <=> pc[v] = "respond")
                             /\ (pc'[v] = "close" <=> pc[v] = "close")
      BY <1>0, <2>1
    <2> QED BY <1>6, <2>1, <2>2, <2>3 DEF Accept, Gone, AtClose
  <1>7. ASSUME NEW w \in Workers, add_eh(w)
        PROVE  /\ UNCHANGED <<stream, buf, parseVars, code, torn, lost, historyVars>>
               /\ \A v \in Workers : (pc'[v] = "respond" <=> pc[v] = "respond")
                                     /\ (pc'[v] = "close" <=> pc[v] = "close")
               /\ Gone' <=> Gone
               /\ Fresh' => Fresh
    <2>1. pc[w] = "store" /\ UNCHANGED <<alive, jobs>> /\ pc' = [pc EXCEPT ![w] = "idle"]
      BY <1>7 DEF add_eh
    <2>2. \A v \in Workers : (pc'[v] = "respond" <=> pc[v] = "respond")
                             /\ (pc'[v] = "close" <=> pc[v] = "close")
                             /\ (pc'[v] = "accept" <=> pc[v] = "accept")
      BY <1>0, <2>1
    <2> QED BY <1>7, <2>1, <2>2 DEF add_eh, Gone, Fresh, AtClose
  <1> QED BY <1>2, <1>3, <1>4, <1>5, <1>6, <1>7 DEF OutsideStep

(* Up to the first answer that closes a worker in the HttpConn has it, and *)
(* after it nobody is in it if the client waits.                           *)
LEMMA ActiveFacts ==
    ASSUME TypeOK, TokenInv, GoneInv, NEW w \in Workers, Busy(w), pc[w] # "accept"
    PROVE  /\ ~Closing => ~Gone /\ alive
           /\ ~(Closing /\ NothingComesLate)
  BY BusyFacts DEF GoneInv, Gone

(* Nobody uses the HttpConn of a client that waits after its deletion. *)
LEMMA LostStep ==
    ASSUME TypeOK, TokenInv, GoneInv, LostInv, NEW w \in Workers, UseAfterDelete(w)
    PROVE  LostInv'
  <1> USE DEF historyVars
  <1>1. (Closing' <=> Closing) /\ (NothingComesLate' <=> NothingComesLate)
    BY DEF UseAfterDelete, Closing, NothingComesLate
  <1>2. CASE AtClose(w)
    BY <1>1, <1>2 DEF UseAfterDelete, LostInv, GoneInv, Gone, OneCloser
  <1>3. CASE ~AtClose(w)
    <2>1. Busy(w) /\ pc[w] # "accept" /\ ~alive
      BY <1>3 DEF UseAfterDelete, Inside, Places, Busy, AtClose
    <2> QED BY <1>1, <2>1, ActiveFacts DEF LostInv
  <1> QED BY <1>2, <1>3

(* A worker that goes on, or leaves, in the HttpConn. *)
LEMMA InsideFacts ==
    ASSUME TypeOK, TokenInv, NEW w \in Workers, Busy(w), pc[w] # "accept", handle_client_event(w)
    PROVE  /\ alive' = alive /\ event' = "none" /\ jobs' = <<>> /\ ~Fresh'
           /\ \A v \in Workers : v # w => pc'[v] = pc[v] /\ ~Busy(v) /\ ~Busy(v)'
           /\ pc'[w] \in {pc[w], "parse", "respond", "close", "idle"}
           /\ reg' \in {"IN", "OUT", "off"} /\ UNCHANGED <<sent, polite>>
           /\ pc'[w] = "close" => read(w) \/ write(w)
  <1> USE DEF reactorVars, connVars, parseVars, historyVars, clientVars
  <1>0. /\ pc \in [Workers -> {"idle", "accept", "store"} \cup Places]
        /\ reg \in {"IN", "OUT", "off"}
    BY DEF TypeOK
  <1>1. /\ reg = "off" /\ event = "none" /\ jobs = <<>> /\ ~Fresh
        /\ \A v \in Workers : v # w => ~Busy(v)
    BY BusyFacts
  <1>2. UNCHANGED <<event, jobs>> /\ reg' \in {reg, "IN", "OUT"}
        /\ (pc' = pc \/ \E x \in {"parse", "respond", "close", "idle"} : pc' = [pc EXCEPT ![w] = x])
    BY WorkerControl
  <1>3. /\ \A v \in Workers : v # w => pc'[v] = pc[v]
        /\ pc'[w] \in {pc[w], "parse", "respond", "close", "idle"}
    BY <1>0, <1>2
  <1>4. \A v \in Workers : v # w => ~Busy(v)'
    BY <1>1, <1>3 DEF Busy
  <1>5. ~Fresh'
    <2>1. \A v \in Workers : pc'[v] # "accept"
      BY <1>1, <1>3 DEF Busy
    <2>2. jobs' # <<"listen">>
      BY <1>1, <1>2
    <2> QED BY <2>1, <2>2 DEF Fresh
  <1>6. ~AtClose(w)
    BY DEF Busy, AtClose
  <1>7. alive' = alive /\ UNCHANGED <<sent, polite>>
    BY <1>6 DEF handle_client_event, read, process, write, CloseAndDelete, UseAfterDelete,
                AtClose, At
  <1>8. pc'[w] = "close" => read(w) \/ write(w)
    <2>1. CASE UseAfterDelete(w)
      BY <1>6, <2>1 DEF UseAfterDelete, AtClose
    <2>2. CASE CloseAndDelete(w)
      BY <1>6, <2>2 DEF CloseAndDelete, At, AtClose
    <2>3. CASE process(w)
      <3>1. pc[w] \in {"parse", "respond"}
        BY <2>3 DEF process, LineOpen, parseRequestLine, parseHeaders, parseContent,
                    LineInContent, doRequest, At
      <3>2. pc' = pc \/ \E x \in {"respond", "idle"} : pc' = [pc EXCEPT ![w] = x]
        BY <2>3 DEF process, LineOpen, parseRequestLine, parseHeaders, parseContent,
                    LineInContent, doRequest, Goto, GoOn, GetRequest, NeedMore, processWrite,
                    WelcomeFails
      <3> QED BY <1>0, <3>1, <3>2
    <2> QED BY <2>1, <2>2, <2>3 DEF handle_client_event
  <1> QED BY <1>0, <1>1, <1>2, <1>3, <1>4, <1>5, <1>7, <1>8

(* The answers change only when write() has one complete. *)
LEMMA RepliesFacts ==
    ASSUME TypeOK, NEW w \in Workers, handle_client_event(w)
    PROVE  UNCHANGED replies \/ \E b \in BOOLEAN : At(w, "write") /\ Complete(w, b)
  <1> USE DEF reactorVars, connVars, parseVars, historyVars, clientVars
  <1>1. CASE write(w)
    BY <1>1 DEF write, WriteAll, WriteHalf, WriteLittle, WriteAgain, WriteFails
  <1>2. CASE read(w) \/ process(w) \/ CloseAndDelete(w) \/ UseAfterDelete(w)
    BY <1>2 DEF read, process, CloseAndDelete, UseAfterDelete
  <1> QED BY <1>1, <1>2 DEF handle_client_event

(* Nothing comes for a HttpConn that is gone. *)
LEMMA GoneStep ==
    ASSUME TypeOK, TokenInv, AnswerInv, UrlInv, PoliteInv, GoneInv, [Next]_vars
    PROVE  GoneInv'
  <1> USE DEF reactorVars, connVars, parseVars, historyVars, clientVars
  <1>0. /\ pc \in [Workers -> {"idle", "accept", "store"} \cup Places]
        /\ event \in {"IN", "OUT", "none"}
    BY DEF TypeOK
  <1>1. ASSUME NEW r \in Requests, ClientSends(r) PROVE GoneInv'
    <2>1. /\ UNCHANGED <<reg, event, jobs, pc, alive, replies>>
          /\ polite' => ~Closing
      BY <1>1 DEF ClientSends
    <2>2. /\ Closing' <=> Closing
          /\ Gone' <=> Gone
          /\ Idle' <=> Idle
          /\ OneCloser' <=> OneCloser
      BY <2>1 DEF Closing, Gone, Idle, OneCloser, AtClose, Fresh, Busy
    <2> QED BY <2>1, <2>2 DEF GoneInv, NothingComesLate
  <1>2. ASSUME NEW w \in Workers, handle_client_event(w), Busy(w), pc[w] # "accept" PROVE GoneInv'
    <2>1. /\ ~Closing => ~Gone /\ alive
          /\ ~(Closing /\ NothingComesLate)
          /\ reg = "off"
      BY <1>2, ActiveFacts, BusyFacts
    <2>2. /\ alive' = alive /\ event' = "none" /\ jobs' = <<>> /\ ~Fresh'
          /\ \A v \in Workers : v # w => pc'[v] = pc[v] /\ ~Busy(v) /\ ~Busy(v)'
          /\ UNCHANGED <<sent, polite>>
          /\ pc'[w] = "close" => read(w) \/ write(w)
      BY <1>2, InsideFacts
    <2>3. ~Closing /\ AtClose(w)' => Idle' /\ OneCloser'
      <3>1. ~Closing => \A v \in Workers : ~AtClose(v)
        BY <2>1 DEF Gone
      <3> QED BY <2>1, <2>2, <3>1 DEF Idle, OneCloser, AtClose, Busy
    <2>4. ~Closing /\ Gone' => AtClose(w)'
      BY <2>1, <2>2 DEF Gone, AtClose
    <2>5. CASE UNCHANGED replies
      <3>1. (Closing' <=> Closing) /\ (NothingComesLate' <=> NothingComesLate)
        BY <2>2, <2>5 DEF Closing, NothingComesLate
      <3>2. ASSUME ~Closing, AtClose(w)' PROVE reg' = "off"
        <4>1. read(w) \/ write(w)
          BY <2>2, <3>2 DEF AtClose
        <4>2. CASE read(w)
          BY <2>1, <4>2 DEF read
        <4>3. CASE write(w)
          <5>1. \A a : UNCHANGED replies => ~(replies' = Append(replies, a))
            <6>1. replies \in Seq(ReplyType)
              BY DEF TypeOK, ReplyType
            <6>2. ASSUME NEW a, replies' = Append(replies, a), replies' = replies PROVE FALSE
              <7>1. Len(replies) \in Nat
                BY <6>1, LenProperties
              <7>2. Len(Append(replies, a)) = Len(replies) + 1
                BY <6>1
              <7> QED BY <6>2, <7>1, <7>2
            <6> QED BY <6>2
          <5>2. ~WriteAll(w) /\ ~WriteHalf(w)
            BY <2>5, <5>1 DEF WriteAll, WriteHalf, Complete
          <5>3. CASE WriteLittle(w)
            BY <2>1, <5>3 DEF WriteLittle
          <5>4. CASE WriteAgain(w)
            BY <1>0, <3>2, <5>4 DEF WriteAgain, Goto, AtClose
          <5>5. CASE WriteFails(w)
            BY <2>1, <5>5 DEF WriteFails
          <5> QED BY <4>3, <5>2, <5>3, <5>4, <5>5 DEF write
        <4> QED BY <4>1, <4>2, <4>3
      <3> QED BY <2>1, <2>3, <2>4, <3>1, <3>2 DEF GoneInv
    <2>6. ASSUME NEW b \in BOOLEAN, At(w, "write"), Complete(w, b) PROVE GoneInv'
      <3>1. PICK a \in ReplyType : replies' = Append(replies, a) /\ a.closing = ~linger
        BY <2>6, CompleteFacts
      <3>2. Closing' <=> Closing \/ ~linger
        BY <3>1, ReplyFacts
      <3>3. NothingComesLate' <=> NothingComesLate
        BY <2>2 DEF NothingComesLate
      <3>4. CASE linger
        <4>1. pc'[w] = "idle"
          BY <1>0, <2>6, <3>4 DEF Complete, Goto
        <4> QED BY <2>1, <2>4, <3>2, <3>3, <3>4, <4>1 DEF GoneInv, AtClose
      <3>5. CASE ~linger
        <4>1. ASSUME NothingComesLate PROVE Idle' /\ reg' # "OUT" /\ stream' = <<>> /\ OneCloser'
          <5>1. polite /\ ~Closing /\ ~Gone /\ alive /\ code # ""
            BY <2>1, <2>6, <4>1 DEF NothingComesLate, AnswerInv, ForWriter, At
          <5>2. Len(sent) = Len(replies) + 1 /\ Parsed(sent[Len(sent)], Len(sent))
            BY <5>1 DEF PoliteInv
          <5>3. Len(sent) \in DOMAIN sent
            <6>1. sent \in Seq(Requests) /\ replies \in Seq(ReplyType)
              BY DEF TypeOK, ReplyType
            <6>2. Len(replies) \in Nat /\ DOMAIN sent = 1 .. Len(sent) /\ Len(sent) \in Nat
              BY <6>1, LenProperties
            <6> QED BY <5>2, <6>2
          <5>4. sent[Len(sent)].form # "bad"
            BY <4>1, <5>3 DEF NothingComesLate
          <5>5. stream = <<>>
            BY <5>1, <5>2, <5>4 DEF Parsed
          <5>6. pc'[w] = "close" /\ reg' = "IN"
            BY <1>0, <2>6, <3>5 DEF Complete, Goto, modFd
          <5>7. stream' = stream
            <6>1. write(w)
              BY <1>2, <2>6 DEF handle_client_event, At, read, process, LineOpen, parseRequestLine,
                                parseHeaders, parseContent, LineInContent, doRequest,
                                CloseAndDelete, UseAfterDelete
            <6> QED BY <6>1 DEF write
          <5> QED BY <2>3, <5>1, <5>5, <5>6, <5>7 DEF AtClose
        <4> QED BY <3>2, <3>3, <3>5, <4>1 DEF GoneInv
      <3> QED BY <3>4, <3>5
    <2> QED BY <1>2, <2>5, <2>6, RepliesFacts
  <1>3. ASSUME NEW w \in Workers, CloseAndDelete(w) PROVE GoneInv'
    <2>1. /\ AtClose(w) /\ alive' = FALSE /\ pc' = [pc EXCEPT ![w] = "idle"]
          /\ UNCHANGED <<reg, event, jobs, replies, sent, polite, stream>>
      BY <1>3 DEF CloseAndDelete, At, Goto, AtClose
    <2>2. (Closing' <=> Closing) /\ (NothingComesLate' <=> NothingComesLate)
      BY <2>1 DEF Closing, NothingComesLate
    <2>3. Gone
      BY <2>1 DEF Gone
    <2>4. Idle => Idle'
      BY <1>0, <2>1 DEF Idle, Busy
    <2>5. OneCloser => OneCloser'
      BY <1>0, <2>1 DEF OneCloser, AtClose
    <2> QED BY <2>1, <2>2, <2>3, <2>4, <2>5 DEF GoneInv
  <1>4. ASSUME NEW w \in Workers, UseAfterDelete(w) PROVE GoneInv'
    <2>1. UNCHANGED <<reg, event, jobs, pc, alive, replies, sent, polite, stream>>
      BY <1>4 DEF UseAfterDelete
    <2> QED BY <2>1 DEF GoneInv, Closing, NothingComesLate, Gone, Fresh, Idle, OneCloser, AtClose, Busy
  <1>5. CASE OutsideStep
    <2>1. UNCHANGED <<stream, sent, polite, replies>> /\ (Gone' <=> Gone)
          /\ \A v \in Workers : pc'[v] = "close" <=> pc[v] = "close"
      BY <1>5, OutsideFacts
    <2>2. (Closing' <=> Closing) /\ (NothingComesLate' <=> NothingComesLate)
      BY <2>1 DEF Closing, NothingComesLate
    <2>3. CASE ~Idle
      BY <2>1, <2>2, <2>3 DEF GoneInv
    <2>4. CASE Idle
      <3>1. ASSUME UNCHANGED <<event, jobs, pc, alive>>, reg' = reg \/ (reg = "IN" /\ reg' = "off")
            PROVE  GoneInv'
        BY <2>1, <2>2, <3>1 DEF GoneInv, Idle, OneCloser, AtClose, Busy
      <3>2. CASE ClientReads \/ ClientCloses \/ UNCHANGED vars
        BY <3>1, <3>2 DEF ClientReads, ClientCloses, vars
      <3>3. CASE epoll_wait
        <4>1. /\ reg' = "off" /\ reg # "off" /\ UNCHANGED <<jobs, pc, alive, stream>>
              /\ event' = "none" \/ (reg = "IN" /\ stream # <<>>) \/ reg = "OUT"
          BY <3>3 DEF epoll_wait
        <4> QED BY <2>1, <2>2, <2>4, <4>1 DEF GoneInv, Idle, OneCloser, AtClose, Busy
      <3>4. CASE find_eh
        BY <2>4, <3>4 DEF find_eh, Idle
      <3>5. ASSUME NEW w \in Workers, TakeJob(w) PROVE FALSE
        BY <2>4, <3>5 DEF TakeJob, Idle
      <3>6. ASSUME NEW w \in Workers, Accept(w) PROVE FALSE
        BY <2>4, <3>6 DEF Accept, Idle, Busy
      <3>7. ASSUME NEW w \in Workers, add_eh(w) PROVE GoneInv'
        <4>1. /\ UNCHANGED <<reg, event, jobs, alive>> /\ pc' = [pc EXCEPT ![w] = "idle"]
          BY <3>7 DEF add_eh
        <4>2. Idle'
          BY <1>0, <2>4, <4>1 DEF Idle, Busy
        <4>3. OneCloser => OneCloser'
          BY <2>1, <4>1 DEF OneCloser, AtClose
        <4> QED BY <2>1, <2>2, <4>1, <4>2, <4>3 DEF GoneInv
      <3> QED BY <1>5, <3>2, <3>3, <3>4, <3>5, <3>6, <3>7 DEF OutsideStep
    <2> QED BY <2>3, <2>4
  <1>6. ASSUME NEW w \in Workers, handle_client_event(w) PROVE GoneInv'
    <2>1. CASE Busy(w) /\ pc[w] # "accept"
      BY <1>2, <1>6, <2>1
    <2>2. CASE ~(Busy(w) /\ pc[w] # "accept")
      <3>1. CloseAndDelete(w) \/ UseAfterDelete(w)
        BY <1>6, <2>2 DEF handle_client_event, At, read, process, write, LineOpen, parseRequestLine,
                          parseHeaders, parseContent, LineInContent, doRequest, Busy
      <3> QED BY <1>3, <1>4, <3>1
    <2> QED BY <2>1, <2>2
  <1> QED BY <1>1, <1>5, <1>6 DEF Next, WorkerStep, OutsideStep

------------------------------------------------------------------------------
(* What is read, and what it is an answer to *)

(* One reader or one writer: the answer is there when it is to be written, *)
(* and written before the next request is read.                            *)
LEMMA AnswerStep ==
    ASSUME TypeOK, TokenInv, AnswerInv, UrlInv, [Next]_vars
    PROVE  AnswerInv'
  <1> USE DEF reactorVars, connVars, parseVars, historyVars, clientVars
  <1>0. /\ pc \in [Workers -> {"idle", "accept", "store"} \cup Places]
        /\ jobs \in Seq({"listen", "IN", "OUT"}) /\ event \in {"IN", "OUT", "none"}
    BY DEF TypeOK
  <1>1. ASSUME UNCHANGED <<code, replies>>, ForWriter' => ForWriter, ForReader' => ForReader,
               Fresh' => Fresh
        PROVE  AnswerInv'
    BY <1>1 DEF AnswerInv, Closing
  <1>2. ASSUME UNCHANGED <<reg, event, jobs, pc, code, replies>> PROVE AnswerInv'
    BY <1>1, <1>2 DEF ForWriter, ForReader, Fresh
  <1>3. CASE epoll_wait
    <2>1. /\ event' = "IN" => reg = "IN"
          /\ event' = "OUT" => reg = "OUT"
          /\ reg' = "off" /\ UNCHANGED <<jobs, pc, code, replies>>
      BY <1>3 DEF epoll_wait
    <2> QED BY <1>1, <2>1 DEF ForWriter, ForReader, Fresh
  <1>4. CASE find_eh
    <2>1. event \in {"IN", "OUT"} /\ jobs = <<>> /\ UNCHANGED <<reg, pc, code, replies>> /\ event' = "none"
      BY <1>0, <1>4 DEF find_eh, TokenInv
    <2>2. jobs' = <<>> \/ jobs' = <<event>>
      BY <1>4, <2>1 DEF find_eh
    <2>3. /\ jobs' = <<"IN">> => event = "IN"
          /\ jobs' = <<"OUT">> => event = "OUT"
          /\ jobs' # <<"listen">>
      BY <2>1, <2>2
    <2> QED BY <1>1, <2>1, <2>3 DEF ForWriter, ForReader, Fresh
  <1>5. ASSUME NEW w \in Workers, TakeJob(w) PROVE AnswerInv'
    <2>1. /\ jobs = <<Head(jobs)>> /\ Head(jobs) \in {"listen", "IN", "OUT"}
          /\ jobs' = <<>> /\ jobs # <<>> /\ UNCHANGED <<reg, event, code, replies>>
      BY <1>5, OneJob DEF TakeJob
    <2>2. /\ \A v \in Workers : v # w => pc'[v] = pc[v]
          /\ pc'[w] = CASE Head(jobs) = "listen" -> "accept"
                        [] Head(jobs) = "IN" -> "read"
                        [] Head(jobs) = "OUT" -> "write"
      BY <1>0, <1>5 DEF TakeJob
    <2>3. /\ \A v \in Workers : ~Busy(v)
          /\ reg = "off" /\ event = "none"
      BY <2>1 DEF TokenInv
    <2>4. jobs' # <<"listen">> /\ jobs' # <<"IN">> /\ jobs' # <<"OUT">>
      BY <2>1
    <2>5. CASE Head(jobs) = "listen"
      <3>1. code = "" /\ ~ForWriter'
        BY <2>1, <2>2, <2>3, <2>4, <2>5 DEF Fresh, AnswerInv, ForWriter, Busy
      <3> QED BY <2>1, <3>1 DEF AnswerInv
    <2>6. CASE Head(jobs) = "IN"
      <3>1. ForReader /\ ~ForWriter' /\ ~Fresh'
        BY <2>1, <2>2, <2>3, <2>4, <2>6 DEF Fresh, ForReader, ForWriter, Busy
      <3> QED BY <1>1, <2>1, <3>1
    <2>7. CASE Head(jobs) = "OUT"
      <3>1. ForWriter /\ ~ForReader' /\ ~Fresh'
        BY <2>1, <2>2, <2>3, <2>4, <2>7 DEF Fresh, ForReader, ForWriter, Busy
      <3> QED BY <1>1, <2>1, <3>1
    <2> QED BY <2>1, <2>5, <2>6, <2>7
  <1>6. ASSUME NEW w \in Workers, Accept(w) PROVE AnswerInv'
    <2>1. /\ pc[w] = "accept" /\ Busy(w) /\ Fresh
          /\ reg' = "IN" /\ pc' = [pc EXCEPT ![w] = "store"]
          /\ UNCHANGED <<event, jobs, code, replies>>
      BY <1>6 DEF Accept, Busy, Fresh
    <2>2. code = "" /\ event = "none" /\ jobs = <<>> /\ \A v \in Workers : Busy(v) => v = w
      BY <2>1, BusyFacts DEF AnswerInv
    <2>3. jobs' # <<"OUT">>
      BY <2>1, <2>2
    <2>4. ~ForWriter'
      BY <1>0, <2>1, <2>2, <2>3 DEF ForWriter, Busy
    <2> QED BY <2>1, <2>2, <2>4 DEF AnswerInv
  <1>7. ASSUME NEW w \in Workers, add_eh(w) PROVE AnswerInv'
    <2>1. /\ pc[w] = "store" /\ pc' = [pc EXCEPT ![w] = "idle"]
          /\ UNCHANGED <<reg, event, jobs, code, replies>>
      BY <1>7 DEF add_eh
    <2> QED BY <1>0, <1>1, <2>1 DEF ForWriter, ForReader, Fresh
  <1>8. ASSUME NEW w \in Workers, handle_client_event(w), Busy(w), pc[w] # "accept" PROVE AnswerInv'
    <2>1. /\ event' = "none" /\ jobs' = <<>> /\ ~Fresh'
          /\ \A v \in Workers : v # w => ~Busy(v)'
          /\ reg = "off"
      BY <1>8, InsideFacts, BusyFacts
    <2>2. /\ ForWriter' <=> reg' = "OUT" \/ pc'[w] = "write"
          /\ ForReader' <=> reg' = "IN" \/ pc'[w] \in {"accept", "read", "parse", "respond"}
      <3>1. jobs' # <<"IN">> /\ jobs' # <<"OUT">>
        BY <2>1
      <3> QED BY <2>1, <3>1 DEF ForWriter, ForReader, Busy
    <2>3. \A x : pc' = [pc EXCEPT ![w] = x] => pc'[w] = x
      BY <1>0
    <2>4. CASE read(w)
      <3>1. ForReader /\ UNCHANGED <<code, replies, reg>> /\ pc'[w] \in {"parse", "close"}
        BY <2>3, <2>4 DEF read, At, Goto, ForReader
      <3> QED BY <2>1, <2>2, <3>1 DEF AnswerInv, Closing
    <2>5. CASE process(w)
      <3>1. pc[w] \in {"parse", "respond"} /\ UNCHANGED replies
        BY <2>5 DEF process, LineOpen, parseRequestLine, parseHeaders, parseContent,
                    LineInContent, doRequest, At
      <3>2. ForReader
        BY <3>1 DEF ForReader
      <3>3. \/ code' = code /\ reg' = "IN" /\ pc'[w] = "idle"
            \/ code' # "" /\ reg' = "OUT" /\ pc'[w] = "idle"
            \/ code' = code /\ reg' = reg /\ pc'[w] \in {"parse", "respond", "idle"}
        <4>1. CASE LineOpen(w)
          BY <2>3, <4>1 DEF LineOpen, NeedMore, modFd, Goto
        <4>2. CASE parseRequestLine(w)
          BY <2>3, <3>1, <4>2 DEF parseRequestLine, GoOn, processWrite, modFd, Goto
        <4>3. CASE parseHeaders(w)
          BY <2>3, <3>1, <4>3 DEF parseHeaders, GoOn, GetRequest, modFd, Goto
        <4>4. CASE parseContent(w) \/ LineInContent(w)
          BY <2>3, <3>1, <4>4 DEF parseContent, LineInContent, GoOn, GetRequest, Goto
        <4>5. CASE doRequest(w)
          BY <2>3, <4>5 DEF doRequest, NeedMore, processWrite, WelcomeFails, modFd, Goto
        <4> QED BY <2>5, <4>1, <4>2, <4>3, <4>4, <4>5 DEF process
      <3> QED BY <2>1, <2>2, <3>1, <3>2, <3>3 DEF AnswerInv, Closing
    <2>6. CASE write(w)
      <3>1. code # "" /\ pc[w] = "write"
        BY <2>6 DEF write, At, AnswerInv, ForWriter
      <3>2. ASSUME NEW b \in BOOLEAN, Complete(w, b) PROVE AnswerInv'
        <4>1. PICK a \in ReplyType : replies' = Append(replies, a) /\ a.closing = ~linger
          BY <2>6, <3>2, CompleteFacts DEF write
        <4>2. Closing' <=> Closing \/ ~linger
          BY <4>1, ReplyFacts
        <4>3. reg' = "IN" /\ pc'[w] \in {"idle", "close"} /\ (linger => code' = "")
              /\ (~linger => code' = code)
          BY <2>3, <3>2 DEF Complete, init, modFd, Goto
        <4> QED BY <2>1, <2>2, <3>1, <4>2, <4>3 DEF AnswerInv
      <3>3. CASE WriteAll(w) \/ WriteHalf(w)
        BY <3>2, <3>3 DEF WriteAll, WriteHalf
      <3>4. CASE WriteLittle(w)
        BY <2>1, <2>2, <3>1, <3>4 DEF WriteLittle, AnswerInv
      <3>5. CASE WriteAgain(w)
        BY <2>1, <2>2, <2>3, <3>1, <3>5 DEF WriteAgain, AnswerInv, modFd, Goto
      <3>6. CASE WriteFails(w)
        BY <2>1, <2>2, <2>3, <3>1, <3>6 DEF WriteFails, AnswerInv, Goto
      <3> QED BY <2>6, <3>3, <3>4, <3>5, <3>6 DEF write
    <2>7. CASE CloseAndDelete(w)
      BY <1>8, <2>7 DEF CloseAndDelete, At, Busy
    <2>8. CASE UseAfterDelete(w)
      BY <1>2, <2>8 DEF UseAfterDelete
    <2> QED BY <1>8, <2>4, <2>5, <2>6, <2>7, <2>8 DEF handle_client_event
  <1>9. ASSUME NEW w \in Workers, CloseAndDelete(w) PROVE AnswerInv'
    <2>1. /\ pc[w] = "close" /\ pc' = [pc EXCEPT ![w] = "idle"]
          /\ UNCHANGED <<reg, event, jobs, code, replies>>
      BY <1>9 DEF CloseAndDelete, At, Goto
    <2> QED BY <1>0, <1>1, <2>1 DEF ForWriter, ForReader, Fresh
  <1>10. ASSUME NEW w \in Workers, handle_client_event(w) PROVE AnswerInv'
    <2>1. CASE Busy(w) /\ pc[w] # "accept"
      BY <1>8, <1>10, <2>1
    <2>2. CASE ~(Busy(w) /\ pc[w] # "accept")
      <3>1. CloseAndDelete(w) \/ UseAfterDelete(w)
        BY <1>10, <2>2 DEF handle_client_event, At, read, process, write, LineOpen, parseRequestLine,
                          parseHeaders, parseContent, LineInContent, doRequest, Busy
      <3>2. CASE UseAfterDelete(w)
        BY <1>2, <3>2 DEF UseAfterDelete
      <3> QED BY <1>9, <3>1, <3>2
    <2> QED BY <2>1, <2>2
  <1>11. ASSUME NEW r \in Requests, ClientSends(r) PROVE AnswerInv'
    BY <1>2, <1>11 DEF ClientSends
  <1>12. CASE ClientReads \/ ClientCloses \/ UNCHANGED vars
    BY <1>2, <1>12 DEF ClientReads, ClientCloses, vars
  <1> QED BY <1>3, <1>4, <1>5, <1>6, <1>7, <1>10, <1>11, <1>12 DEF Next, WorkerStep

(* What is pending, in numbers. *)
LEMMA PendingFacts ==
    ASSUME TypeOK
    PROVE  /\ Len(buf) \in Nat /\ Len(stream) \in Nat /\ Total \in Nat /\ checked \in 0 .. Len(buf)
           /\ Len(sent) \in Nat /\ Len(replies) \in Nat /\ url \in Nat /\ checked \in Nat
           /\ Total = Len(buf) + Len(stream)
           /\ \A i \in 1 .. Total : Pending(i) \in UnitSet /\ Pending(i).n \in 1 .. MaxRequests
                                    /\ Pending(i).n \in Nat
           /\ \A i \in 1 .. Len(buf) : Pending(i) = buf[i] /\ i \in 1 .. Total
           /\ \A i \in 1 .. Len(replies) : replies[i].n \in Nat
           /\ DOMAIN replies = 1 .. Len(replies) /\ DOMAIN sent = 1 .. Len(sent)
           /\ \A i \in 1 .. Len(sent) : sent[i] \in AllRequests
  <1>1. /\ buf \in Seq(UnitSet) /\ stream \in Seq(UnitSet) /\ sent \in Seq(Requests)
        /\ replies \in Seq(ReplyType) /\ url \in 0 .. MaxRequests /\ checked \in 0 .. Len(buf)
    BY DEF TypeOK, ReplyType
  <1>2. /\ Len(buf) \in Nat /\ Len(stream) \in Nat /\ Len(sent) \in Nat /\ Len(replies) \in Nat
        /\ DOMAIN replies = 1 .. Len(replies) /\ DOMAIN sent = 1 .. Len(sent)
    BY <1>1, LenProperties
  <1>3. /\ \A i \in 1 .. Len(buf) : buf[i] \in UnitSet
        /\ \A i \in 1 .. Len(stream) : stream[i] \in UnitSet
        /\ \A i \in 1 .. Len(sent) : sent[i] \in Requests
        /\ \A i \in 1 .. Len(replies) : replies[i] \in ReplyType
    BY <1>1, <1>2, ElementOfSeq
  <1>4. \A i \in 1 .. Total : Pending(i) \in UnitSet
    BY <1>2, <1>3 DEF Total, Pending
  <1>5. MaxRequests \in Nat
    BY SizeAssumption
  <1>6. \A m \in Nat : (\A u \in 0 .. m : u \in Nat) /\ (\A u \in 1 .. m : u \in Nat)
    OBVIOUS
  <1>7. \A i \in 1 .. Total : Pending(i).n \in 1 .. MaxRequests
    BY <1>4 DEF UnitSet
  <1>8. \A i \in 1 .. Len(replies) : replies[i].n \in 1 .. MaxRequests
    BY <1>3 DEF ReplyType
  <1>9. Total \in Nat /\ \A i \in 1 .. Len(buf) : Pending(i) = buf[i] /\ i \in 1 .. Total
    BY <1>2 DEF Total, Pending
  <1>10. \A i \in 1 .. Len(sent) : sent[i] \in AllRequests
    BY <1>3, RequestsAssumption
  <1>11. url \in Nat /\ checked \in Nat
    BY <1>1, <1>2, <1>5, <1>6
  <1>12. /\ \A i \in 1 .. Total : Pending(i).n \in Nat
         /\ \A i \in 1 .. Len(replies) : replies[i].n \in Nat
    BY <1>5, <1>6, <1>7, <1>8
  <1> QED BY <1>1, <1>2, <1>4, <1>7, <1>9, <1>10, <1>11, <1>12 DEF Total

(* read() takes nothing from what is pending, unless it closes. *)
LEMMA ReadPending ==
    ASSUME TypeOK, NEW w \in Workers, read(w)
    PROVE  /\ Total' \in Nat /\ \A i \in 1 .. Total' : \E j \in 1 .. Total : Pending(i)' = Pending(j)
           /\ pc'[w] # "close" =>
                 /\ Total' = Total /\ Len(buf') >= Len(buf) /\ Len(buf') \in Nat
                 /\ \A i \in 1 .. Total : Pending(i)' = Pending(i)
  <1>1. PICK n \in 0 .. Len(stream) :
           /\ stream' = SubSeq(stream, n + 1, Len(stream))
           /\ \/ buf' = buf \o SubSeq(stream, 1, n)
              \/ buf' = buf /\ Goto(w, "close")
    BY DEF read
  <1> DEFINE all == buf \o SubSeq(stream, 1, n)
  <1>2. /\ Len(buf) \in Nat /\ Len(stream) \in Nat /\ n \in Nat
        /\ Len(all) = Len(buf) + n
        /\ \A i \in 1 .. Len(all) :
              all[i] = IF i <= Len(buf) THEN buf[i] ELSE stream[i - Len(buf)]
        /\ Len(stream') = Len(stream) - n
        /\ \A i \in 1 .. Len(stream') : stream'[i] = stream[n + i]
    BY <1>1, ReadFacts
  <1>3. buf' = all \/ (buf' = buf /\ Goto(w, "close"))
    BY <1>1
  <1> HIDE DEF all
  <1>4. CASE buf' = all
    <2>1. Total' = Total /\ Len(buf') >= Len(buf) /\ Len(buf') \in Nat
      <3>1. PICK b \in Nat, s \in Nat : b = Len(buf) /\ s = Len(stream)
        BY <1>2
      <3>2. Len(buf') = b + n /\ Len(stream') = s - n
        BY <1>2, <1>4, <3>1
      <3>3. b + n + (s - n) = b + s /\ b + n >= b /\ b + n \in Nat
        BY <1>2, <3>1
      <3> QED BY <3>1, <3>2, <3>3 DEF Total
    <2>2. ASSUME NEW i \in 1 .. Total PROVE Pending(i)' = Pending(i)
      <3>1. CASE i <= Len(buf')
        BY <1>2, <1>4, <3>1 DEF Total, Pending
      <3>2. CASE i > Len(buf')
        <4>1. i - Len(buf') \in 1 .. Len(stream') /\ n + (i - Len(buf')) = i - Len(buf) /\ i > Len(buf)
          <5>1. PICK b \in Nat, s \in Nat : b = Len(buf) /\ s = Len(stream)
            BY <1>2
          <5>2. Len(buf') = b + n /\ Len(stream') = s - n
            BY <1>2, <1>4, <5>1
          <5>3. i \in 1 .. b + s /\ i > b + n
            BY <3>2, <5>1, <5>2 DEF Total
          <5>4. i - (b + n) \in 1 .. s - n /\ n + (i - (b + n)) = i - b /\ i > b
            BY <1>2, <5>1, <5>3
          <5> QED BY <5>1, <5>2, <5>4
        <4>2. Pending(i)' = stream'[i - Len(buf')] /\ Pending(i) = stream[i - Len(buf)]
          BY <1>2, <1>4, <3>2, <4>1 DEF Pending
        <4> QED BY <1>2, <4>1, <4>2
      <3> QED BY <1>2, <1>4, <3>1, <3>2
    <2>3. \A i \in 1 .. Total' : \E j \in 1 .. Total : Pending(i)' = Pending(j)
      BY <2>1, <2>2
    <2>4. Total \in Nat
      BY <1>2 DEF Total
    <2> QED BY <2>1, <2>2, <2>3, <2>4
  <1>5. CASE buf' = buf /\ Goto(w, "close")
    <2>1. Total' = Total - n /\ Total' \in Nat /\ Total \in Nat /\ Total = Len(buf) + Len(stream)
          /\ Len(buf') = Len(buf)
      BY <1>2, <1>5 DEF Total
    <2>2. ASSUME NEW i \in 1 .. Total' PROVE \E j \in 1 .. Total : Pending(i)' = Pending(j)
      <3>1. CASE i <= Len(buf)
        BY <1>2, <1>5, <2>1, <3>1 DEF Pending
      <3>2. CASE i > Len(buf)
        <4>1. i - Len(buf) \in 1 .. Len(stream') /\ i + n \in 1 .. Total /\ i + n > Len(buf)
              /\ n + (i - Len(buf)) = (i + n) - Len(buf)
          BY <1>2, <1>5, <2>1, <3>2
        <4>2. Pending(i)' = stream'[i - Len(buf)] /\ Pending(i + n) = stream[(i + n) - Len(buf)]
          BY <1>2, <2>1, <3>2, <4>1 DEF Pending
        <4> QED BY <1>2, <4>1, <4>2
      <3> QED BY <1>2, <3>1, <3>2
    <2>3. pc'[w] = "close"
      BY <1>5 DEF Goto, TypeOK
    <2> QED BY <2>1, <2>2, <2>3
  <1> QED BY <1>3, <1>4, <1>5

(* The units of a new request come last. *)
LEMMA SendPending ==
    ASSUME TypeOK, NEW r \in Requests, ClientSends(r)
    PROVE  /\ r \in AllRequests /\ UnitsLen(r) \in Nat /\ Total' = Total + UnitsLen(r)
           /\ \A i \in 1 .. Total : Pending(i)' = Pending(i)
           /\ \A i \in Total + 1 .. Total' : Pending(i)' = UnitAt(r, Len(sent) + 1, i - Total)
           /\ Len(sent') = Len(sent) + 1 /\ sent'[Len(sent) + 1] = r
           /\ \A i \in 1 .. Len(sent) : sent'[i] = sent[i]
  <1>1. Len(sent) < MaxRequests /\ stream' = stream \o Units(r, Len(sent) + 1)
        /\ sent' = Append(sent, r) /\ buf' = buf
    BY DEF ClientSends, connVars
  <1>2. /\ r \in AllRequests /\ Len(stream) \in Nat /\ Len(sent) \in Nat
        /\ Len(stream') = Len(stream) + UnitsLen(r)
        /\ \A i \in 1 .. Len(stream') :
              stream'[i] = IF i <= Len(stream) THEN stream[i]
                           ELSE UnitAt(r, Len(sent) + 1, i - Len(stream))
        /\ Len(sent') = Len(sent) + 1 /\ sent'[Len(sent) + 1] = r
        /\ \A i \in 1 .. Len(sent) : sent'[i] = sent[i]
    BY <1>1, SendFacts
  <1>3. UnitsLen(r) \in Nat
    BY <1>2 DEF UnitsLen, EmptyAt
  <1>4. Len(buf) \in Nat /\ Len(buf') = Len(buf)
    BY <1>1, PendingFacts
  <1>5. Total = Len(buf) + Len(stream) /\ Total' = Total + UnitsLen(r)
    <2>1. Total = Len(buf) + Len(stream) /\ Total' = Len(buf) + Len(stream')
      BY <1>4 DEF Total
    <2>2. Len(stream') = Len(stream) + UnitsLen(r)
      BY <1>2
    <2>3. \A a, b, c \in Nat : a + (b + c) = (a + b) + c
      OBVIOUS
    <2>4. Len(stream) \in Nat
      BY <1>2
    <2>5. Len(buf) + (Len(stream) + UnitsLen(r)) = (Len(buf) + Len(stream)) + UnitsLen(r)
      BY <1>3, <1>4, <2>3, <2>4
    <2> QED BY <2>1, <2>2, <2>5
  <1>6. ASSUME NEW i \in 1 .. Total PROVE Pending(i)' = Pending(i)
    <2>1. CASE i <= Len(buf)
      BY <1>1, <1>4, <2>1 DEF Pending
    <2>2. CASE i > Len(buf)
      <3>1. i - Len(buf) \in 1 .. Len(stream') /\ i - Len(buf) <= Len(stream)
        BY <1>2, <1>3, <1>4, <1>5, <2>2
      <3>2. Pending(i)' = stream'[i - Len(buf)] /\ Pending(i) = stream[i - Len(buf)]
        BY <1>4, <2>2 DEF Pending
      <3> QED BY <1>2, <3>1, <3>2
    <2> QED BY <1>4, <1>5, <2>1, <2>2
  <1>7. ASSUME NEW i \in Total + 1 .. Total' PROVE Pending(i)' = UnitAt(r, Len(sent) + 1, i - Total)
    <2>1. i - Len(buf) \in 1 .. Len(stream') /\ ~(i - Len(buf) <= Len(stream)) /\ ~(i <= Len(buf))
          /\ (i - Len(buf)) - Len(stream) = i - Total
      BY <1>2, <1>3, <1>4, <1>5
    <2>2. Pending(i)' = stream'[i - Len(buf)]
      BY <1>4, <2>1 DEF Pending
    <2> QED BY <1>2, <2>1, <2>2
  <1> QED BY <1>2, <1>3, <1>5, <1>6, <1>7

(* init() drops what is in the buffer. *)
LEMMA InitPending ==
    ASSUME TypeOK, init, stream' = stream
    PROVE  /\ Total' = Len(stream) /\ Total = Len(buf) + Len(stream)
           /\ \A i \in 1 .. Total' : Pending(i)' = Pending(Len(buf) + i)
                                     /\ Len(buf) + i \in 1 .. Total
  <1>1. Len(buf) \in Nat /\ Len(stream) \in Nat
    BY PendingFacts
  <1>2. buf' = <<>>
    BY DEF init
  <1>3. Len(buf') = 0
    BY <1>2
  <1>4. Total' = Len(stream) /\ Total = Len(buf) + Len(stream)
    BY <1>1, <1>3 DEF Total
  <1>5. ASSUME NEW i \in 1 .. Total' PROVE Pending(i)' = Pending(Len(buf) + i)
                                           /\ Len(buf) + i \in 1 .. Total
    <2>1. i \in Nat /\ i > 0 /\ Len(buf) + i \in 1 .. Total /\ (Len(buf) + i) - Len(buf) = i
      BY <1>1, <1>4
    <2>2. Pending(i)' = stream[i - 0]
      BY <1>3, <2>1 DEF Pending
    <2>3. Pending(Len(buf) + i) = stream[(Len(buf) + i) - Len(buf)]
      BY <1>1, <2>1 DEF Pending
    <2> QED BY <2>1, <2>2, <2>3
  <1> QED BY <1>4, <1>5

(* The steps that keep what the HttpConn holds, and what is sent to it. *)
LEMMA SameUnits ==
    ASSUME UNCHANGED <<stream, buf>>
    PROVE  Total' = Total /\ \A i : Pending(i)' = Pending(i)
  BY DEF Total, Pending

(* The requests that are parsed and answered have been sent. *)
LEMMA UrlStep ==
    ASSUME TypeOK, TokenInv, AnswerInv, UrlInv, [Next]_vars
    PROVE  UrlInv'
  <1> USE DEF reactorVars, connVars, parseVars, historyVars, clientVars
  <1>0. pc \in [Workers -> {"idle", "accept", "store"} \cup Places]
    BY DEF TypeOK
  <1>1. ASSUME UNCHANGED <<stream, buf, code, checkState, url, sent, replies>>,
               \A v \in Workers : pc'[v] = "respond" => pc[v] = "respond" \/ checkState # "REQUESTLINE"
        PROVE  UrlInv'
    BY <1>1, SameUnits DEF UrlInv
  <1>2. CASE OutsideStep
    <2>1. \A v \in Workers : pc'[v] = "respond" => pc[v] = "respond"
      BY <1>2, OutsideFacts
    <2>2. UNCHANGED <<stream, buf, code, checkState, url, sent, replies>>
      BY <1>2, OutsideFacts
    <2> QED BY <1>1, <2>1, <2>2
  <1>3. ASSUME NEW r \in Requests, ClientSends(r) PROVE UrlInv'
    <2>1. UNCHANGED <<code, checkState, url, pc, replies>>
      BY <1>3 DEF ClientSends
    <2>2. /\ Total \in Nat /\ Len(sent) \in Nat /\ url \in Nat
          /\ \A i \in 1 .. Total : Pending(i).n \in Nat
          /\ \A i \in 1 .. Len(replies) : replies[i].n \in Nat
      BY PendingFacts
    <2>3. /\ UnitsLen(r) \in Nat /\ Total' = Total + UnitsLen(r)
          /\ \A i \in 1 .. Total : Pending(i)' = Pending(i)
          /\ \A i \in Total + 1 .. Total' : Pending(i)' = UnitAt(r, Len(sent) + 1, i - Total)
          /\ Len(sent') = Len(sent) + 1
      BY <1>3, SendPending
    <2>4. \A i \in 1 .. Total' : Pending(i)'.n <= Len(sent')
      <3>1. ASSUME NEW i \in 1 .. Total PROVE Pending(i)'.n <= Len(sent')
        <4>1. Pending(i).n \in Nat /\ Pending(i).n <= Len(sent)
          BY <2>2, <3>1 DEF UrlInv
        <4>2. Pending(i).n <= Len(sent) + 1
          BY <2>2, <4>1
        <4> QED BY <2>3, <3>1, <4>2
      <3>2. ASSUME NEW i \in Total + 1 .. Total' PROVE Pending(i)'.n <= Len(sent')
        <4>1. Pending(i)'.n = Len(sent) + 1
          BY <2>3, <3>2 DEF UnitAt
        <4> QED BY <2>2, <2>3, <4>1
      <3> QED BY <2>2, <2>3, <3>1, <3>2
    <2>5. url <= Len(sent') /\ \A i \in 1 .. Len(replies) : replies[i].n <= Len(sent')
      <3>1. url <= Len(sent) + 1
        <4>1. url <= Len(sent)
          BY DEF UrlInv
        <4> QED BY <2>2, <4>1
      <3>2. ASSUME NEW i \in 1 .. Len(replies) PROVE replies[i].n <= Len(sent) + 1
        <4>1. replies[i].n \in Nat /\ replies[i].n <= Len(sent)
          BY <2>2, <3>2 DEF UrlInv
        <4> QED BY <2>2, <4>1
      <3> QED BY <2>3, <3>1, <3>2
    <2> QED BY <2>1, <2>4, <2>5 DEF UrlInv
  <1>4. ASSUME NEW w \in Workers, handle_client_event(w) PROVE UrlInv'
    <2>1. \A v \in Workers : v # w => pc'[v] = pc[v]
      BY <1>0, <1>4, WorkerControl
    <2>2. CASE read(w)
      <3>1. /\ UNCHANGED <<code, checkState, url, sent, replies>>
            /\ pc'[w] \in {"parse", "close"}
        BY <1>0, <2>2 DEF read, Goto
      <3>2. \A i \in 1 .. Total' : \E j \in 1 .. Total : Pending(i)' = Pending(j)
        BY <2>2, ReadPending
      <3>3. \A i \in 1 .. Total' : Pending(i)'.n <= Len(sent)
        BY <3>2 DEF UrlInv
      <3> QED BY <2>1, <3>1, <3>3 DEF UrlInv
    <2>3. CASE process(w)
      <3>1. UNCHANGED <<stream, buf, sent, replies>>
        BY <2>3 DEF process
      <3>2. CASE LineOpen(w)
        <4>1. UNCHANGED <<code, checkState, url>> /\ pc'[w] = "idle"
          BY <1>0, <3>2 DEF LineOpen, NeedMore, Goto
        <4> QED BY <1>1, <2>1, <3>1, <4>1
      <3>3. CASE parseRequestLine(w)
        <4>1. pc[w] = "parse" /\ UNCHANGED <<>> /\ pc'[w] \in {"parse", "idle"}
          BY <1>0, <3>3 DEF parseRequestLine, At, GoOn, processWrite, Goto
        <4>2. \A v \in Workers : pc'[v] # "respond"
          <5>1. \A v \in Workers : v # w => ~Busy(v)
            BY <4>1, BusyFacts DEF Busy
          <5> QED BY <2>1, <4>1, <5>1 DEF Busy
        <4>3. checked + 1 \in 1 .. Len(buf)
          <5>1. LineEnd \in checked + 1 .. Len(buf) /\ checked \in Nat /\ Len(buf) \in Nat
            BY <3>3, LineFacts DEF parseRequestLine, LineOk
          <5> QED BY <5>1
        <4>4. url' = Pending(checked + 1).n /\ checked + 1 \in 1 .. Total
          BY <3>3, <4>3, PendingFacts DEF parseRequestLine
        <4>5. url' > 0 /\ url' <= Len(sent)
          <5>1. Pending(checked + 1).n \in 1 .. MaxRequests
            BY <4>4, PendingFacts
          <5>2. Pending(checked + 1).n <= Len(sent)
            BY <4>4 DEF UrlInv
          <5>3. MaxRequests \in Nat
            BY SizeAssumption
          <5>4. \A m \in Nat : \A u \in 1 .. m : u > 0
            OBVIOUS
          <5> QED BY <4>4, <5>1, <5>2, <5>3, <5>4
        <4> QED BY <3>1, <4>2, <4>5, SameUnits DEF UrlInv
      <3>4. CASE parseHeaders(w)
        <4>1. checkState = "HEADER" /\ checkState' \in {"HEADER", "CONTENT"} /\ UNCHANGED <<code, url>>
          BY <3>4 DEF parseHeaders, GoOn, GetRequest
        <4>2. url > 0
          BY <4>1 DEF UrlInv
        <4> QED BY <3>1, <4>1, <4>2, SameUnits DEF UrlInv
      <3>5. CASE parseContent(w) \/ LineInContent(w)
        <4>1. checkState = "CONTENT" /\ UNCHANGED <<checkState, code, url>>
          BY <3>5 DEF parseContent, LineInContent, GoOn, GetRequest, Content
        <4> QED BY <1>1, <3>1, <4>1
      <3>6. CASE doRequest(w)
        <4>1. pc[w] = "respond" /\ UNCHANGED <<checkState, url>> /\ pc'[w] = "idle"
          BY <1>0, <3>6 DEF doRequest, At, NeedMore, processWrite, WelcomeFails, Goto
        <4>2. checkState # "REQUESTLINE" /\ url > 0
          BY <4>1 DEF UrlInv
        <4> QED BY <2>1, <3>1, <4>1, <4>2, SameUnits DEF UrlInv
      <3> QED BY <2>3, <3>2, <3>3, <3>4, <3>5, <3>6 DEF process
    <2>4. CASE write(w)
      <3>1. UNCHANGED <<stream, sent>> /\ At(w, "write") /\ pc[w] = "write"
        BY <2>4 DEF write, At
      <3>2. ASSUME NEW b \in BOOLEAN, Complete(w, b) PROVE UrlInv'
        <4>1. PICK a \in ReplyType : replies' = Append(replies, a) /\ a.n = url
          BY <3>1, <3>2, CompleteFacts
        <4>2. \A i \in 1 .. Len(replies') : replies'[i].n <= Len(sent')
          <5>1. /\ Len(replies) \in Nat /\ Len(replies') = Len(replies) + 1
                /\ replies'[Len(replies) + 1] = a
                /\ \A i \in 1 .. Len(replies) : replies'[i] = replies[i]
            BY <4>1, ReplyFacts
          <5>2. url <= Len(sent) /\ \A i \in 1 .. Len(replies) : replies[i].n <= Len(sent)
            BY DEF UrlInv
          <5>3. \A i \in 1 .. Len(replies) + 1 : i \in 1 .. Len(replies) \/ i = Len(replies) + 1
            BY <5>1
          <5> QED BY <3>1, <4>1, <5>1, <5>2, <5>3
        <4>3. \A v \in Workers : pc'[v] # "respond"
          <5>1. \A v \in Workers : v # w => ~Busy(v)
            BY <3>1, BusyFacts DEF Busy
          <5>2. pc'[w] \in {"idle", "close"}
            BY <1>0, <3>2 DEF Complete, Goto
          <5> QED BY <2>1, <5>1, <5>2 DEF Busy
        <4>4. CASE linger
          <5>1. init
            BY <3>2, <4>4 DEF Complete
          <5>2. url' = 0 /\ code' = "" /\ checkState' = "REQUESTLINE"
            BY <5>1 DEF init
          <5>3. \A i \in 1 .. Total' : Pending(i)'.n <= Len(sent)
            BY <3>1, <5>1, InitPending DEF UrlInv
          <5>4. 0 <= Len(sent)
            BY PendingFacts
          <5> QED BY <3>1, <4>2, <4>3, <5>2, <5>3, <5>4 DEF UrlInv
        <4>5. CASE ~linger
          <5>1. UNCHANGED <<buf, checkState, url, code>>
            BY <3>2, <4>5 DEF Complete
          <5> QED BY <3>1, <4>2, <4>3, <5>1, SameUnits DEF UrlInv
        <4> QED BY <4>4, <4>5
      <3>3. CASE WriteAll(w) \/ WriteHalf(w)
        BY <3>2, <3>3 DEF WriteAll, WriteHalf
      <3>4. CASE WriteLittle(w) \/ WriteAgain(w) \/ WriteFails(w)
        <4>1. UNCHANGED <<buf, code, checkState, url, replies>> /\ pc'[w] # "respond"
          BY <1>0, <3>1, <3>4 DEF WriteLittle, WriteAgain, WriteFails, Goto
        <4> QED BY <1>1, <2>1, <3>1, <4>1
      <3> QED BY <2>4, <3>3, <3>4 DEF write
    <2>5. CASE CloseAndDelete(w)
      <3>1. UNCHANGED <<stream, buf, code, checkState, url, sent, replies>> /\ pc'[w] = "idle"
        BY <1>0, <2>5 DEF CloseAndDelete, Goto
      <3> QED BY <1>1, <2>1, <3>1
    <2>6. CASE UseAfterDelete(w)
      BY <1>1, <2>6 DEF UseAfterDelete
    <2> QED BY <1>4, <2>2, <2>3, <2>4, <2>5, <2>6 DEF handle_client_event
  <1> QED BY <1>2, <1>3, <1>4 DEF Next, WorkerStep, OutsideStep

------------------------------------------------------------------------------
(* A client that waits *)

(* Up to the first answer that closes, a HttpConn that is there has been   *)
(* there before.                                                           *)
LEMMA StillThere ==
    ASSUME TypeOK, TokenInv, GoneInv, AnswerInv, UrlInv, [Next]_vars
    PROVE  /\ Closing => Closing'
           /\ ~Closing' /\ ~Gone' => ~Closing /\ ~Gone
  <1>0. /\ pc \in [Workers -> {"idle", "accept", "store"} \cup Places]
    BY DEF TypeOK
  <1>1. Closing => Closing'
    <2>1. ASSUME NEW w \in Workers, handle_client_event(w) PROVE Closing => Closing'
      <3>1. CASE UNCHANGED replies
        BY <3>1 DEF Closing
      <3>2. ASSUME NEW b \in BOOLEAN, At(w, "write"), Complete(w, b) PROVE Closing => Closing'
        <4>1. PICK a \in ReplyType : replies' = Append(replies, a)
          BY <3>2, CompleteFacts
        <4> QED BY <4>1, ReplyFacts
      <3> QED BY <2>1, <3>1, <3>2, RepliesFacts
    <2>2. CASE OutsideStep
      BY <2>2, OutsideFacts DEF Closing, historyVars
    <2>3. ASSUME NEW r \in Requests, ClientSends(r) PROVE Closing => Closing'
      BY <2>3 DEF ClientSends, Closing
    <2> QED BY <2>1, <2>2, <2>3 DEF Next, WorkerStep, OutsideStep
  <1>2. ASSUME ~Closing', ~Gone' PROVE ~Gone
    <2>1. CASE OutsideStep
      BY <1>2, <2>1, OutsideFacts
    <2>2. ASSUME NEW r \in Requests, ClientSends(r) PROVE ~Gone
      <3>1. UNCHANGED <<pc, jobs, alive>>
        BY <2>2 DEF ClientSends, reactorVars, connVars
      <3> QED BY <1>2, <3>1 DEF Gone, Fresh, AtClose
    <2>3. ASSUME NEW w \in Workers, handle_client_event(w) PROVE ~Gone
      <3>1. CASE Busy(w) /\ pc[w] # "accept"
        BY <1>1, <1>2, <3>1, ActiveFacts
      <3>2. CASE CloseAndDelete(w)
        <4>1. /\ AtClose(w) /\ alive' = FALSE /\ pc' = [pc EXCEPT ![w] = "idle"] /\ jobs' = jobs
          BY <3>2 DEF CloseAndDelete, At, Goto, AtClose, reactorVars
        <4>2. Idle
          BY <1>1, <1>2, <4>1 DEF GoneInv, Gone
        <4>3. ~Fresh'
          <5>1. jobs' # <<"listen">>
            BY <4>1, <4>2 DEF Idle
          <5>2. \A v \in Workers : pc'[v] # "accept"
            BY <1>0, <4>1, <4>2 DEF Idle, Busy
          <5> QED BY <5>1, <5>2 DEF Fresh
        <4> QED BY <1>2, <4>1, <4>3 DEF Gone
      <3>3. CASE UseAfterDelete(w)
        <4>1. UNCHANGED <<pc, jobs, alive>>
          BY <3>3 DEF UseAfterDelete, reactorVars, connVars
        <4> QED BY <1>2, <4>1 DEF Gone, Fresh, AtClose
      <3> QED BY <2>3, <3>1, <3>2, <3>3
              DEF handle_client_event, At, read, process, write, LineOpen, parseRequestLine,
                  parseHeaders, parseContent, LineInContent, doRequest, Busy
    <2> QED BY <2>1, <2>2, <2>3 DEF Next, WorkerStep, OutsideStep
  <1> QED BY <1>1, <1>2

(* Where the units of a request are. *)
LEMMA KindFacts ==
    ASSUME NEW r \in AllRequests, NEW n, NEW i \in 1 .. UnitsLen(r)
    PROVE  /\ UnitAt(r, n, i).n = n
           /\ EmptyAt(r) \in 2 .. 4 /\ (r.body => EmptyAt(r) >= 3)
           /\ UnitsLen(r) = IF r.body THEN EmptyAt(r) + 2 ELSE EmptyAt(r)
           /\ UnitAt(r, n, i).kind = "body" <=> i > EmptyAt(r)
           /\ UnitAt(r, n, i).kind = "empty" <=> i = EmptyAt(r)
           /\ UnitAt(r, n, i).kind = "keep-alive" <=> (i = 2 /\ r.keepAlive)
           /\ UnitAt(r, n, i).kind = "length" <=> (i = EmptyAt(r) - 1 /\ r.body)
           /\ UnitAt(r, n, i).kind \in {"good", "bad", "bare"} <=> i = 1
           /\ i = 1 => UnitAt(r, n, i).kind = r.form
  <1>1. r.form \in {"good", "bad", "bare"} /\ r.keepAlive \in BOOLEAN /\ r.body \in BOOLEAN
    BY DEF AllRequests
  <1>2. CASE r.keepAlive /\ r.body
    BY <1>1, <1>2 DEF UnitsLen, EmptyAt, UnitAt
  <1>3. CASE r.keepAlive /\ ~r.body
    BY <1>1, <1>3 DEF UnitsLen, EmptyAt, UnitAt
  <1>4. CASE ~r.keepAlive /\ r.body
    BY <1>1, <1>4 DEF UnitsLen, EmptyAt, UnitAt
  <1>5. CASE ~r.keepAlive /\ ~r.body
    BY <1>1, <1>5 DEF UnitsLen, EmptyAt, UnitAt
  <1> QED BY <1>1, <1>2, <1>3, <1>4, <1>5

(* The parser goes through the one request unit by unit. *)
LEMMA PoliteParse ==
    ASSUME TypeOK, TokenInv, AnswerInv, UrlInv, ~Closing,
           NEW w \in Workers, process(w),
           NEW r \in AllRequests, NEW n \in Nat, r = sent[n],
           Total = UnitsLen(r), \A i \in 1 .. Total : Pending(i) = UnitAt(r, n, i),
           Parsed(r, n)
    PROVE  Parsed(r, n)'
  <1>0. pc \in [Workers -> {"idle", "accept", "store"} \cup Places]
    BY DEF TypeOK
  <1>1. /\ Len(buf) \in Nat /\ Len(stream) \in Nat /\ checked \in 0 .. Len(buf) /\ checked \in Nat
        /\ Len(buf) + Len(stream) = UnitsLen(r) /\ buf \in Seq(UnitSet) /\ stream \in Seq(UnitSet)
    BY PendingFacts DEF TypeOK
  <1>2. /\ EmptyAt(r) \in 2 .. 4 /\ (r.body => EmptyAt(r) >= 3)
        /\ UnitsLen(r) = IF r.body THEN EmptyAt(r) + 2 ELSE EmptyAt(r)
    <2>1. 1 \in 1 .. UnitsLen(r)
      BY DEF UnitsLen, EmptyAt, AllRequests
    <2> QED BY <2>1, KindFacts
  <1>3. ASSUME NEW i \in 1 .. Len(buf)
        PROVE  /\ buf[i].n = n
               /\ buf[i].kind = "body" <=> i > EmptyAt(r)
               /\ buf[i].kind = "empty" <=> i = EmptyAt(r)
               /\ buf[i].kind = "keep-alive" <=> (i = 2 /\ r.keepAlive)
               /\ buf[i].kind = "length" <=> (i = EmptyAt(r) - 1 /\ r.body)
               /\ buf[i].kind \in {"good", "bad", "bare"} <=> i = 1
               /\ i = 1 => buf[i].kind = r.form
    <2>1. i \in 1 .. Total /\ Pending(i) = buf[i]
      BY PendingFacts
    <2>2. buf[i] = UnitAt(r, n, i) /\ i \in 1 .. UnitsLen(r)
      BY <2>1
    <2> QED BY <2>2, KindFacts
  <1>4. /\ pc[w] \in {"parse", "respond"} /\ code = "" /\ UNCHANGED <<stream, buf, sent>>
        /\ \A v \in Workers : v # w => pc'[v] = pc[v] /\ pc'[v] # "respond"
    <2>1. pc[w] \in {"parse", "respond"} /\ UNCHANGED <<stream, buf, sent>>
      BY DEF process, LineOpen, parseRequestLine, parseHeaders, parseContent,
             LineInContent, doRequest, At, clientVars, historyVars
    <2>2. code = ""
      BY <2>1 DEF AnswerInv, ForReader
    <2>3. \A v \in Workers : v # w => pc'[v] = pc[v] /\ pc[v] # "respond"
      <3>1. handle_client_event(w)
        BY DEF handle_client_event
      <3>2. \A v \in Workers : v # w => ~Busy(v)
        BY <2>1, BusyFacts DEF Busy
      <3> QED BY <1>0, <3>1, <3>2, WorkerControl DEF Busy
    <2> QED BY <2>1, <2>2, <2>3
  <1>5. LineEnds # {} =>
           /\ LineEnd \in checked + 1 .. Len(buf) /\ buf[LineEnd].kind # "body"
           /\ \A j \in checked + 1 .. Len(buf) : buf[j].kind # "body" => LineEnd <= j
    BY LineFacts
  <1>6. LineEnds = {} => \A j \in checked + 1 .. Len(buf) : buf[j].kind = "body"
    BY DEF LineEnds
  <1>7. \A j \in checked + 1 .. Len(buf) : j \in 1 .. Len(buf)
    BY <1>1
  <1>8. checkState \in {"REQUESTLINE", "HEADER", "CONTENT"} /\ r.form \in {"good", "bad", "bare"}
        /\ contentLength \in {0, ContentLength}
    BY DEF TypeOK, AllRequests
  <1>9. ASSUME UNCHANGED <<checkState, url, linger, contentLength, code>>,
               checked' = checked \/ (checkState = "CONTENT" /\ checked' >= checked /\ checked' \in Nat),
               pc'[w] # "respond"
        PROVE  Parsed(r, n)'
    <2>1. \A v \in Workers : pc'[v] # "respond"
      BY <1>4, <1>9
    <2>2. code' = ""
      BY <1>4, <1>9
    <2>3. CASE checked' = checked
      BY <1>4, <1>9, <2>1, <2>2, <2>3 DEF Parsed
    <2>4. CASE checkState = "CONTENT" /\ checked' >= checked /\ checked' \in Nat
      <3>1. checked >= EmptyAt(r) /\ r.body /\ contentLength = ContentLength
        <4>1. checked >= EmptyAt(r) /\ r.body
          BY <2>4 DEF Parsed
        <4>2. checked >= EmptyAt(r) - 1
          BY <1>1, <1>2, <4>1
        <4> QED BY <2>4, <4>1, <4>2 DEF Parsed
      <3>2. checked' >= EmptyAt(r) /\ checked' >= EmptyAt(r) - 1 /\ checked' > 1 /\ checked' > 0
            /\ checked > 1
        BY <1>1, <1>2, <2>4, <3>1
      <3> QED BY <1>9, <2>1, <2>2, <2>4, <3>1, <3>2 DEF Parsed
    <2> QED BY <1>9, <2>3, <2>4
  <1>10. CASE LineOpen(w)
    <2>1. /\ checked' = (IF LineEnds = {} THEN Len(buf) ELSE LineEnd - 1) /\ ~LineOk
          /\ UNCHANGED <<checkState, url, linger, contentLength, code>>
          /\ pc'[w] = "idle"
      BY <1>0, <1>10 DEF LineOpen, NeedMore, Goto
    <2>2. CASE LineEnds = {}
      <3>1. checked' = Len(buf)
        BY <2>1, <2>2
      <3>2. ASSUME checked < Len(buf) PROVE checkState = "CONTENT"
        <4>1. checked + 1 \in 1 .. Len(buf) /\ buf[checked + 1].kind = "body"
          BY <1>1, <1>6, <2>2, <3>2
        <4>2. checked + 1 > EmptyAt(r)
          BY <1>3, <4>1
        <4>3. checkState # "REQUESTLINE"
          <5>1. ~(checked = 0)
            BY <1>2, <4>2
          <5> QED BY <1>4, <5>1 DEF Parsed
        <4>4. r.body
          BY <1>1, <1>2, <4>1, <4>2
        <4>5. checkState # "HEADER"
          <5>1. ~(checked < EmptyAt(r))
            BY <1>1, <1>2, <4>2
          <5> QED BY <4>4, <5>1 DEF Parsed
        <4> QED BY <1>8, <4>3, <4>5
      <3> QED BY <1>1, <1>9, <2>1, <3>1, <3>2
    <2>3. CASE LineEnds # {}
      <3>1. buf[LineEnd].kind = "bare" /\ LineEnd \in checked + 1 .. Len(buf)
        BY <1>5, <2>1, <2>3 DEF LineOk
      <3>2. LineEnd = 1
        BY <1>3, <1>7, <3>1
      <3>3. checked' = checked
        BY <1>1, <2>1, <2>3, <3>1, <3>2
      <3> QED BY <1>9, <2>1, <3>3
    <2> QED BY <2>2, <2>3
  <1>11. CASE parseRequestLine(w)
    <2>1. checkState = "REQUESTLINE" /\ LineOk /\ checked' = LineEnd /\ checked = 0
          /\ UNCHANGED <<linger, contentLength>> /\ ~linger /\ contentLength = 0
          /\ url' = buf[checked + 1].n
      BY <1>4, <1>11 DEF parseRequestLine, Parsed
    <2>2. LineEnd \in 1 .. Len(buf) /\ buf[LineEnd].kind # "bare" /\ 1 \in 1 .. Len(buf)
          /\ 1 \in checked + 1 .. Len(buf)
      BY <1>1, <1>5, <2>1 DEF LineOk
    <2>3. buf[1].kind = r.form /\ buf[1].n = n
      BY <1>3, <2>2
    <2>4. LineEnd = 1
      <3>1. buf[1].kind # "body"
        BY <1>8, <2>3
      <3> QED BY <1>1, <1>5, <2>1, <2>2, <3>1 DEF LineOk
    <2>5. url' = n /\ checked' = 1 /\ Text = r.form /\ r.form # "bare"
      BY <2>1, <2>2, <2>3, <2>4 DEF Text
    <2>6. CASE r.form = "good"
      <3>1. checkState' = "HEADER" /\ UNCHANGED <<pc, code>>
        BY <1>11, <2>5, <2>6 DEF parseRequestLine, GoOn
      <3>2. pc[w] = "parse"
        BY <1>11 DEF parseRequestLine, At
      <3>3. \A v \in Workers : pc'[v] # "respond"
        BY <1>4, <3>1, <3>2
      <3>4. ~(1 > 1) /\ ~(r.body /\ 1 >= EmptyAt(r) - 1) /\ 1 <= EmptyAt(r) /\ (r.body => 1 < EmptyAt(r))
            /\ 1 > 0
        BY <1>2
      <3>5. linger' = FALSE /\ contentLength' = 0 /\ code' = ""
        BY <1>4, <2>1, <3>1, <1>8 DEF TypeOK
      <3> QED BY <2>5, <2>6, <3>1, <3>3, <3>4, <3>5 DEF Parsed
    <2>7. CASE r.form = "bad"
      <3>1. checkState' = "REQUESTLINE" /\ code' = "400"
        BY <1>11, <2>1, <2>5, <2>7 DEF parseRequestLine, processWrite
      <3>2. Answer(r) = "400"
        BY <2>7 DEF Answer
      <3>3. ~linger' /\ contentLength' = 0
        BY <2>1
      <3> QED BY <2>5, <2>7, <3>1, <3>2, <3>3 DEF Parsed
    <2> QED BY <1>8, <2>5, <2>6, <2>7
  <1>12. CASE parseHeaders(w)
    <2>1. /\ checkState = "HEADER" /\ LineOk /\ checked' = LineEnd /\ LineEnds # {}
          /\ linger' = (linger \/ Text = "keep-alive")
          /\ contentLength' = IF Text = "length" THEN ContentLength ELSE contentLength
          /\ url' = url /\ pc[w] = "parse" /\ code' = code
      BY <1>12 DEF parseHeaders, LineOk, At, GoOn, GetRequest
    <2>2. /\ r.form = "good" /\ url = n /\ checked > 0
          /\ linger <=> r.keepAlive /\ checked > 1
          /\ contentLength = IF r.body /\ checked >= EmptyAt(r) - 1 THEN ContentLength ELSE 0
          /\ checked <= EmptyAt(r) /\ (r.body => checked < EmptyAt(r))
      BY <2>1 DEF Parsed
    <2>3. checked + 1 \in 1 .. Len(buf) /\ checked + 1 \in checked + 1 .. Len(buf)
      BY <1>1, <1>5, <2>1
    <2>4. checked + 1 <= EmptyAt(r)
      BY <1>1, <1>2, <2>2, <2>3
    <2>5. LineEnd = checked + 1
      <3>1. buf[checked + 1].kind # "body"
        BY <1>1, <1>2, <1>3, <2>3, <2>4
      <3> QED BY <1>1, <1>5, <2>1, <2>3, <3>1
    <2>6. /\ Text = "keep-alive" <=> (checked + 1 = 2 /\ r.keepAlive)
          /\ Text = "length" <=> (checked + 1 = EmptyAt(r) - 1 /\ r.body)
          /\ Text = "empty" <=> checked + 1 = EmptyAt(r)
      BY <1>3, <2>3 DEF Text
    <2>7. checked' = checked + 1 /\ checked' > 1 /\ checked' > 0 /\ checked' <= EmptyAt(r)
      BY <1>1, <2>2, <2>1, <2>4, <2>5
    <2>8. linger' <=> r.keepAlive /\ checked' > 1
      <3>1. checked > 1 \/ checked + 1 = 2
        BY <1>1, <2>2
      <3>2. ~(checked > 1) => checked + 1 = 2
        BY <1>1, <2>2
      <3>3. linger' <=> linger \/ Text = "keep-alive"
        BY <2>1
      <3>4. (checked + 1 = 2) => ~(checked > 1)
        BY <1>1
      <3> QED BY <2>2, <2>6, <2>7, <3>1, <3>2, <3>3, <3>4
    <2>9. contentLength' = IF r.body /\ checked' >= EmptyAt(r) - 1 THEN ContentLength ELSE 0
      <3>1. CASE r.body /\ checked >= EmptyAt(r) - 1
        BY <1>1, <1>2, <2>1, <2>2, <2>6, <2>7, <3>1
      <3>2. CASE r.body /\ checked + 1 = EmptyAt(r) - 1
        BY <1>1, <1>2, <2>1, <2>2, <2>6, <2>7, <3>2
      <3>3. CASE ~(r.body /\ checked + 1 >= EmptyAt(r) - 1)
        BY <1>1, <1>2, <2>1, <2>2, <2>6, <2>7, <3>3
      <3> QED BY <1>1, <1>2, <3>1, <3>2, <3>3
    <2>10. CASE Text # "empty"
      <3>1. checkState' = "HEADER" /\ pc' = pc
        BY <1>12, <2>1, <2>10 DEF parseHeaders, GoOn
      <3>2. \A v \in Workers : pc'[v] # "respond"
        BY <1>4, <2>1, <3>1
      <3>3. r.body => checked' < EmptyAt(r)
        BY <1>1, <1>2, <2>6, <2>7, <2>10
      <3> QED BY <1>4, <2>1, <2>2, <2>7, <2>8, <2>9, <3>1, <3>2, <3>3 DEF Parsed
    <2>11. CASE Text = "empty" /\ contentLength # 0
      <3>1. checkState' = "CONTENT" /\ pc' = pc
        BY <1>12, <2>11 DEF parseHeaders, GoOn
      <3>2. \A v \in Workers : pc'[v] # "respond"
        BY <1>4, <2>1, <3>1
      <3>3. r.body /\ checked' >= EmptyAt(r)
        BY <1>1, <1>2, <2>2, <2>6, <2>7, <2>11
      <3> QED BY <1>4, <2>1, <2>2, <2>7, <2>8, <2>9, <3>1, <3>2, <3>3 DEF Parsed
    <2>12. CASE Text = "empty" /\ contentLength = 0
      <3>1. checkState' = "HEADER"
        BY <1>12, <2>1, <2>12 DEF parseHeaders
      <3>2. ~r.body /\ checked' >= EmptyAt(r)
        <4>1. checked + 1 = EmptyAt(r)
          BY <2>6, <2>12
        <4>2. checked >= EmptyAt(r) - 1
          BY <1>1, <1>2, <4>1
        <4>3. ~r.body
          BY <2>2, <2>12, <4>2 DEF ContentLength
        <4> QED BY <1>2, <2>7, <4>1, <4>3
      <3>3. stream = <<>>
        <4>1. Len(buf) >= UnitsLen(r)
          BY <1>1, <1>2, <2>3, <2>7, <3>2
        <4>2. Len(stream) = 0
          BY <1>1, <4>1, <1>2
        <4> QED BY <1>1, <4>2, EmptySeq
      <3> QED BY <1>4, <2>1, <2>2, <2>7, <2>8, <2>9, <3>1, <3>2, <3>3 DEF Parsed
    <2> QED BY <2>10, <2>11, <2>12
  <1>13. CASE parseContent(w)
    <2>1. /\ checkState = "CONTENT" /\ Len(buf) >= checked + contentLength
          /\ UNCHANGED <<checked, checkState, url, linger, contentLength, code>>
      BY <1>13 DEF parseContent, Content, GetRequest, parseVars
    <2>2. checked >= EmptyAt(r) /\ r.body /\ contentLength = 2
      <3>1. checked >= EmptyAt(r) /\ r.body
        BY <2>1 DEF Parsed
      <3>2. checked >= EmptyAt(r) - 1
        BY <1>1, <1>2, <3>1
      <3> QED BY <2>1, <3>1, <3>2 DEF Parsed, ContentLength
    <2>3. stream = <<>>
      <3>1. Len(stream) = 0
        BY <1>1, <1>2, <2>1, <2>2
      <3> QED BY <1>1, <3>1, EmptySeq
    <2> QED BY <1>4, <2>1, <2>2, <2>3 DEF Parsed
  <1>14. CASE LineInContent(w)
    <2>1. checkState = "CONTENT" /\ LineOk /\ LineEnds # {}
      BY <1>14 DEF LineInContent, LineOk
    <2>2. checked >= EmptyAt(r)
      BY <2>1 DEF Parsed
    <2>3. LineEnd \in 1 .. Len(buf) /\ LineEnd > EmptyAt(r) /\ buf[LineEnd].kind # "body"
      BY <1>1, <1>2, <1>5, <2>1, <2>2
    <2> QED BY <1>3, <2>3
  <1>15. CASE doRequest(w)
    <2>1. pc[w] = "respond" /\ UNCHANGED <<checked, checkState, url, linger, contentLength>>
          /\ pc'[w] = "idle"
      BY <1>0, <1>15 DEF doRequest, At, NeedMore, processWrite, WelcomeFails, Goto, parseVars
    <2>2. checkState # "REQUESTLINE"
      BY <2>1 DEF UrlInv
    <2>3. r.form = "good" /\ url = n /\ stream = <<>> /\ checked >= EmptyAt(r)
      BY <2>1, <2>2 DEF Parsed
    <2>4. CASE code' = code
      BY <1>9, <2>1, <2>4
    <2>5. CASE code' = Answer(r)
      BY <1>4, <2>1, <2>2, <2>3, <2>5 DEF Parsed
    <2>6. code' = code \/ code' = Answer(r)
      BY <1>15, <2>3 DEF doRequest, NeedMore, processWrite, WelcomeFails, Answer
    <2> QED BY <2>4, <2>5, <2>6
  <1> QED BY <1>10, <1>11, <1>12, <1>13, <1>14, <1>15 DEF process

(* PoliteInv in parts: between two requests, and in one. *)
AtRest ==
    /\ buf = <<>> /\ stream = <<>> /\ checked = 0 /\ checkState = "REQUESTLINE"
    /\ ~linger /\ contentLength = 0 /\ code = "" /\ ~torn

InHand(r, n) ==
    /\ Total = UnitsLen(r)
    /\ \A i \in 1 .. Total : Pending(i) = UnitAt(r, n, i)
    /\ Parsed(r, n)
    /\ torn => choked

(* PoliteInv says which of the two holds, by how many answers there are. *)
LEMMA PoliteParts ==
    PoliteInv <=>
         (polite /\ ~Closing =>
            /\ Len(sent) = Len(replies) \/ Len(sent) = Len(replies) + 1
            /\ ~Gone /\ Len(sent) = Len(replies) => AtRest
            /\ ~Gone /\ Len(sent) = Len(replies) + 1 => InHand(sent[Len(sent)], Len(sent)))
  BY DEF PoliteInv, AtRest, InHand

(* The same of the next state, with the request and its number named. *)
LEMMA PolitePartsNext ==
    ASSUME polite' /\ ~Closing' =>
            /\ Len(sent') = Len(replies') \/ Len(sent') = Len(replies') + 1
            /\ ~Gone' /\ Len(sent') = Len(replies') => AtRest'
            /\ ~Gone' /\ Len(sent') = Len(replies') + 1 =>
                  \E r : \E m : r = sent'[Len(sent')] /\ m = Len(sent') /\ InHand(r, m)'
    PROVE  PoliteInv'
  BY DEF PoliteInv, AtRest, InHand, Parsed

(* Between two requests there is nothing to parse. *)
LEMMA RestParse ==
    ASSUME TypeOK, UrlInv, AtRest, NEW w \in Workers, process(w)
    PROVE  AtRest'
  <1>1. Len(buf) = 0 /\ checked = 0 /\ checkState = "REQUESTLINE"
    BY DEF AtRest
  <1>2. LineEnds = {} /\ ~LineOk
    BY <1>1 DEF LineEnds, LineOk
  <1>3. ~Content /\ pc[w] # "respond"
    BY <1>1 DEF Content, UrlInv
  <1>4. LineOpen(w)
    BY <1>1, <1>2, <1>3 DEF process, parseRequestLine, parseHeaders, parseContent,
                            LineInContent, doRequest, At
  <1>5. checked' = 0 /\ UNCHANGED <<checkState, url, linger, contentLength, code>>
    BY <1>1, <1>2, <1>4 DEF LineOpen, NeedMore
  <1>6. UNCHANGED <<stream, buf, torn>>
    BY DEF process, clientVars
  <1> QED BY <1>5, <1>6 DEF AtRest

(* The first answer is complete when the whole request has been read. *)
LEMMA PoliteComplete ==
    ASSUME TypeOK, AnswerInv, UrlInv, ~Closing, NEW w \in Workers, At(w, "write"),
           NEW r \in AllRequests, NEW n \in Nat, InHand(r, n)
    PROVE  /\ url = n /\ code = Answer(r) /\ (linger <=> r.form # "bad" /\ r.keepAlive)
           /\ r.form # "bad" => stream = <<>>
  <1>1. code # ""
    BY DEF AnswerInv, ForWriter, At
  <1>2. /\ code = Answer(r)
        /\ r.form = "bad" \/ (stream = <<>> /\ checked >= EmptyAt(r) /\ checkState # "REQUESTLINE")
    BY <1>1 DEF InHand, Parsed
  <1>3. CASE checkState = "REQUESTLINE"
    BY <1>1, <1>2, <1>3 DEF InHand, Parsed
  <1>4. CASE checkState # "REQUESTLINE"
    <2>1. /\ r.form = "good" /\ url = n /\ checked > 0
          /\ linger <=> r.keepAlive /\ checked > 1
      BY <1>4 DEF InHand, Parsed
    <2>2. checked >= EmptyAt(r)
      BY <1>2, <2>1
    <2>3. checked > 1
      BY <2>2, PendingFacts DEF EmptyAt
    <2> QED BY <1>2, <2>1, <2>3
  <1> QED BY <1>3, <1>4

(* What a client that waits has sent last is in hand, or is answered. *)
LEMMA PoliteStep ==
    ASSUME TypeOK, TokenInv, GoneInv, AnswerInv, UrlInv, PoliteInv, [Next]_vars
    PROVE  PoliteInv'
  <1> USE DEF reactorVars, connVars, parseVars, historyVars, clientVars
  <1>0. pc \in [Workers -> {"idle", "accept", "store"} \cup Places]
    BY DEF TypeOK
  <1>n. PICK n \in Nat : n = Len(sent)
    BY PendingFacts
  <1>1. /\ Closing => Closing'
        /\ ~Closing' /\ ~Gone' => ~Closing /\ ~Gone
    BY StillThere
  <1>2. Len(replies) \in Nat /\ \A i \in 1 .. n : sent[i] \in AllRequests
    BY <1>n, PendingFacts
  <1>3. polite /\ ~Closing =>
            /\ n = Len(replies) \/ n = Len(replies) + 1
            /\ ~Gone /\ n = Len(replies) => AtRest
            /\ ~Gone /\ n = Len(replies) + 1 => InHand(sent[n], n)
    BY <1>n, PoliteParts
  <1>4. ASSUME UNCHANGED <<polite, sent, replies>>,
               ~Closing /\ ~Gone /\ ~Gone' /\ AtRest => AtRest',
               \A r \in AllRequests :
                  ~Closing /\ ~Gone /\ ~Gone' /\ InHand(r, n) /\ r = sent[n] /\ polite => InHand(r, n)'
        PROVE  PoliteInv'
    <2>1. ASSUME polite', ~Closing'
          PROVE  /\ Len(sent') = Len(replies') \/ Len(sent') = Len(replies') + 1
                 /\ ~Gone' /\ Len(sent') = Len(replies') => AtRest'
                 /\ ~Gone' /\ Len(sent') = Len(replies') + 1 =>
                      \E r : \E m : r = sent'[Len(sent')] /\ m = Len(sent') /\ InHand(r, m)'
      <3>1. polite /\ ~Closing
        BY <1>1, <1>4, <2>1
      <3>2. ASSUME ~Gone', n = Len(replies) PROVE AtRest'
        BY <1>1, <1>3, <1>4, <2>1, <3>1, <3>2
      <3>3. ASSUME ~Gone', n = Len(replies) + 1 PROVE \E r : \E m : r = sent'[Len(sent')] /\ m = Len(sent')
                                                                /\ InHand(r, m)'
        <4>1. InHand(sent[n], n) /\ ~Gone
          BY <1>1, <1>3, <2>1, <3>1, <3>3
        <4>2. sent[n] \in AllRequests
          BY <1>2, <3>3
        <4>3. PICK r \in AllRequests : r = sent[n]
          BY <4>2
        <4>4. InHand(r, n)'
          BY <1>4, <3>1, <3>3, <4>1, <4>3
        <4>5. r = sent'[n] /\ n = Len(sent')
          BY <1>n, <1>4, <4>3
        <4> QED BY <4>4, <4>5
      <3> QED BY <1>n, <1>3, <1>4, <3>1, <3>2, <3>3
    <2> QED BY <2>1, PolitePartsNext
  <1>5. CASE OutsideStep
    <2>1. /\ UNCHANGED <<stream, buf, parseVars, code, torn, historyVars>>
          /\ \A v \in Workers : pc'[v] = "respond" <=> pc[v] = "respond"
      BY <1>5, OutsideFacts
    <2>2. AtRest => AtRest'
      BY <2>1 DEF AtRest
    <2>3. ASSUME NEW r \in AllRequests, InHand(r, n) PROVE InHand(r, n)'
      <3>1. Total' = Total /\ \A i : Pending(i)' = Pending(i)
        BY <2>1, SameUnits
      <3>2. Parsed(r, n)'
        BY <2>1, <2>3 DEF InHand, Parsed
      <3> QED BY <2>1, <2>3, <3>1, <3>2 DEF InHand
    <2> QED BY <1>4, <2>1, <2>2, <2>3
  <1>6. ASSUME NEW r \in Requests, ClientSends(r) PROVE PoliteInv'
    <2>1. /\ r \in AllRequests /\ UnitsLen(r) \in Nat /\ Total' = Total + UnitsLen(r)
          /\ \A i \in Total + 1 .. Total' : Pending(i)' = UnitAt(r, n + 1, i - Total)
          /\ Len(sent') = n + 1 /\ sent'[n + 1] = r
      BY <1>n, <1>6, SendPending
    <2>2. /\ polite' = (polite /\ Len(replies) = Len(sent) /\ ~Closing)
          /\ UNCHANGED <<buf, parseVars, code, torn, choked, replies, pc, jobs, alive>>
      BY <1>6 DEF ClientSends
    <2>3. ASSUME polite', ~Gone' PROVE InHand(r, n + 1)'
      <3>1. AtRest
        <4>1. ~Gone
          BY <2>2, <2>3 DEF Gone, Fresh, AtClose
        <4> QED BY <1>n, <1>3, <2>2, <2>3, <4>1
      <3>2. Total = 0
        <4>1. Len(buf) = 0 /\ Len(stream) = 0
          BY <3>1 DEF AtRest
        <4> QED BY <4>1 DEF Total
      <3>3. \A v \in Workers : pc[v] # "respond"
        BY <3>1 DEF AtRest, UrlInv
      <3>4. Parsed(r, n + 1)'
        BY <2>2, <3>1, <3>3 DEF AtRest, Parsed
      <3>5. Total' = UnitsLen(r) /\ \A i \in 1 .. Total' : Pending(i)' = UnitAt(r, n + 1, i)
        BY <2>1, <3>2
      <3>6. torn' => choked'
        BY <2>2, <3>1 DEF AtRest
      <3> QED BY <3>4, <3>5, <3>6 DEF InHand
    <2>4. polite' => Len(sent') = Len(replies') + 1
      BY <1>n, <2>1, <2>2
    <2>5. ~(Len(sent') = Len(replies') + 1 /\ Len(sent') = Len(replies'))
      BY <1>2, <2>2
    <2>6. polite' /\ ~Gone' => \E q : \E m : q = sent'[Len(sent')] /\ m = Len(sent') /\ InHand(q, m)'
      <3>1. ASSUME NEW m, m = n + 1, polite', ~Gone' PROVE InHand(r, m)'
        BY <2>3, <3>1
      <3> QED BY <2>1, <3>1
    <2> QED BY <2>4, <2>5, <2>6, PolitePartsNext
  <1>7. ASSUME NEW w \in Workers, handle_client_event(w) PROVE PoliteInv'
    <2>1. \A v \in Workers : v # w => pc'[v] = pc[v]
      BY <1>0, <1>7, WorkerControl
    <2>2. CASE read(w)
      <3>1. /\ UNCHANGED <<parseVars, code, torn, historyVars>>
            /\ pc[w] = "read" /\ pc'[w] \in {"parse", "close"}
        BY <1>0, <2>2 DEF read, At, Goto
      <3>2. ~Gone' => pc'[w] # "close"
        BY DEF Gone, AtClose
      <3>3. AtRest /\ ~Gone' => AtRest'
        <4>1. ASSUME AtRest, ~Gone' PROVE stream' = <<>> /\ buf' = <<>>
          <5>1. PICK i \in 0 .. Len(stream) :
                   /\ stream' = SubSeq(stream, i + 1, Len(stream))
                   /\ \/ buf' = buf \o SubSeq(stream, 1, i)
                      \/ buf' = buf /\ Goto(w, "close")
            BY <2>2 DEF read
          <5>2. Len(stream) = 0 /\ Len(buf) = 0
            BY <4>1 DEF AtRest
          <5>3. /\ Len(buf \o SubSeq(stream, 1, i)) = Len(buf) + i
                /\ buf \o SubSeq(stream, 1, i) \in Seq(UnitSet)
                /\ stream' \in Seq(UnitSet) /\ Len(stream') = Len(stream) - i
            BY <5>1, ReadFacts
          <5>4. i = 0
            BY <5>2
          <5>5. buf' = buf \o SubSeq(stream, 1, i)
            BY <1>0, <3>2, <4>1, <5>1 DEF Goto
          <5>6. Len(buf') = 0 /\ Len(stream') = 0 /\ buf' \in Seq(UnitSet)
            BY <5>2, <5>3, <5>4, <5>5
          <5> QED BY <5>3, <5>6, EmptySeq
        <4> QED BY <3>1, <4>1 DEF AtRest
      <3>4. ASSUME NEW r \in AllRequests, ~Closing, ~Gone', InHand(r, n) PROVE InHand(r, n)'
        <4>1. Total' = Total /\ \A i \in 1 .. Total : Pending(i)' = Pending(i)
          BY <2>2, <3>2, <3>4, ReadPending
        <4>2. code = ""
          BY <3>1, <3>4 DEF AnswerInv, ForReader
        <4>3. \A v \in Workers : pc'[v] # "respond"
          <5>1. \A v \in Workers : v # w => ~Busy(v)
            BY <3>1, BusyFacts DEF Busy
          <5> QED BY <2>1, <3>1, <5>1 DEF Busy
        <4>4. Parsed(r, n)'
          BY <3>1, <3>4, <4>2, <4>3 DEF InHand, Parsed
        <4> QED BY <3>1, <3>4, <4>1, <4>4 DEF InHand
      <3> QED BY <1>4, <3>1, <3>3, <3>4
    <2>3. CASE process(w)
      <3>1. UNCHANGED <<stream, buf, torn, historyVars>>
        BY <2>3 DEF process
      <3>2. AtRest => AtRest'
        BY <2>3, RestParse
      <3>3. ASSUME NEW r \in AllRequests, ~Closing, InHand(r, n), r = sent[n] PROVE InHand(r, n)'
        <4>1. Parsed(r, n)'
          BY <2>3, <3>3, PoliteParse DEF InHand
        <4>2. Total' = Total /\ \A i : Pending(i)' = Pending(i)
          BY <3>1, SameUnits
        <4> QED BY <3>1, <3>3, <4>1, <4>2 DEF InHand
      <3> QED BY <1>4, <3>1, <3>2, <3>3
    <2>4. CASE write(w)
      <3>1. UNCHANGED <<stream, sent, polite>> /\ At(w, "write") /\ pc[w] = "write"
        BY <2>4 DEF write, At
      <3>2. ~AtRest
        BY <3>1 DEF AtRest, AnswerInv, ForWriter
      <3>3. \A v \in Workers : pc[v] # "respond"
        <4>1. \A v \in Workers : v # w => ~Busy(v)
          BY <3>1, BusyFacts DEF Busy
        <4> QED BY <3>1, <4>1 DEF Busy
      <3>4. ASSUME NEW b \in BOOLEAN, Complete(w, b) PROVE PoliteInv'
        <4>1. PICK a \in ReplyType : replies' = Append(replies, a) /\ a.closing = ~linger
          BY <3>1, <3>4, CompleteFacts
        <4>2. Len(replies') = Len(replies) + 1 /\ (Closing' <=> Closing \/ ~linger)
          BY <4>1, ReplyFacts
        <4>3. ASSUME polite', ~Closing' PROVE n = Len(replies') /\ AtRest'
          <5>1. polite /\ ~Closing /\ linger /\ ~Gone
            <6>1. ~Closing /\ linger
              BY <4>2, <4>3
            <6>2. Busy(w) /\ pc[w] # "accept"
              BY <3>1 DEF Busy
            <6> QED BY <3>1, <4>3, <6>1, <6>2, ActiveFacts
          <5>2. n = Len(replies) + 1 /\ InHand(sent[n], n)
            BY <1>3, <3>2, <5>1
          <5>3. sent[n] \in AllRequests
            BY <1>2, <5>2
          <5>4. stream = <<>>
            BY <3>1, <5>1, <5>2, <5>3, PoliteComplete
          <5>5. init
            BY <3>4, <5>1 DEF Complete
          <5>6. AtRest'
            BY <3>1, <5>4, <5>5 DEF init, AtRest
          <5> QED BY <4>2, <5>2, <5>6
        <4>4. n = Len(replies') => Len(sent') # Len(replies') + 1
          BY <1>n, <3>1
        <4> QED BY <1>n, <3>1, <4>3, <4>4, PolitePartsNext
      <3>5. CASE WriteAll(w) \/ WriteHalf(w)
        BY <3>4, <3>5 DEF WriteAll, WriteHalf
      <3>6. CASE WriteLittle(w) \/ WriteAgain(w) \/ WriteFails(w)
        <4>1. /\ UNCHANGED <<buf, parseVars, code, replies>>
              /\ (torn' => torn \/ choked') /\ (choked => choked')
              /\ pc'[w] # "respond"
          BY <1>0, <3>1, <3>6 DEF WriteLittle, WriteAgain, WriteFails, Goto
        <4>2. ASSUME NEW r \in AllRequests, InHand(r, n) PROVE InHand(r, n)'
          <5>1. \A v \in Workers : pc'[v] # "respond"
            BY <2>1, <3>3, <4>1
          <5>2. Parsed(r, n)'
            BY <3>1, <3>3, <4>1, <4>2, <5>1 DEF InHand, Parsed
          <5>3. Total' = Total /\ \A i : Pending(i)' = Pending(i)
            BY <3>1, <4>1, SameUnits
          <5> QED BY <4>1, <4>2, <5>2, <5>3 DEF InHand
        <4> QED BY <1>4, <3>1, <3>2, <4>1, <4>2
      <3> QED BY <2>4, <3>5, <3>6 DEF write
    <2>5. CASE CloseAndDelete(w) \/ UseAfterDelete(w)
      <3>1. /\ UNCHANGED <<stream, buf, parseVars, code, torn, historyVars>>
            /\ \A v \in Workers : pc'[v] = "respond" <=> pc[v] = "respond"
        BY <1>0, <2>5 DEF CloseAndDelete, UseAfterDelete, At, Goto
      <3>2. AtRest => AtRest'
        BY <3>1 DEF AtRest
      <3>3. ASSUME NEW r \in AllRequests, InHand(r, n) PROVE InHand(r, n)'
        <4>1. Total' = Total /\ \A i : Pending(i)' = Pending(i)
          BY <3>1, SameUnits
        <4>2. Parsed(r, n)'
          BY <3>1, <3>3 DEF InHand, Parsed
        <4> QED BY <3>1, <3>3, <4>1, <4>2 DEF InHand
      <3> QED BY <1>4, <3>1, <3>2, <3>3
    <2> QED BY <1>7, <2>2, <2>3, <2>4, <2>5 DEF handle_client_event
  <1> QED BY <1>5, <1>6, <1>7 DEF Next, WorkerStep, OutsideStep

------------------------------------------------------------------------------
(* A client that does not wait *)

(* What follows the request line of the request that is parsed. *)
LEMMA Position ==
    ASSUME TypeOK, UrlInv, WholeRequests, NEW s \in 1 .. Len(buf),
           Pending(s) = [kind |-> "good", n |-> url], NEW r, r = sent[url]
    PROVE  /\ r \in AllRequests /\ r.body \in BOOLEAN /\ s \in Nat
           /\ EmptyAt(r) \in 2 .. 4 /\ (r.body => EmptyAt(r) >= 3)
           /\ UnitsLen(r) = IF r.body THEN EmptyAt(r) + 2 ELSE EmptyAt(r)
           /\ s - 1 + UnitsLen(r) <= Total
           /\ \A j \in s + UnitsLen(r) .. Total : Pending(j).n > url
           /\ \A i \in 1 .. Len(buf) : i >= s /\ i <= s - 1 + UnitsLen(r) =>
                 /\ buf[i].kind = "body" <=> i > s - 1 + EmptyAt(r)
                 /\ buf[i].kind = "empty" <=> i = s - 1 + EmptyAt(r)
                 /\ buf[i].kind = "length" <=> (i = s - 1 + EmptyAt(r) - 1 /\ r.body)
                 /\ buf[i].kind \in {"good", "bad", "bare"} <=> i = s
  <1>1. /\ Len(buf) \in Nat /\ Total \in Nat /\ s \in Nat /\ s \in 1 .. Total
        /\ Pending(s).n \in 1 .. MaxRequests
    BY PendingFacts
  <1>2. Pending(s).kind = "good" /\ Pending(s).n = url
    OBVIOUS
  <1>3. r \in AllRequests
    <2>1. url <= Len(sent)
      BY DEF UrlInv
    <2>2. url \in Nat /\ url >= 1 /\ Len(sent) \in Nat
      <3>1. MaxRequests \in Nat
        BY SizeAssumption
      <3>2. \A m \in Nat : \A u \in 1 .. m : u \in Nat /\ u >= 1
        OBVIOUS
      <3> QED BY <1>1, <1>2, <3>1, <3>2, PendingFacts
    <2>3. url \in 1 .. Len(sent)
      BY <2>1, <2>2
    <2> QED BY <2>3, PendingFacts
  <1>4. /\ s - 1 + UnitsLen(r) <= Total
        /\ \A k \in 1 .. UnitsLen(r) : Pending(s - 1 + k) = UnitAt(r, url, k)
        /\ \A j \in s + UnitsLen(r) .. Total : Pending(j).n > url
    BY <1>1, <1>2 DEF WholeRequests
  <1>5. UnitsLen(r) \in 2 .. 6 /\ 1 \in 1 .. UnitsLen(r) /\ r.body \in BOOLEAN
    BY <1>3 DEF UnitsLen, EmptyAt, AllRequests
  <1>6. /\ EmptyAt(r) \in 2 .. 4 /\ (r.body => EmptyAt(r) >= 3)
        /\ UnitsLen(r) = IF r.body THEN EmptyAt(r) + 2 ELSE EmptyAt(r)
    BY <1>3, <1>5, KindFacts
  <1>7. ASSUME NEW i \in 1 .. Len(buf), i >= s, i <= s - 1 + UnitsLen(r)
        PROVE  /\ buf[i].kind = "body" <=> i > s - 1 + EmptyAt(r)
               /\ buf[i].kind = "empty" <=> i = s - 1 + EmptyAt(r)
               /\ buf[i].kind = "length" <=> (i = s - 1 + EmptyAt(r) - 1 /\ r.body)
               /\ buf[i].kind \in {"good", "bad", "bare"} <=> i = s
    <2> DEFINE k == i - s + 1
    <2>1. k \in 1 .. UnitsLen(r) /\ s - 1 + k = i
      BY <1>1, <1>5, <1>7
    <2>2. Pending(i) = buf[i]
      BY PendingFacts
    <2>3. k > EmptyAt(r) <=> i > s - 1 + EmptyAt(r)
      BY <1>1, <1>6
    <2>4. k = EmptyAt(r) <=> i = s - 1 + EmptyAt(r)
      BY <1>1, <1>6
    <2>5. k = EmptyAt(r) - 1 <=> i = s - 1 + EmptyAt(r) - 1
      BY <1>1, <1>6
    <2>6. k = 1 <=> i = s
      BY <1>1, <1>6
    <2> HIDE DEF k
    <2>7. buf[i] = UnitAt(r, url, k)
      BY <1>4, <2>1, <2>2
    <2>8. /\ UnitAt(r, url, k).kind = "body" <=> k > EmptyAt(r)
          /\ UnitAt(r, url, k).kind = "empty" <=> k = EmptyAt(r)
          /\ UnitAt(r, url, k).kind = "length" <=> (k = EmptyAt(r) - 1 /\ r.body)
          /\ UnitAt(r, url, k).kind \in {"good", "bad", "bare"} <=> k = 1
      BY <1>3, <2>1, KindFacts
    <2> QED BY <2>3, <2>4, <2>5, <2>6, <2>7, <2>8
  <1> QED BY <1>1, <1>3, <1>4, <1>5, <1>6, <1>7

(* The parser does not leave a request before it has seen all of it. *)
LEMMA OrderParse ==
    ASSUME TypeOK, TokenInv, AnswerInv, UrlInv, ~Closing, WholeRequests, InPlace,
           NEW w \in Workers, process(w)
    PROVE  InPlace'
  <1>0. pc \in [Workers -> {"idle", "accept", "store"} \cup Places]
    BY DEF TypeOK
  <1>1. /\ Len(buf) \in Nat /\ checked \in 0 .. Len(buf) /\ checked \in Nat /\ Total \in Nat
        /\ \A i \in 1 .. Len(buf) : Pending(i) = buf[i] /\ i \in 1 .. Total
        /\ \A i \in 1 .. Total : Pending(i) \in UnitSet
    BY PendingFacts
  <1>2. /\ pc[w] \in {"parse", "respond"} /\ code = "" /\ UNCHANGED <<stream, buf, sent>>
        /\ \A v \in Workers : v # w => pc'[v] = pc[v] /\ pc'[v] # "respond"
    <2>1. pc[w] \in {"parse", "respond"} /\ UNCHANGED <<stream, buf, sent>>
      BY DEF process, LineOpen, parseRequestLine, parseHeaders, parseContent,
             LineInContent, doRequest, At, clientVars, historyVars
    <2>2. code = ""
      BY <2>1 DEF AnswerInv, ForReader
    <2>3. \A v \in Workers : v # w => pc'[v] = pc[v] /\ pc[v] # "respond"
      <3>1. handle_client_event(w)
        BY DEF handle_client_event
      <3>2. \A v \in Workers : v # w => ~Busy(v)
        BY <2>1, BusyFacts DEF Busy
      <3> QED BY <1>0, <3>1, <3>2, WorkerControl DEF Busy
    <2> QED BY <2>1, <2>2, <2>3
  <1>3. \A i : Pending(i)' = Pending(i)
    BY <1>2, SameUnits
  <1>4. LineEnds # {} =>
           /\ LineEnd \in checked + 1 .. Len(buf) /\ buf[LineEnd].kind # "body"
           /\ \A j \in checked + 1 .. Len(buf) : buf[j].kind # "body" => LineEnd <= j
    BY LineFacts
  <1>5. LineEnds = {} => \A j \in checked + 1 .. Len(buf) : buf[j].kind = "body"
    BY DEF LineEnds
  <1>6. checkState \in {"REQUESTLINE", "HEADER", "CONTENT"} /\ contentLength \in {0, ContentLength}
    BY DEF TypeOK
  <1>7. CASE parseRequestLine(w)
    <2>1. checkState = "REQUESTLINE" /\ LineOk /\ checked' = LineEnd /\ linger' = linger
          /\ url' = buf[checked + 1].n /\ LineEnds # {} /\ pc[w] = "parse"
      BY <1>7 DEF parseRequestLine, LineOk, At
    <2>2. CASE Text # "good"
      <3>1. checkState' = checkState
        BY <1>7, <2>2 DEF parseRequestLine
      <3> QED BY <2>1, <3>1 DEF InPlace
    <2>3. CASE Text = "good"
      <3>1. checkState' = "HEADER" /\ UNCHANGED <<pc, code>>
        BY <1>7, <2>3 DEF parseRequestLine, GoOn
      <3>2. checked + 1 \in 1 .. Len(buf) /\ checked + 1 \in checked + 1 .. Len(buf)
        BY <1>1, <1>4, <2>1
      <3>3. LineEnd = checked + 1
        <4>1. buf[checked + 1].kind # "body"
          BY <2>3 DEF Text
        <4> QED BY <1>1, <1>4, <2>1, <3>2, <4>1
      <3>4. PICK s \in 1 .. Len(buf) : s = checked + 1
        BY <3>2
      <3>5. Pending(s) = [kind |-> "good", n |-> url']
        <4>1. buf[s] \in UnitSet /\ buf[s].kind = "good" /\ buf[s].n = url' /\ Pending(s) = buf[s]
          BY <1>1, <2>1, <2>3, <3>4 DEF Text
        <4> QED BY <4>1 DEF UnitSet
      <3>6. PICK r : r = sent'[url']
        OBVIOUS
      <3>7. r \in AllRequests
        <4>1. url' <= Len(sent)
          <5>1. s \in 1 .. Total
            BY <1>1
          <5>2. Pending(s).n <= Len(sent)
            BY <5>1 DEF UrlInv
          <5>3. Pending(s).n = url'
            BY <3>5
          <5> QED BY <5>2, <5>3
        <4>2. url' \in Nat /\ url' >= 1 /\ Len(sent) \in Nat
          <5>1. MaxRequests \in Nat
            BY SizeAssumption
          <5>2. \A m \in Nat : \A u \in 1 .. m : u \in Nat /\ u >= 1
            OBVIOUS
          <5>3. url' \in 1 .. MaxRequests
            BY <1>1, <3>5, PendingFacts
          <5> QED BY <5>1, <5>2, <5>3, PendingFacts
        <4>3. url' \in 1 .. Len(sent)
          BY <4>1, <4>2
        <4> QED BY <1>2, <3>6, <4>3, PendingFacts
      <3>8. EmptyAt(r) \in 2 .. 4 /\ (r.body => EmptyAt(r) >= 3)
        BY <3>7 DEF EmptyAt, AllRequests
      <3>e. PICK e \in Nat : e = s - 1 + EmptyAt(r)
        BY <1>1, <3>8
      <3>9. /\ (r.body => checked' < e) /\ ~(r.body /\ checked' >= e - 1)
            /\ s \in 1 .. checked'
        BY <1>1, <2>1, <3>3, <3>4, <3>8, <3>e
      <3>10. \A v \in Workers : pc'[v] # "respond"
        BY <1>2, <2>1, <3>1
      <3>11. InRequest(s)'
        <4>1. Pending(s)' = [kind |-> "good", n |-> url'] /\ code' = ""
          BY <1>2, <1>3, <3>1, <3>5
        <4>2. ~(code' # "" \/ \E v \in Workers : pc'[v] = "respond")
          BY <3>10, <4>1
        <4> QED BY <3>1, <3>6, <3>9, <3>e, <4>1, <4>2 DEF InRequest
      <3> QED BY <3>1, <3>9, <3>11 DEF InPlace
    <2> QED BY <2>2, <2>3
  <1>8. CASE checkState = "REQUESTLINE" /\ ~parseRequestLine(w)
    <2>1. pc[w] # "respond"
      BY <1>8 DEF UrlInv
    <2>2. LineOpen(w)
      BY <1>8, <2>1 DEF process, parseHeaders, parseContent, LineInContent, doRequest, At, Content
    <2> QED BY <1>8, <2>2 DEF LineOpen, InPlace
  <1>9. CASE checkState # "REQUESTLINE"
    <2>1. PICK s \in 1 .. checked : InRequest(s)
      BY <1>9 DEF InPlace
    <2>2. PICK r : r = sent[url]
      OBVIOUS
    <2> DEFINE e == s - 1 + EmptyAt(r)
    <2>3. /\ Pending(s) = [kind |-> "good", n |-> url]
          /\ checkState = "HEADER" /\ r.body => checked < e
          /\ r.body /\ checked >= e - 1 => contentLength = ContentLength
          /\ checkState = "CONTENT" => checked >= e /\ contentLength = ContentLength
          /\ (\E v \in Workers : pc[v] = "respond") => Len(buf) >= s - 1 + UnitsLen(r)
      BY <2>1, <2>2 DEF InRequest
    <2>4. s \in 1 .. Len(buf)
      BY <1>1
    <2>5. /\ r.body \in BOOLEAN /\ s \in Nat /\ EmptyAt(r) \in 2 .. 4 /\ (r.body => EmptyAt(r) >= 3)
          /\ UnitsLen(r) = IF r.body THEN EmptyAt(r) + 2 ELSE EmptyAt(r)
          /\ \A i \in 1 .. Len(buf) : i >= s /\ i <= s - 1 + UnitsLen(r) =>
                 /\ buf[i].kind = "body" <=> i > s - 1 + EmptyAt(r)
                 /\ buf[i].kind = "empty" <=> i = s - 1 + EmptyAt(r)
                 /\ buf[i].kind = "length" <=> (i = s - 1 + EmptyAt(r) - 1 /\ r.body)
                 /\ buf[i].kind \in {"good", "bad", "bare"} <=> i = s
      BY <2>2, <2>3, <2>4, Position
    <2>6. e \in Nat /\ s < e /\ s <= checked /\ s - 1 + UnitsLen(r) = (IF r.body THEN e + 2 ELSE e)
      BY <1>1, <2>5
    <2>7. \A i \in 1 .. Len(buf) : i > s /\ i <= e =>
             /\ buf[i].kind # "body" /\ buf[i].kind # "bare"
             /\ buf[i].kind = "empty" <=> i = e
             /\ buf[i].kind = "length" <=> (i = e - 1 /\ r.body)
      <3> TAKE i \in 1 .. Len(buf)
      <3> HAVE i > s /\ i <= e
      <3>1. i >= s /\ i <= s - 1 + UnitsLen(r) /\ i # s
        BY <1>1, <2>5, <2>6
      <3>2. /\ buf[i].kind = "body" <=> i > e
            /\ buf[i].kind = "empty" <=> i = e
            /\ buf[i].kind = "length" <=> (i = e - 1 /\ r.body)
            /\ buf[i].kind \in {"good", "bad", "bare"} <=> i = s
        BY <2>5, <3>1
      <3> QED BY <1>1, <2>6, <3>1, <3>2
    <2>8. e = s - 1 + EmptyAt(r)
      OBVIOUS
    <2> HIDE DEF e
    <2>9. ASSUME url' = url, checkState' # "REQUESTLINE", checked' \in Nat, checked' >= checked,
                 checkState' = "HEADER" /\ r.body => checked' < e,
                 r.body /\ checked' >= e - 1 => contentLength' = ContentLength,
                 checkState' = "CONTENT" => checked' >= e /\ contentLength' = ContentLength,
                 code' # "" \/ pc'[w] = "respond" => Len(buf) >= s - 1 + UnitsLen(r)
          PROVE  InPlace'
      <3>1. s \in 1 .. checked'
        <4>1. s \in Nat /\ s >= 1 /\ s <= checked /\ checked \in Nat
          BY <1>1, <2>5
        <4>2. checked' \in Nat /\ checked' >= checked
          BY <2>9
        <4> QED BY <4>1, <4>2
      <3>2. (\E v \in Workers : pc'[v] = "respond") => pc'[w] = "respond"
        BY <1>2
      <3>3. r = sent'[url']
        BY <1>2, <2>2, <2>9
      <3>4. InRequest(s)'
        BY <1>2, <1>3, <2>3, <2>8, <2>9, <3>2, <3>3 DEF InRequest
      <3> QED BY <2>9, <3>1, <3>4 DEF InPlace
    <2>10. ASSUME checkState = "HEADER", r.body, checked < Len(buf)
           PROVE  checked + 1 \in 1 .. Len(buf) /\ LineEnds # {} /\ LineEnd = checked + 1 /\ LineOk
                  /\ checked + 1 <= e
      <3>1. checked + 1 \in 1 .. Len(buf) /\ checked + 1 \in checked + 1 .. Len(buf)
            /\ checked + 1 > s /\ checked + 1 <= e
        BY <1>1, <2>3, <2>6, <2>10
      <3>2. buf[checked + 1].kind # "body" /\ buf[checked + 1].kind # "bare"
        BY <2>7, <3>1
      <3>3. LineEnds # {}
        BY <1>5, <3>1, <3>2
      <3>4. LineEnd = checked + 1
        BY <1>1, <1>4, <3>1, <3>2, <3>3
      <3> QED BY <3>1, <3>2, <3>3, <3>4 DEF LineOk
    <2>11. CASE LineOpen(w)
      <3>1. /\ checked' = (IF LineEnds = {} THEN Len(buf) ELSE LineEnd - 1) /\ ~LineOk
            /\ UNCHANGED <<checkState, url, contentLength, code>> /\ pc'[w] = "idle"
        BY <1>0, <2>11 DEF LineOpen, NeedMore, Goto
      <3>2. checked' \in Nat /\ checked' >= checked
        <4>1. CASE LineEnds = {}
          BY <1>1, <3>1, <4>1
        <4>2. CASE LineEnds # {}
          <5>1. LineEnd \in checked + 1 .. Len(buf) /\ checked' = LineEnd - 1
            BY <1>4, <3>1, <4>2
          <5> QED BY <1>1, <5>1
        <4> QED BY <4>1, <4>2
      <3>3. checkState = "HEADER" /\ r.body => checked' = checked
        <4>1. ASSUME checkState = "HEADER", r.body PROVE checked' = checked
          <5>1. checked = Len(buf)
            BY <1>1, <2>10, <3>1, <4>1
          <5>2. LineEnds = {}
            BY <1>1, <5>1 DEF LineEnds
          <5> QED BY <3>1, <5>1, <5>2
        <4> QED BY <4>1
      <3>4. checkState = "CONTENT" => checked' >= e
        BY <1>1, <2>3, <2>6, <3>2
      <3>5. r.body /\ checked' >= e - 1 => contentLength = ContentLength
        BY <1>6, <1>9, <2>3, <3>3
      <3> QED BY <1>2, <1>9, <2>3, <2>9, <3>1, <3>2, <3>3, <3>4, <3>5
    <2>12. CASE parseHeaders(w)
      <3>1. /\ checkState = "HEADER" /\ LineOk /\ checked' = LineEnd /\ LineEnds # {}
            /\ contentLength' = (IF Text = "length" THEN ContentLength ELSE contentLength)
            /\ url' = url /\ pc[w] = "parse" /\ code' = "" /\ pc[w] # "respond"
        BY <1>2, <2>12 DEF parseHeaders, LineOk, At, GoOn, GetRequest
      <3>2. checked' \in Nat /\ checked' >= checked + 1 /\ checked' <= Len(buf)
            /\ checked + 1 \in 1 .. Len(buf) /\ checked < Len(buf) /\ checked' >= checked
        <4>1. LineEnd \in checked + 1 .. Len(buf) /\ checked' = LineEnd
          BY <1>4, <3>1
        <4> QED BY <1>1, <4>1
      <3>3. checked + 1 <= e => /\ Text = "empty" <=> checked + 1 = e
                                /\ Text = "length" <=> (checked + 1 = e - 1 /\ r.body)
        <4>1. checked + 1 > s
          BY <1>1, <2>6
        <4> QED BY <2>7, <3>2, <4>1 DEF Text
      <3>4. r.body => checked' = checked + 1 /\ checked + 1 <= e
        BY <2>10, <3>1, <3>2
      <3>5. r.body /\ checked' >= e - 1 => contentLength' = ContentLength
        <4>1. ASSUME r.body, checked' >= e - 1 PROVE contentLength' = ContentLength
          <5>1. CASE checked >= e - 1
            BY <2>3, <3>1, <4>1, <5>1
          <5>2. CASE ~(checked >= e - 1)
            <6>1. checked + 1 = e - 1
              BY <1>1, <2>6, <3>4, <4>1, <5>2
            <6> QED BY <3>1, <3>3, <3>4, <4>1, <6>1
          <5> QED BY <5>1, <5>2
        <4> QED BY <4>1
      <3>6. CASE Text # "empty"
        <4>1. checkState' = "HEADER" /\ pc' = pc
          BY <2>12, <3>1, <3>6 DEF parseHeaders, GoOn
        <4>2. r.body => checked' < e
          BY <1>1, <2>6, <3>3, <3>4, <3>6
        <4> QED BY <2>9, <3>1, <3>2, <3>5, <4>1, <4>2
      <3>7. CASE Text = "empty"
        <4>1. checked + 1 >= e
          BY <1>1, <2>6, <3>3, <3>7
        <4>2. checked' >= e /\ Len(buf) >= e
          BY <1>1, <2>6, <3>2, <4>1
        <4>3. CASE contentLength # 0
          <5>1. checkState' = "CONTENT" /\ pc' = pc /\ contentLength' = ContentLength
            BY <1>6, <2>12, <3>1, <3>7, <4>3 DEF parseHeaders, GoOn
          <5> QED BY <2>9, <3>1, <3>2, <3>5, <4>2, <5>1
        <4>4. CASE contentLength = 0
          <5>1. ~r.body
            <6>1. checked >= e - 1
              BY <1>1, <2>6, <4>1
            <6> QED BY <2>3, <4>4, <6>1 DEF ContentLength
          <5>2. checkState' = "HEADER"
            BY <2>12, <3>1, <3>7, <4>4 DEF parseHeaders
          <5>3. Len(buf) >= s - 1 + UnitsLen(r)
            BY <2>6, <4>2, <5>1
          <5> QED BY <2>9, <3>1, <3>2, <5>1, <5>2, <5>3
        <4> QED BY <4>3, <4>4
      <3> QED BY <3>6, <3>7
    <2>13. CASE parseContent(w)
      <3>1. /\ checkState = "CONTENT" /\ Len(buf) >= checked + contentLength
            /\ UNCHANGED <<checked, checkState, url, contentLength, code>>
        BY <2>13 DEF parseContent, Content, GetRequest, parseVars
      <3>2. checked >= e /\ contentLength = 2
        BY <2>3, <3>1 DEF ContentLength
      <3>3. Len(buf) >= s - 1 + UnitsLen(r)
        BY <1>1, <2>5, <2>6, <3>1, <3>2
      <3>4. checked' \in Nat /\ checked' >= checked
        BY <1>1, <3>1
      <3> QED BY <1>9, <2>3, <2>9, <3>1, <3>3, <3>4
    <2>14. CASE LineInContent(w)
      <3>1. /\ checkState = "CONTENT" /\ checked' = LineEnd /\ LineEnds # {} /\ pc[w] = "parse"
            /\ UNCHANGED <<checkState, url, contentLength, code, pc>>
        BY <2>14 DEF LineInContent, LineOk, GoOn, At
      <3>2. checked' \in Nat /\ checked' >= checked
        BY <1>1, <1>4, <3>1
      <3>3. checked >= e /\ contentLength = ContentLength
        BY <2>3, <3>1
      <3>4. checked' >= e
        BY <1>1, <2>6, <3>2, <3>3
      <3> QED BY <1>2, <2>9, <3>1, <3>2, <3>3, <3>4
    <2>15. CASE doRequest(w)
      <3>1. pc[w] = "respond" /\ UNCHANGED <<checked, checkState, url, contentLength>>
        BY <2>15 DEF doRequest, At, parseVars
      <3>2. checked' \in Nat /\ checked' >= checked
        BY <1>1, <3>1
      <3> QED BY <1>9, <2>3, <2>9, <3>1, <3>2
    <2> QED BY <1>9, <2>11, <2>12, <2>13, <2>14, <2>15 DEF process, parseRequestLine
  <1> QED BY <1>7, <1>8, <1>9

(* The request that a pending unit belongs to. *)
LEMMA PendingRequest ==
    ASSUME TypeOK, UrlInv, NEW i \in 1 .. Total
    PROVE  /\ Pending(i).n \in 1 .. Len(sent) /\ sent[Pending(i).n] \in AllRequests
           /\ UnitsLen(sent[Pending(i).n]) \in Nat /\ UnitsLen(sent[Pending(i).n]) >= 2
  <1>1. Pending(i).n \in 1 .. MaxRequests /\ Pending(i).n \in Nat /\ Len(sent) \in Nat
    BY PendingFacts
  <1>2. Pending(i).n <= Len(sent)
    BY DEF UrlInv
  <1>3. Pending(i).n \in 1 .. Len(sent)
    <2>1. MaxRequests \in Nat
      BY SizeAssumption
    <2>2. \A m \in Nat : \A u \in 1 .. m : u >= 1
      OBVIOUS
    <2>3. Pending(i).n >= 1
      BY <1>1, <2>1, <2>2
    <2> QED BY <1>1, <1>2, <2>3
  <1>4. sent[Pending(i).n] \in AllRequests
    BY <1>3, PendingFacts
  <1>5. \A r \in AllRequests : UnitsLen(r) \in Nat /\ UnitsLen(r) >= 2
    BY DEF UnitsLen, EmptyAt
  <1> QED BY <1>3, <1>4, <1>5

(* A new request is added as a whole. *)
LEMMA WholeSend ==
    ASSUME TypeOK, UrlInv, WholeRequests, NEW r \in Requests, ClientSends(r)
    PROVE  WholeRequests'
  <1>1. /\ r \in AllRequests /\ UnitsLen(r) \in Nat /\ Total' = Total + UnitsLen(r)
        /\ \A i \in 1 .. Total : Pending(i)' = Pending(i)
        /\ \A i \in Total + 1 .. Total' : Pending(i)' = UnitAt(r, Len(sent) + 1, i - Total)
        /\ Len(sent') = Len(sent) + 1 /\ sent'[Len(sent) + 1] = r
        /\ \A i \in 1 .. Len(sent) : sent'[i] = sent[i]
    BY SendPending
  <1>2. Total \in Nat /\ Len(sent) \in Nat /\ \A i \in 1 .. Total : Pending(i).n \in Nat
    BY PendingFacts
  <1>3. ASSUME NEW i \in 1 .. Total', Pending(i)'.kind = "good"
        PROVE  /\ i - 1 + UnitsLen(sent'[Pending(i)'.n]) <= Total'
               /\ \A k \in 1 .. UnitsLen(sent'[Pending(i)'.n]) :
                     Pending(i - 1 + k)' = UnitAt(sent'[Pending(i)'.n], Pending(i)'.n, k)
               /\ \A j \in i + UnitsLen(sent'[Pending(i)'.n]) .. Total' : Pending(j)'.n > Pending(i)'.n
    <2>1. CASE i <= Total
      <3>1. i \in 1 .. Total
        BY <1>2, <2>1
      <3>2. PICK m, q : m = Pending(i).n /\ q = sent[m]
        OBVIOUS
      <3>3. m \in 1 .. Len(sent) /\ UnitsLen(q) \in Nat /\ UnitsLen(q) >= 2 /\ Pending(i)' = Pending(i)
        BY <1>1, <3>1, <3>2, PendingRequest
      <3>4. sent'[m] = q
        BY <1>1, <3>2, <3>3
      <3>5. /\ i - 1 + UnitsLen(q) <= Total
            /\ \A k \in 1 .. UnitsLen(q) : Pending(i - 1 + k) = UnitAt(q, m, k)
            /\ \A j \in i + UnitsLen(q) .. Total : Pending(j).n > m
        BY <1>3, <3>1, <3>2, <3>3 DEF WholeRequests
      <3>6. \A k \in 1 .. UnitsLen(q) : Pending(i - 1 + k)' = UnitAt(q, m, k)
        <4>1. \A k \in 1 .. UnitsLen(q) : i - 1 + k \in 1 .. Total
          BY <1>2, <3>1, <3>3, <3>5
        <4> QED BY <1>1, <3>5, <4>1
      <3>7. ASSUME NEW j \in i + UnitsLen(q) .. Total' PROVE Pending(j)'.n > m
        <4>1. CASE j <= Total
          <5>1. j \in i + UnitsLen(q) .. Total /\ j \in 1 .. Total
            BY <1>2, <3>1, <3>3, <3>7, <4>1
          <5> QED BY <1>1, <3>5, <5>1
        <4>2. CASE j > Total
          <5>1. j \in Total + 1 .. Total'
            BY <1>1, <1>2, <3>1, <3>3, <3>7, <4>2
          <5>2. Pending(j)'.n = Len(sent) + 1
            BY <1>1, <5>1 DEF UnitAt
          <5> QED BY <1>2, <3>3, <5>2
        <4> QED BY <1>1, <1>2, <3>1, <3>3, <3>7, <4>1, <4>2
      <3>8. i - 1 + UnitsLen(q) <= Total'
        BY <1>1, <1>2, <3>1, <3>3, <3>5
      <3> QED BY <3>2, <3>3, <3>4, <3>6, <3>7, <3>8
    <2>2. CASE i > Total
      <3>1. i \in Total + 1 .. Total' /\ i - Total \in 1 .. UnitsLen(r)
        BY <1>1, <1>2, <2>2
      <3>2. Pending(i)' = UnitAt(r, Len(sent) + 1, i - Total)
        BY <1>1, <3>1
      <3>3. i - Total = 1
        BY <1>1, <1>3, <3>1, <3>2, KindFacts
      <3>4. i = Total + 1
        BY <1>2, <3>1, <3>3
      <3>5. Pending(i)'.n = Len(sent) + 1
        BY <3>2 DEF UnitAt
      <3>6. sent'[Pending(i)'.n] = r
        BY <1>1, <3>5
      <3>7. i - 1 + UnitsLen(r) <= Total' /\ \A j \in i + UnitsLen(r) .. Total' : FALSE
        BY <1>1, <1>2, <3>4
      <3>8. \A k \in 1 .. UnitsLen(r) : Pending(i - 1 + k)' = UnitAt(r, Len(sent) + 1, k)
        <4>1. ASSUME NEW k \in 1 .. UnitsLen(r)
              PROVE  Pending(i - 1 + k)' = UnitAt(r, Len(sent) + 1, k)
          <5>1. i - 1 + k = Total + k /\ Total + k \in Total + 1 .. Total' /\ (Total + k) - Total = k
            BY <1>1, <1>2, <3>4
          <5> QED BY <1>1, <5>1
        <4> QED BY <4>1
      <3> QED BY <3>5, <3>6, <3>7, <3>8
    <2> QED BY <1>1, <1>2, <2>1, <2>2
  <1> QED BY <1>3 DEF WholeRequests

(* What is read, or dropped from the front, leaves whole requests. *)
LEMMA WholeShift ==
    ASSUME TypeOK, UrlInv, WholeRequests, sent' = sent, NEW d \in Nat, Total' \in Nat, Total = Total' + d,
           \A i \in 1 .. Total' : Pending(i)' = Pending(d + i)
    PROVE  WholeRequests'
  <1>1. ASSUME NEW i \in 1 .. Total', Pending(i)'.kind = "good"
        PROVE  /\ i - 1 + UnitsLen(sent'[Pending(i)'.n]) <= Total'
               /\ \A k \in 1 .. UnitsLen(sent'[Pending(i)'.n]) :
                     Pending(i - 1 + k)' = UnitAt(sent'[Pending(i)'.n], Pending(i)'.n, k)
               /\ \A j \in i + UnitsLen(sent'[Pending(i)'.n]) .. Total' : Pending(j)'.n > Pending(i)'.n
    <2>0. PICK t \in Nat : t = Total' /\ Total = t + d
      OBVIOUS
    <2>i. i \in Nat /\ i >= 1 /\ i <= t
      BY <2>0
    <2>1. d + i \in 1 .. Total /\ Pending(i)' = Pending(d + i)
      <3>1. d + i \in 1 .. t + d
        BY <2>i
      <3> QED BY <2>0, <3>1
    <2>2. PICK m, q : m = Pending(d + i).n /\ q = sent[m]
      OBVIOUS
    <2>3. UnitsLen(q) \in Nat /\ UnitsLen(q) >= 2
      BY <2>1, <2>2, PendingRequest
    <2>4. /\ (d + i) - 1 + UnitsLen(q) <= Total
          /\ \A k \in 1 .. UnitsLen(q) : Pending((d + i) - 1 + k) = UnitAt(q, m, k)
          /\ \A j \in (d + i) + UnitsLen(q) .. Total : Pending(j).n > m
      BY <1>1, <2>1, <2>2 DEF WholeRequests
    <2>5. i - 1 + UnitsLen(q) <= Total'
      BY <2>3, <2>4
    <2>6. ASSUME NEW k \in 1 .. UnitsLen(q) PROVE Pending(i - 1 + k)' = UnitAt(q, m, k)
      <3>1. i - 1 + k \in 1 .. Total' /\ d + (i - 1 + k) = (d + i) - 1 + k
        BY <2>3, <2>5
      <3> QED BY <2>4, <3>1
    <2>7. ASSUME NEW j \in i + UnitsLen(q) .. Total' PROVE Pending(j)'.n > m
      <3>1. j \in 1 .. t /\ d + j \in (d + i) + UnitsLen(q) .. t + d
        <4>1. PICK u \in Nat : u = UnitsLen(q) /\ u >= 2
          BY <2>3
        <4>2. j \in i + u .. t
          BY <2>0, <4>1
        <4>3. j \in 1 .. t /\ d + j \in (d + i) + u .. t + d
          BY <2>i, <4>1, <4>2
        <4> QED BY <4>1, <4>3
      <3> QED BY <2>0, <2>4, <3>1
    <2> QED BY <2>1, <2>2, <2>5, <2>6, <2>7
  <1> QED BY <1>1 DEF WholeRequests

(* The answers come in the order of the requests, and nothing that has     *)
(* been answered is left.                                                  *)
LEMMA OrderStep ==
    ASSUME TypeOK, TokenInv, GoneInv, AnswerInv, UrlInv, OrderInv, [Next]_vars
    PROVE  OrderInv'
  <1> USE DEF reactorVars, connVars, parseVars, historyVars, clientVars
  <1>0. pc \in [Workers -> {"idle", "accept", "store"} \cup Places]
    BY DEF TypeOK
  <1> SUFFICES ASSUME ~Closing', ~Gone' PROVE WholeRequests' /\ YoungerLeft' /\ InPlace'
    BY DEF OrderInv
  <1>1. ~Closing /\ ~Gone /\ WholeRequests /\ YoungerLeft /\ InPlace
    BY StillThere DEF OrderInv
  <1>2. /\ Len(buf) \in Nat /\ Total \in Nat /\ checked \in Nat /\ checked \in 0 .. Len(buf)
        /\ Len(sent) \in Nat /\ Len(replies) \in Nat /\ url \in Nat
        /\ \A i \in 1 .. Len(buf) : i \in 1 .. Total
        /\ \A i \in 1 .. Total : Pending(i).n \in Nat
        /\ \A i \in 1 .. Len(replies) : replies[i].n \in Nat
    BY PendingFacts
  <1>3. ASSUME UNCHANGED <<stream, buf, sent, replies, url>>, InPlace'
        PROVE  WholeRequests' /\ YoungerLeft' /\ InPlace'
    <2>1. Total' = Total /\ \A i : Pending(i)' = Pending(i)
      BY <1>3, SameUnits
    <2> QED BY <1>1, <1>3, <2>1 DEF WholeRequests, YoungerLeft
  <1>4. ASSUME UNCHANGED <<stream, buf, parseVars, code, sent, replies>>,
               \A v \in Workers : pc'[v] = "respond" => pc[v] = "respond"
        PROVE  WholeRequests' /\ YoungerLeft' /\ InPlace'
    <2>1. \A i : Pending(i)' = Pending(i)
      BY <1>4, SameUnits
    <2>2. ASSUME NEW s \in 1 .. checked, InRequest(s) PROVE InRequest(s)'
      BY <1>4, <2>1, <2>2 DEF InRequest
    <2>3. InPlace'
      BY <1>1, <1>4, <2>2 DEF InPlace
    <2> QED BY <1>3, <1>4, <2>3
  <1>5. CASE OutsideStep
    <2>1. /\ UNCHANGED <<stream, buf, parseVars, code, sent, replies>>
          /\ \A v \in Workers : pc'[v] = "respond" => pc[v] = "respond"
      BY <1>5, OutsideFacts
    <2> QED BY <1>4, <2>1
  <1>6. ASSUME NEW r \in Requests, ClientSends(r)
        PROVE  WholeRequests' /\ YoungerLeft' /\ InPlace'
    <2>1. /\ UnitsLen(r) \in Nat /\ Total' = Total + UnitsLen(r)
          /\ \A i \in 1 .. Total : Pending(i)' = Pending(i)
          /\ \A i \in Total + 1 .. Total' : Pending(i)' = UnitAt(r, Len(sent) + 1, i - Total)
          /\ \A i \in 1 .. Len(sent) : sent'[i] = sent[i]
      BY <1>6, SendPending
    <2>2. UNCHANGED <<buf, parseVars, code, replies, pc>>
      BY <1>6 DEF ClientSends
    <2>3. WholeRequests'
      BY <1>1, <1>6, WholeSend
    <2>4. YoungerLeft'
      <3>1. ASSUME NEW j \in 1 .. Len(replies), NEW i \in 1 .. Total'
            PROVE  replies[j].n < Pending(i)'.n
        <4>1. CASE i <= Total
          BY <1>1, <1>2, <2>1, <3>1, <4>1 DEF YoungerLeft
        <4>2. CASE i > Total
          <5>1. i \in Total + 1 .. Total'
            BY <1>2, <2>1, <3>1, <4>2
          <5>2. Pending(i)'.n = Len(sent) + 1
            BY <2>1, <5>1 DEF UnitAt
          <5>3. replies[j].n <= Len(sent) /\ replies[j].n \in Nat
            BY <1>2, <3>1 DEF UrlInv
          <5> QED BY <1>2, <5>2, <5>3
        <4> QED BY <1>2, <2>1, <3>1, <4>1, <4>2
      <3> QED BY <1>1, <2>2, <3>1 DEF YoungerLeft
    <2>5. InPlace'
      <3>1. ASSUME NEW s \in 1 .. checked, InRequest(s), checkState # "REQUESTLINE" PROVE InRequest(s)'
        <4>1. sent'[url] = sent[url]
          <5>1. url > 0 /\ url <= Len(sent)
            BY <3>1 DEF UrlInv
          <5>2. url \in 1 .. Len(sent)
            BY <1>2, <5>1
          <5> QED BY <2>1, <5>2
        <4>2. Pending(s)' = Pending(s)
          <5>1. s \in 1 .. Len(buf)
            BY <1>2
          <5> QED BY <1>2, <2>1, <5>1
        <4> QED BY <2>2, <3>1, <4>1, <4>2 DEF InRequest
      <3> QED BY <1>1, <2>2, <3>1 DEF InPlace
    <2> QED BY <2>3, <2>4, <2>5
  <1>7. ASSUME NEW w \in Workers, handle_client_event(w)
        PROVE  WholeRequests' /\ YoungerLeft' /\ InPlace'
    <2>1. \A v \in Workers : v # w => pc'[v] = pc[v]
      BY <1>0, <1>7, WorkerControl
    <2>2. CASE read(w)
      <3>1. /\ UNCHANGED <<parseVars, code, sent, replies>>
            /\ pc[w] = "read" /\ pc'[w] \in {"parse", "close"}
        BY <1>0, <2>2 DEF read, At, Goto
      <3>2. pc'[w] # "close"
        BY DEF Gone, AtClose
      <3>3. /\ Total' = Total /\ Len(buf') >= Len(buf) /\ Len(buf') \in Nat
            /\ \A i \in 1 .. Total : Pending(i)' = Pending(i)
        BY <2>2, <3>2, ReadPending
      <3>4. WholeRequests'
        <4>1. \A i \in 1 .. Total' : Pending(i)' = Pending(0 + i)
          BY <1>2, <3>3
        <4>2. Total' \in Nat /\ Total = Total' + 0 /\ 0 \in Nat
          BY <1>2, <3>3
        <4> QED BY <1>1, <3>1, <4>1, <4>2, WholeShift
      <3>5. YoungerLeft'
        BY <1>1, <3>1, <3>3 DEF YoungerLeft
      <3>6. InPlace'
        <4>1. \A v \in Workers : pc'[v] = "respond" => pc[v] = "respond"
          BY <2>1, <3>1
        <4>2. ASSUME NEW s \in 1 .. checked, InRequest(s) PROVE InRequest(s)'
          <5>1. Pending(s)' = Pending(s)
            <6>1. s \in 1 .. Len(buf)
              BY <1>2
            <6> QED BY <1>2, <3>3, <6>1
          <5>2. code # "" \/ (\E v \in Workers : pc'[v] = "respond") =>
                   Len(buf') >= s - 1 + UnitsLen(sent[url])
            <6>1. code = ""
              BY <1>1, <3>1 DEF AnswerInv, ForReader
            <6>2. \A v \in Workers : pc[v] # "respond"
              <7>1. \A v \in Workers : v # w => ~Busy(v)
                BY <3>1, BusyFacts DEF Busy
              <7> QED BY <3>1, <7>1 DEF Busy
            <6> QED BY <4>1, <6>1, <6>2
          <5> QED BY <3>1, <4>2, <5>1, <5>2 DEF InRequest
        <4> QED BY <1>1, <3>1, <4>2 DEF InPlace
      <3> QED BY <3>4, <3>5, <3>6
    <2>3. CASE process(w)
      <3>1. UNCHANGED <<stream, buf, sent, replies>>
        BY <2>3 DEF process
      <3>2. Total' = Total /\ \A i : Pending(i)' = Pending(i)
        BY <3>1, SameUnits
      <3>3. InPlace'
        BY <1>1, <2>3, OrderParse
      <3>4. CASE url' = url
        BY <1>3, <3>1, <3>3, <3>4
      <3>5. CASE url' # url
        <4>1. parseRequestLine(w)
          BY <2>3, <3>5 DEF process, LineOpen, parseHeaders, parseContent, LineInContent, doRequest
        <4>2. checked + 1 \in 1 .. Len(buf)
          <5>1. LineEnd \in checked + 1 .. Len(buf)
            BY <4>1, LineFacts DEF parseRequestLine, LineOk
          <5> QED BY <1>2, <5>1
        <4>3. url' = Pending(checked + 1).n /\ checked + 1 \in 1 .. Total
          BY <4>1, <4>2, PendingFacts DEF parseRequestLine
        <4>4. YoungerLeft'
          BY <1>1, <3>1, <3>2, <4>3 DEF YoungerLeft
        <4>5. WholeRequests'
          BY <1>1, <3>1, <3>2 DEF WholeRequests
        <4> QED BY <3>3, <4>4, <4>5
      <3> QED BY <3>4, <3>5
    <2>4. CASE write(w)
      <3>1. UNCHANGED <<stream, sent>> /\ At(w, "write") /\ pc[w] = "write"
        BY <2>4 DEF write, At
      <3>2. ASSUME NEW b \in BOOLEAN, Complete(w, b)
            PROVE  WholeRequests' /\ YoungerLeft' /\ InPlace'
        <4>1. PICK a \in ReplyType : replies' = Append(replies, a) /\ a.closing = ~linger /\ a.n = url
          BY <3>1, <3>2, CompleteFacts
        <4>2. linger
          BY <4>1, ReplyFacts
        <4>3. init
          BY <3>2, <4>2 DEF Complete
        <4>4. /\ Total' = Len(stream) /\ Total = Len(buf) + Len(stream) /\ Len(stream) \in Nat
              /\ \A i \in 1 .. Total' : Pending(i)' = Pending(Len(buf) + i)
                                        /\ Len(buf) + i \in 1 .. Total
          BY <3>1, <4>3, InitPending, PendingFacts
        <4>5. WholeRequests'
          <5>1. Total' \in Nat /\ Total = Total' + Len(buf)
            BY <1>2, <4>4
          <5> QED BY <1>1, <1>2, <3>1, <4>4, <5>1, WholeShift
        <4>6. InPlace'
          BY <4>3 DEF init, InPlace
        <4>7. ASSUME NEW i \in 1 .. Total' PROVE url < Pending(i)'.n
          <5>1. code # "" /\ checkState # "REQUESTLINE"
            BY <1>1, <3>1, <4>2 DEF InPlace, AnswerInv, ForWriter
          <5>2. PICK s \in 1 .. checked : InRequest(s)
            BY <1>1, <5>1 DEF InPlace
          <5>3. PICK r : r = sent[url]
            OBVIOUS
          <5>4. Pending(s) = [kind |-> "good", n |-> url] /\ Len(buf) >= s - 1 + UnitsLen(r)
            BY <5>1, <5>2, <5>3 DEF InRequest
          <5>5. s \in 1 .. Len(buf)
            BY <1>2
          <5>6. /\ EmptyAt(r) \in 2 .. 4 /\ s \in Nat
                /\ UnitsLen(r) = IF r.body THEN EmptyAt(r) + 2 ELSE EmptyAt(r)
                /\ \A j \in s + UnitsLen(r) .. Total : Pending(j).n > url
            BY <1>1, <5>3, <5>4, <5>5, Position
          <5>7. Len(buf) + i \in s + UnitsLen(r) .. Total
            <6>1. PICK u \in Nat : u = UnitsLen(r)
              BY <5>6
            <6>2. i \in Nat /\ i >= 1 /\ Len(buf) + i \in 1 .. Total
              BY <4>4, <4>7
            <6>3. Len(buf) >= s - 1 + u
              BY <5>4, <6>1
            <6>4. Len(buf) + i >= s + u /\ s + u \in Nat
              <7>1. PICK m \in Nat : m = Len(buf)
                BY <1>2
              <7>2. m >= s - 1 + u /\ i >= 1 => m + i >= s + u
                BY <5>6, <6>1, <6>2
              <7> QED BY <5>6, <6>1, <6>2, <6>3, <7>1, <7>2
            <6>5. Len(buf) + i \in s + u .. Total
              BY <1>2, <6>2, <6>4
            <6> QED BY <6>1, <6>5
          <5>8. Pending(Len(buf) + i).n > url
            BY <5>6, <5>7
          <5>9. Pending(Len(buf) + i).n \in Nat
            BY <1>2, <4>4, <4>7
          <5> QED BY <1>2, <4>4, <4>7, <5>8, <5>9
        <4>8. YoungerLeft'
          <5>1. /\ Len(replies') = Len(replies) + 1 /\ replies'[Len(replies) + 1] = a
                /\ \A j \in 1 .. Len(replies) : replies'[j] = replies[j]
            BY <4>1, ReplyFacts
          <5>2. url' = 0
            BY <4>3 DEF init
          <5>3. ASSUME NEW j \in 1 .. Len(replies'), NEW i \in 1 .. Total'
                PROVE  replies'[j].n < Pending(i)'.n
            <6>1. CASE j = Len(replies) + 1
              BY <4>1, <4>7, <5>1, <5>3, <6>1
            <6>2. CASE j # Len(replies) + 1
              <7>1. j \in 1 .. Len(replies)
                BY <1>2, <5>1, <5>3, <6>2
              <7>2. replies[j].n < Pending(Len(buf) + i).n
                BY <1>1, <4>4, <5>3, <7>1 DEF YoungerLeft
              <7> QED BY <4>4, <5>1, <5>3, <7>1, <7>2
            <6> QED BY <6>1, <6>2
          <5> QED BY <5>2, <5>3 DEF YoungerLeft
        <4> QED BY <4>5, <4>6, <4>8
      <3>3. CASE WriteAll(w) \/ WriteHalf(w)
        BY <3>2, <3>3 DEF WriteAll, WriteHalf
      <3>4. CASE WriteLittle(w) \/ WriteAgain(w) \/ WriteFails(w)
        <4>1. UNCHANGED <<buf, parseVars, code, replies>> /\ pc'[w] # "respond"
          BY <1>0, <3>1, <3>4 DEF WriteLittle, WriteAgain, WriteFails, Goto
        <4> QED BY <1>4, <2>1, <3>1, <4>1
      <3> QED BY <2>4, <3>3, <3>4 DEF write
    <2>5. CASE CloseAndDelete(w) \/ UseAfterDelete(w)
      <3>1. /\ UNCHANGED <<stream, buf, parseVars, code, sent, replies>>
            /\ \A v \in Workers : pc'[v] = "respond" => pc[v] = "respond"
        BY <1>0, <2>5 DEF CloseAndDelete, UseAfterDelete, At, Goto
      <3> QED BY <1>4, <3>1
    <2> QED BY <1>7, <2>2, <2>3, <2>4, <2>5 DEF handle_client_event
  <1> QED BY <1>5, <1>6, <1>7 DEF Next, WorkerStep, OutsideStep

------------------------------------------------------------------------------
(* The theorems *)

(* The answer that write() holds to be complete is the next one in order,  *)
(* and the right one for a client that waits.                              *)
LEMMA AnswersStep ==
    ASSUME TypeOK, TokenInv, GoneInv, AnswerInv, UrlInv, PoliteInv, OrderInv, AnswersInOrder,
           [Next]_vars
    PROVE  AnswersInOrder'
  <1> USE DEF reactorVars, connVars, parseVars, historyVars, clientVars
  <1>1. /\ Len(sent) \in Nat /\ Len(replies) \in Nat /\ DOMAIN replies = 1 .. Len(replies)
        /\ \A i \in 1 .. Len(sent) : sent[i] \in AllRequests
    BY PendingFacts
  <1>2. ASSUME UNCHANGED replies, polite' => polite, choked => choked',
               \A i \in 1 .. Len(sent) : sent'[i] = sent[i]
        PROVE  AnswersInOrder'
    <2>1. \A i \in DOMAIN replies : replies[i].n = i => i \in 1 .. Len(sent)
      <3>1. ASSUME NEW i \in 1 .. Len(replies), replies[i].n = i PROVE i \in 1 .. Len(sent)
        <4>1. replies[i].n <= Len(sent)
          BY DEF UrlInv
        <4> QED BY <1>1, <3>1, <4>1
      <3> QED BY <1>1, <3>1
    <2>2. \A i \in DOMAIN replies : replies[i].n = i => sent'[i] = sent[i]
      BY <1>2, <2>1
    <2> QED BY <1>2, <2>2 DEF AnswersInOrder
  <1>3. ASSUME NEW w \in Workers, NEW b \in BOOLEAN, At(w, "write"), Complete(w, b),
               UNCHANGED <<sent, polite>>, b \/ choked', choked => choked'
        PROVE  AnswersInOrder'
    <2>1. PICK a \in ReplyType : /\ replies' = Append(replies, a) /\ a.n = url /\ a.code = code
                                 /\ a.closing = ~linger /\ a.whole = (b /\ ~torn)
      BY <1>3, CompleteFacts
    <2>2. /\ Len(replies') = Len(replies) + 1 /\ replies'[Len(replies) + 1] = a
          /\ \A i \in 1 .. Len(replies) : replies'[i] = replies[i]
          /\ DOMAIN replies' = 1 .. Len(replies) + 1
      BY <2>1, ReplyFacts
    <2>3. ASSUME NEW i \in DOMAIN replies', \A j \in 1 .. i - 1 : ~replies'[j].closing
          PROVE  /\ \A j \in 1 .. i - 1 : replies'[j].n < replies'[i].n
                 /\ polite' =>
                       /\ replies'[i].n = i /\ replies'[i].code = Answer(sent'[i])
                       /\ replies'[i].closing = (sent'[i].form = "bad" \/ ~sent'[i].keepAlive)
                       /\ replies'[i].whole \/ choked'
      <3>1. CASE i \in 1 .. Len(replies)
        <4>1. replies'[i] = replies[i] /\ \A j \in 1 .. i - 1 : replies'[j] = replies[j]
          BY <1>1, <2>2, <3>1
        <4>2. \A j \in 1 .. i - 1 : ~replies[j].closing
          BY <2>3, <4>1
        <4> QED BY <1>1, <1>3, <3>1, <4>1, <4>2 DEF AnswersInOrder
      <3>2. CASE i = Len(replies) + 1
        <4>1. replies'[i] = a /\ i - 1 = Len(replies)
          BY <1>1, <2>2, <3>2
        <4>2. ~Closing
          BY <1>1, <2>2, <2>3, <4>1 DEF Closing
        <4>3. ~Gone /\ alive
          <5>1. Busy(w) /\ pc[w] # "accept"
            BY <1>3 DEF At, Busy
          <5> QED BY <4>2, <5>1, ActiveFacts
        <4>4. \A j \in 1 .. i - 1 : replies'[j].n < url
          <5>1. code # ""
            BY <1>3 DEF AnswerInv, ForWriter, At
          <5>2. url > 0
            BY <5>1 DEF UrlInv
          <5> QED BY <2>2, <4>1, <4>2, <4>3, <5>2 DEF OrderInv, YoungerLeft
        <4>5. ASSUME polite
              PROVE  /\ url = i /\ code = Answer(sent[i])
                     /\ (~linger) = (sent[i].form = "bad" \/ ~sent[i].keepAlive)
                     /\ (b /\ ~torn) \/ choked'
          <5>1. ~AtRest
            BY <1>3 DEF AtRest, AnswerInv, ForWriter, At
          <5>2. Len(sent) = i /\ InHand(sent[i], i)
            BY <3>2, <4>2, <4>3, <4>5, <5>1, PoliteParts
          <5>3. sent[i] \in AllRequests /\ i \in Nat
            BY <1>1, <3>2, <5>2
          <5>4. /\ url = i /\ code = Answer(sent[i])
                /\ linger <=> sent[i].form # "bad" /\ sent[i].keepAlive
            BY <1>3, <4>2, <5>2, <5>3, PoliteComplete
          <5>5. torn => choked
            BY <5>2 DEF InHand
          <5>6. linger \in BOOLEAN /\ sent[i].keepAlive \in BOOLEAN
            BY <5>3 DEF TypeOK, AllRequests
          <5> QED BY <1>3, <5>4, <5>5, <5>6
        <4> QED BY <1>3, <2>1, <4>1, <4>4, <4>5
      <3> QED BY <1>1, <2>2, <3>1, <3>2
    <2> QED BY <2>3 DEF AnswersInOrder
  <1>4. CASE OutsideStep
    BY <1>2, <1>4, OutsideFacts
  <1>5. ASSUME NEW r \in Requests, ClientSends(r) PROVE AnswersInOrder'
    <2>1. \A i \in 1 .. Len(sent) : sent'[i] = sent[i]
      BY <1>5, SendPending
    <2>2. UNCHANGED <<replies, choked>> /\ (polite' => polite)
      BY <1>5 DEF ClientSends
    <2> QED BY <1>2, <2>1, <2>2
  <1>6. ASSUME NEW w \in Workers, handle_client_event(w) PROVE AnswersInOrder'
    <2>1. CASE read(w)
      BY <1>2, <2>1 DEF read
    <2>2. CASE process(w)
      BY <1>2, <2>2 DEF process
    <2>3. CASE write(w)
      <3>1. UNCHANGED <<sent, polite>> /\ At(w, "write")
        BY <2>3 DEF write
      <3>2. CASE WriteAll(w)
        <4>1. Complete(w, TRUE) /\ choked' = choked
          BY <3>2 DEF WriteAll
        <4> QED BY <1>3, <3>1, <4>1
      <3>3. CASE WriteHalf(w)
        <4>1. Complete(w, FALSE) /\ choked' = TRUE
          BY <3>3 DEF WriteHalf
        <4> QED BY <1>3, <3>1, <4>1
      <3>4. CASE WriteLittle(w) \/ WriteAgain(w) \/ WriteFails(w)
        <4>1. UNCHANGED replies /\ (choked => choked')
          BY <3>4 DEF WriteLittle, WriteAgain, WriteFails
        <4> QED BY <1>2, <3>1, <4>1
      <3> QED BY <2>3, <3>2, <3>3, <3>4 DEF write
    <2>4. CASE CloseAndDelete(w) \/ UseAfterDelete(w)
      BY <1>2, <2>4 DEF CloseAndDelete, UseAfterDelete
    <2> QED BY <1>6, <2>1, <2>2, <2>3, <2>4 DEF handle_client_event
  <1> QED BY <1>4, <1>5, <1>6 DEF Next, WorkerStep, OutsideStep

(* One worker at a time is what the invariant says of the right to the     *)
(* HttpConn and of its deletion.                                           *)
LEMMA OneInside ==
    ASSUME TokenInv, GoneInv, LostInv
    PROVE  OneAtATime
  <1> SUFFICES ASSUME ~Closing \/ NothingComesLate
               PROVE  Cardinality(Inside) <= 1 /\ ~lost
    BY DEF OneAtATime
  <1>1. ~lost
    BY DEF LostInv
  <1>2. ASSUME NEW v \in Inside, NEW w \in Inside PROVE v = w
    <2>1. (Busy(v) \/ AtClose(v)) /\ (Busy(w) \/ AtClose(w)) /\ v \in Workers /\ w \in Workers
      BY DEF Inside, Places, Busy, AtClose
    <2>2. CASE Busy(v) /\ Busy(w)
      BY <2>1, <2>2 DEF TokenInv
    <2>3. CASE AtClose(v) \/ AtClose(w)
      <3>1. Idle /\ OneCloser
        BY <2>1, <2>3 DEF GoneInv, Gone
      <3> QED BY <2>1, <2>3, <3>1 DEF Idle, OneCloser
    <2> QED BY <2>1, <2>2, <2>3
  <1>3. CASE Inside = {}
    BY <1>1, <1>3, FS_EmptySet
  <1>4. CASE Inside # {}
    <2>1. PICK v : v \in Inside
      BY <1>4
    <2>2. Inside = {v}
      BY <1>2, <2>1
    <2>3. Cardinality(Inside) = 1
      BY <2>2, FS_Singleton
    <2> QED BY <1>1, <2>3
  <1> QED BY <1>3, <1>4

(* Before the client has sent anything. *)
LEMMA InitEstablishes ==
    ASSUME Init
    PROVE  ConnInv
  <1>1. TypeOK
    <2>1. <<>> \in Seq(UnitSet) /\ <<>> \in Seq(Requests) /\ <<>> \in Seq(ReplyType) /\ Len(<<>>) = 0
      BY EmptySeq
    <2>2. MaxRequests \in Nat /\ ReadSize \in Nat \ {0}
      BY SizeAssumption
    <2>3. 0 \in 0 .. 0 /\ 0 < ReadSize /\ 0 \in 0 .. MaxRequests
      BY <2>2
    <2>4. UnitsType /\ HistoryType /\ FlagsType
      BY <2>1 DEF Init, UnitsType, HistoryType, FlagsType
    <2>5. ControlType
      <3>1. <<"listen">> \in Seq({"listen", "IN", "OUT"})
        OBVIOUS
      <3> QED BY <3>1 DEF Init, ControlType
    <2>6. ParseType
      BY <2>1, <2>3 DEF Init, ParseType
    <2> QED BY <2>4, <2>5, <2>6, TypeParts
  <1>2. \A w \in Workers : ~Busy(w) /\ ~AtClose(w) /\ pc[w] = "idle"
    BY DEF Init, Busy, AtClose
  <1>3. jobs = <<"listen">> /\ Fresh /\ reg = "off" /\ event = "none" /\ code = "" /\ Len(jobs) = 1
    BY DEF Init, Fresh
  <1>4. TokenInv
    BY <1>2, <1>3 DEF TokenInv
  <1>5. Len(replies) = 0 /\ Len(sent) = 0 /\ Len(buf) = 0 /\ Len(stream) = 0
    BY DEF Init
  <1>6. DOMAIN replies = 1 .. 0 /\ Total = 0 /\ ~Closing
    <2>1. DOMAIN replies = 1 .. 0 /\ Total = 0
      BY <1>1, <1>5, PendingFacts
    <2> QED BY <2>1 DEF Closing
  <1>7. ~Gone
    BY <1>2, <1>3 DEF Gone
  <1>8. GoneInv
    BY <1>6, <1>7 DEF GoneInv
  <1>9. AnswerInv
    <2>1. jobs # <<"OUT">>
      BY <1>3
    <2>2. ~ForWriter
      BY <1>2, <1>3, <2>1 DEF ForWriter
    <2> QED BY <1>3, <2>2 DEF AnswerInv
  <1>10. UrlInv
    <2>1. url = 0 /\ checkState = "REQUESTLINE"
      BY DEF Init
    <2>2. (\A i \in 1 .. Total : FALSE) /\ (\A i \in 1 .. Len(replies) : FALSE)
      BY <1>5, <1>6
    <2>3. url <= Len(sent) /\ ~(url > 0)
      BY <1>5, <2>1
    <2>4. \A w \in Workers : pc[w] # "respond"
      BY <1>2
    <2> QED BY <1>3, <2>1, <2>2, <2>3, <2>4 DEF UrlInv
  <1>11. PoliteInv
    <2>1. AtRest
      BY DEF Init, AtRest
    <2>2. Len(sent) = Len(replies) /\ Len(sent) # Len(replies) + 1
      BY <1>5
    <2> QED BY <2>1, <2>2, PoliteParts
  <1>12. OrderInv
    <2>1. checkState = "REQUESTLINE" /\ ~linger
      BY DEF Init
    <2>2. WholeRequests /\ YoungerLeft
      BY <1>5, <1>6 DEF WholeRequests, YoungerLeft
    <2> QED BY <2>1, <2>2 DEF OrderInv, InPlace
  <1>13. AnswersInOrder
    BY <1>6 DEF AnswersInOrder
  <1>14. LostInv
    BY DEF Init, LostInv
  <1> QED BY <1>1, <1>4, <1>8, <1>9, <1>10, <1>11, <1>12, <1>13, <1>14 DEF ConnInv

(* No step of the client, of event_loop or of a worker breaks it. *)
LEMMA StepPreserves ==
    ASSUME ConnInv, [Next]_vars
    PROVE  ConnInv'
  <1>1. /\ TypeOK /\ TokenInv /\ GoneInv /\ AnswerInv /\ UrlInv /\ PoliteInv
        /\ OrderInv /\ AnswersInOrder /\ LostInv
    BY DEF ConnInv
  <1>2. LostInv'
    <2>1. CASE UNCHANGED vars
      BY <1>1, <2>1 DEF vars, historyVars, LostInv, Closing, NothingComesLate
    <2>2. ASSUME ~lost, NEW w \in Workers, handle_client_event(w) PROVE LostInv'
      <3>1. CASE UseAfterDelete(w)
        BY <1>1, <3>1, LostStep
      <3>2. CASE ~UseAfterDelete(w)
        <4>1. lost' = lost
          BY <2>2, <3>2 DEF handle_client_event, read, process, write, CloseAndDelete
        <4> QED BY <2>2, <4>1 DEF LostInv
      <3> QED BY <3>1, <3>2
    <2>3. ASSUME ~lost, OutsideStep \/ \E r \in Requests : ClientSends(r) PROVE LostInv'
      <3>1. lost' = lost
        BY <1>1, <2>3, OutsideFacts DEF ClientSends
      <3> QED BY <2>3, <3>1 DEF LostInv
    <2> QED BY <2>1, <2>2, <2>3 DEF Next, WorkerStep, OutsideStep
  <1>3. TypeOK' /\ TokenInv' /\ AnswerInv' /\ UrlInv'
    BY <1>1, TypeStep, TokenStep, AnswerStep, UrlStep
  <1>4. GoneInv' /\ PoliteInv' /\ OrderInv'
    BY <1>1, GoneStep, PoliteStep, OrderStep
  <1>5. AnswersInOrder'
    BY <1>1, AnswersStep
  <1> QED BY <1>2, <1>3, <1>4, <1>5 DEF ConnInv

(* ConnInv is inductive: the right to the HttpConn is in one place, its    *)
(* parser is where the units it holds say, and what it has answered is     *)
(* gone from the buffer.                                                   *)
THEOREM ConnInvInductive == Spec => []ConnInv
  <1>1. Init => ConnInv
    BY InitEstablishes
  <1>2. ConnInv /\ [Next]_vars => ConnInv'
    BY StepPreserves
  <1> QED BY <1>1, <1>2, PTL DEF Spec

(* The buffer never overruns READ_BUFFER_SIZE, checkedIdx stays in it, and *)
(* the answers are for requests that exist.                                *)
THEOREM TypeCorrect == Spec => []TypeOK
  <1>1. ConnInv => TypeOK
    BY DEF ConnInv
  <1> QED BY <1>1, ConnInvInductive, PTL

(* One-shot registration keeps two workers out of the HttpConn at once,    *)
(* and none uses it after its deletion, up to the first answer that        *)
(* closes, and beyond it for a client that waits for its answers.          *)
THEOREM OneAtATimeHolds == Spec => []OneAtATime
  <1>1. ConnInv => OneAtATime
    BY OneInside DEF ConnInv
  <1> QED BY <1>1, ConnInvInductive, PTL

(* Nothing of a request is left to the next: the answers come in order,    *)
(* none twice, and each is the right one for a client that waits.          *)
THEOREM AnswersInOrderHolds == Spec => []AnswersInOrder
  <1>1. ConnInv => AnswersInOrder
    BY DEF ConnInv
  <1> QED BY <1>1, ConnInvInductive, PTL
------------------------------------------------------------------------------
(* Once the connection is accepted its handler is stored, or being stored  *)
(* under the lock that event_loop needs to look for it.                    *)
StoredInv == Fresh \/ stored \/ \E w \in Workers : pc[w] = "store"

(* An event is looked up when the handler is stored. *)
LEMMA EventFindsHandler ==
    ASSUME TokenInv, StoredInv, find_eh
    PROVE  stored
  <1>1. event # "none" /\ ~\E w \in Workers : pc[w] = "store"
    BY DEF find_eh, MutexFree
  <1>2. ~Fresh
    <2>1. jobs = <<>> /\ ~\E w \in Workers : pc[w] = "accept"
      BY <1>1 DEF TokenInv, Busy
    <2>2. <<>> # <<"listen">>
      OBVIOUS
    <2> QED BY <2>1, <2>2 DEF Fresh
  <1> QED BY <1>1, <1>2 DEF StoredInv

(* A worker that is done in the HttpConn has armed the descriptor or       *)
(* deleted it, or has met an empty file.                                   *)
LEMMA WorkerHandsOn ==
    ASSUME ConnInv, NEW w \in Workers, handle_client_event(w)
    PROVE  /\ UNCHANGED <<event, jobs, stored, fin, sent>>
           /\ \/ pc' = pc /\ UNCHANGED <<reg, alive>>
              \/ pc[w] \in Places /\ alive' = FALSE /\ pc' = [pc EXCEPT ![w] = "idle"]
              \/ /\ pc[w] \in Places /\ alive' = alive
                 /\ \E x \in {"parse", "respond", "close"} : pc' = [pc EXCEPT ![w] = x]
              \/ /\ pc[w] \in Places /\ alive' = alive /\ pc' = [pc EXCEPT ![w] = "idle"]
                 /\ \/ reg' \in {"IN", "OUT"}
                    \/ \E i \in DOMAIN sent : sent[i].file = "empty"
  <1> USE DEF Goto, At, modFd, reactorVars, connVars, parseVars, historyVars, clientVars, Places
  <1>1. CASE read(w)
    BY <1>1 DEF read
  <1>2. CASE process(w)
    <2>1. UNCHANGED <<event, jobs, stored, fin, sent, alive>>
      BY <1>2 DEF process
    <2>2. CASE LineOpen(w)
      BY <2>1, <2>2 DEF LineOpen, NeedMore
    <2>3. CASE parseRequestLine(w)
      BY <2>1, <2>3 DEF parseRequestLine, GoOn, processWrite
    <2>4. CASE parseHeaders(w)
      BY <2>1, <2>4 DEF parseHeaders, GoOn, GetRequest
    <2>5. CASE parseContent(w) \/ LineInContent(w)
      BY <2>1, <2>5 DEF parseContent, LineInContent, GoOn, GetRequest
    <2>6. CASE doRequest(w)
      <3>1. pc[w] = "respond"
        BY <2>6 DEF doRequest
      <3>2. url \in DOMAIN sent
        <4>1. checkState # "REQUESTLINE"
          BY <3>1 DEF ConnInv, UrlInv
        <4>2. url > 0 /\ url <= Len(sent)
          BY <4>1 DEF ConnInv, UrlInv
        <4>3. url \in Nat /\ Len(sent) \in Nat /\ DOMAIN sent = 1 .. Len(sent)
          BY PendingFacts DEF ConnInv
        <4> QED BY <4>2, <4>3
      <3>3. CASE sent[url].file = "empty" /\ WelcomeFails(w)
        BY <2>1, <3>1, <3>2, <3>3 DEF WelcomeFails
      <3>4. CASE NeedMore(w) \/ \E c \in {"403", "400", "200"} : processWrite(w, c)
        BY <2>1, <3>1, <3>4 DEF NeedMore, processWrite
      <3> QED BY <2>6, <3>3, <3>4 DEF doRequest
    <2> QED BY <1>2, <2>2, <2>3, <2>4, <2>5, <2>6 DEF process
  <1>3. CASE write(w)
    <2>1. UNCHANGED <<event, jobs, stored, fin, sent, alive>> /\ pc[w] = "write"
      BY <1>3 DEF write
    <2>2. CASE WriteAll(w) \/ WriteHalf(w)
      BY <2>1, <2>2 DEF WriteAll, WriteHalf, Complete
    <2>3. CASE WriteLittle(w) \/ WriteAgain(w) \/ WriteFails(w)
      BY <2>1, <2>3 DEF WriteLittle, WriteAgain, WriteFails
    <2> QED BY <1>3, <2>2, <2>3 DEF write
  <1>4. CASE CloseAndDelete(w)
    BY <1>4 DEF CloseAndDelete
  <1>5. CASE UseAfterDelete(w)
    BY <1>5 DEF UseAfterDelete
  <1> QED BY <1>1, <1>2, <1>3, <1>4, <1>5 DEF handle_client_event

(* The handler is stored before the lock is let go, and stays. *)
LEMMA StoredStep ==
    ASSUME ConnInv, StoredInv, [Next]_vars
    PROVE  StoredInv'
  <1> USE DEF reactorVars, connVars, parseVars, historyVars, clientVars
  <1>0. /\ pc \in [Workers -> {"idle", "accept", "store"} \cup Places]
        /\ TokenInv /\ TypeOK
    BY DEF ConnInv, TypeOK
  <1>1. ASSUME UNCHANGED <<jobs, pc, stored>> PROVE StoredInv'
    BY <1>1 DEF StoredInv, Fresh
  <1>2. CASE find_eh
    BY <1>0, <1>2, EventFindsHandler DEF find_eh, StoredInv
  <1>3. ASSUME NEW w \in Workers, TakeJob(w) PROVE StoredInv'
    <2>1. jobs = <<Head(jobs)>>
      BY <1>0, <1>3, OneJob DEF TakeJob
    <2>2. jobs = <<"listen">> => pc'[w] = "accept"
      BY <1>0, <1>3 DEF TakeJob
    <2>3. \A v \in Workers : v # w => pc'[v] = pc[v]
      BY <1>0, <1>3 DEF TakeJob
    <2>4. pc[w] = "idle" /\ stored' = stored
      BY <1>3 DEF TakeJob
    <2> QED BY <2>2, <2>3, <2>4 DEF StoredInv, Fresh
  <1>4. ASSUME NEW w \in Workers, Accept(w) PROVE StoredInv'
    BY <1>0, <1>4 DEF Accept, StoredInv
  <1>5. ASSUME NEW w \in Workers, add_eh(w) PROVE StoredInv'
    BY <1>5 DEF add_eh, StoredInv
  <1>6. ASSUME NEW w \in Workers, handle_client_event(w) PROVE StoredInv'
    <2>1. UNCHANGED <<jobs, stored>>
      BY <1>6, WorkerHandsOn
    <2>2. \A v \in Workers : pc[v] \in {"accept", "store"} => pc'[v] = pc[v]
      BY <1>0, <1>6, WorkerHandsOn DEF Places
    <2> QED BY <2>1, <2>2 DEF StoredInv, Fresh
  <1>7. CASE ClientReads \/ ClientCloses \/ epoll_wait \/ \E r \in Requests : ClientSends(r)
    BY <1>1, <1>7 DEF ClientReads, ClientCloses, epoll_wait, ClientSends
  <1>8. CASE UNCHANGED vars
    BY <1>1, <1>8 DEF vars
  <1> QED BY <1>2, <1>3, <1>4, <1>5, <1>6, <1>7, <1>8 DEF Next, WorkerStep

(* What was asked for stays asked for. *)
LEMMA SendKeepsEmpty ==
    ASSUME ConnInv, NEW r \in Requests, ClientSends(r), NEW i \in DOMAIN sent
    PROVE  i \in DOMAIN sent' /\ sent'[i] = sent[i]
  <1>1. sent \in Seq(Requests) /\ sent' = Append(sent, r)
    BY DEF ConnInv, TypeOK, ClientSends
  <1> QED BY <1>1, AppendProperties, LenProperties

(* Each step that takes the right to the HttpConn from one place puts it   *)
(* into the next.                                                          *)
LEMMA ForgottenStep ==
    ASSUME ConnInv, StoredInv, NotForgotten, [Next]_vars
    PROVE  NotForgotten'
  <1> USE DEF reactorVars, connVars, parseVars, historyVars, clientVars
  <1>0. /\ pc \in [Workers -> {"idle", "accept", "store"} \cup Places]
        /\ TokenInv /\ TypeOK
    BY DEF ConnInv, TypeOK
  <1>1. ASSUME UNCHANGED <<reg, event, jobs, pc, alive, fin, sent>> PROVE NotForgotten'
    BY <1>1 DEF NotForgotten
  <1>2. CASE epoll_wait
    BY <1>2 DEF epoll_wait, NotForgotten
  <1>3. CASE find_eh
    <2>1. jobs' = Append(jobs, event) /\ jobs \in Seq({"listen", "IN", "OUT"})
          /\ event \in {"listen", "IN", "OUT"}
      BY <1>0, <1>3, EventFindsHandler DEF find_eh, TypeOK
    <2>2. jobs' # <<>>
      BY <2>1, AppendProperties
    <2> QED BY <2>2 DEF NotForgotten
  <1>4. ASSUME NEW w \in Workers, TakeJob(w) PROVE NotForgotten'
    <2>1. Head(jobs) \in {"listen", "IN", "OUT"}
      BY <1>0, <1>4, OneJob DEF TakeJob
    <2>2. pc'[w] \in {"accept", "read", "write"}
      BY <1>0, <1>4, <2>1 DEF TakeJob
    <2> QED BY <2>2 DEF NotForgotten
  <1>5. ASSUME NEW w \in Workers, Accept(w) PROVE NotForgotten'
    BY <1>5 DEF Accept, NotForgotten
  <1>6. ASSUME NEW w \in Workers, add_eh(w) PROVE NotForgotten'
    <2>1. \A v \in Workers : v # w => pc'[v] = pc[v]
      BY <1>0, <1>6 DEF add_eh
    <2>2. pc[w] = "store" /\ UNCHANGED <<reg, event, jobs, alive, fin, sent>>
      BY <1>6 DEF add_eh
    <2> QED BY <2>1, <2>2 DEF NotForgotten
  <1>7. ASSUME NEW w \in Workers, handle_client_event(w) PROVE NotForgotten'
    <2>1. UNCHANGED <<event, jobs, fin, sent>>
      BY <1>7, WorkerHandsOn
    <2>2. CASE pc' = pc /\ UNCHANGED <<reg, alive>>
      BY <1>1, <2>1, <2>2
    <2>3. CASE alive' = FALSE
      BY <2>3 DEF NotForgotten
    <2>4. CASE \E x \in {"parse", "respond", "close"} : pc' = [pc EXCEPT ![w] = x]
      <3>1. pc'[w] \in {"parse", "respond", "close"}
        BY <1>0, <2>4
      <3> QED BY <3>1 DEF NotForgotten
    <2>5. CASE reg' \in {"IN", "OUT"} \/ \E i \in DOMAIN sent : sent[i].file = "empty"
      BY <2>1, <2>5 DEF NotForgotten
    <2> QED BY <1>7, <2>2, <2>3, <2>4, <2>5, WorkerHandsOn
  <1>8. CASE ClientReads
    BY <1>1, <1>8 DEF ClientReads
  <1>9. CASE ClientCloses
    BY <1>9 DEF ClientCloses, NotForgotten
  <1>10. ASSUME NEW r \in Requests, ClientSends(r) PROVE NotForgotten'
    <2>1. UNCHANGED <<reg, event, jobs, pc, alive, fin>>
      BY <1>10 DEF ClientSends
    <2>2. \A i \in DOMAIN sent : i \in DOMAIN sent' /\ sent'[i] = sent[i]
      BY <1>10, SendKeepsEmpty
    <2> QED BY <2>1, <2>2 DEF NotForgotten
  <1>11. CASE UNCHANGED vars
    BY <1>1, <1>11 DEF vars
  <1> QED BY <1>2, <1>3, <1>4, <1>5, <1>6, <1>7, <1>8, <1>9, <1>10, <1>11 DEF Next, WorkerStep

(* No open connection is forgotten between the worker that arms, event_loop *)
(* that looks up the handler, and the pool.                                *)
THEOREM NotForgottenHolds == Spec => []NotForgotten
  <1>1. Init => StoredInv /\ NotForgotten
    BY DEF Init, StoredInv, Fresh, NotForgotten
  <1>2. ConnInv /\ StoredInv /\ NotForgotten /\ [Next]_vars => StoredInv' /\ NotForgotten'
    BY StoredStep, ForgottenStep
  <1> QED BY <1>1, <1>2, ConnInvInductive, PTL DEF Spec
==============================================================================
