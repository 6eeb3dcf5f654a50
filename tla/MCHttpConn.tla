----------------------------- MODULE MCHttpConn -----------------------------
(* HttpConn with two workers, requests of every outcome, and a buffer that  *)
(* two pipelined requests fill.                                             *)
EXTENDS HttpConn

MCRequests ==
    {r \in AllRequests :
        \/ r.form = "good" /\ r.file = "page" /\ (r.keepAlive \/ ~r.body)
        \/ r.form = "good" /\ r.file # "page" /\ r.keepAlive /\ ~r.body
        \/ r.form # "good" /\ r.file = "page" /\ r.keepAlive /\ ~r.body}

=============================================================================
