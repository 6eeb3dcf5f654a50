--------------------------- MODULE MCTcpConnection ---------------------------
(* Small instances of TcpConnection for TLC. *)
EXTENDS TcpConnection

(* One reply that fits anywhere, and one that holds a NUL, where a C string *)
(* would end.                                                               *)
BinaryReplies == {<<1>>, <<2, 3, NUL, 4>>}
==============================================================================
