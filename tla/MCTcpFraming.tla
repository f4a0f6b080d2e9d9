--------------------------- MODULE MCTcpFraming ---------------------------
(* TcpFraming with messages of 1 and 3 bytes and a buffer of 4: a message   *)
(* and its header just exceed it.                                           *)
EXTENDS TcpFraming
=============================================================================
