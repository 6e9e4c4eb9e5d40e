------------------------------ MODULE MCRcarRpc ------------------------------
(* Instances of RcarRpc: writes of one buffer, of several, and with a rest *)
(* of one word, and reads of what they wrote.                              *)
EXTENDS RcarRpc

Req(d, a, n, v) == [dir |-> d, addr |-> a, len |-> n, val |-> v]
SomeRequests == {Req("read", 0, 1, 0), Req("read", 5, 2, 0), Req("write", 0, 7, 1)}
=============================================================================
