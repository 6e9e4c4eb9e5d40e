------------------------------ MODULE MCSysDmac ------------------------------
(* Instances of SysDmac: two channel groups and requests that collide in   *)
(* channels, descriptors and register blocks.                              *)
EXTENDS SysDmac, TLC

CONSTANTS c1, c2, c3
ThreeClients == {c1, c2, c3}

Req(p, l, d, e) == [policy |-> p, priority |-> l, desc |-> d, event |-> e]
MixedRequests ==
  {Req("atleast", 1, 2, TRUE), Req("highest", 0, 1, FALSE), Req("strict", 1, 3, TRUE)}
ClientSymmetry3 == Permutations(ThreeClients)

(* Bound: three clients one by one, but once calls have overlapped one of  *)
(* the three stays outside without a channel.                              *)
RaceOfTwo == raced => \E c \in Clients : pc[c] = "idle"
=============================================================================
