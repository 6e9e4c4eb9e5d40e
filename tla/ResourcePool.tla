---------------------------- MODULE ResourcePool ----------------------------
(***************************************************************************)
(* What the channel table of a DMA library promises its clients: a client  *)
(* is given resources nobody else holds, may be given more, and gives all  *)
(* of them back at once.                                                   *)
(***************************************************************************)
CONSTANT Clients

VARIABLE held      \* the resources of each client

Init == held = [c \in Clients |-> {}]

Free(r) == \A c \in Clients : r \notin held[c]

Only(c) == held' = [held EXCEPT ![c] = held'[c]]

Grant(c) ==
  /\ Only(c)
  /\ held[c] \subseteq held'[c]
  /\ \A r \in held'[c] \ held[c] : Free(r)

GiveBack(c) == held' = [held EXCEPT ![c] = {}]

Next == \E c \in Clients : Grant(c) \/ GiveBack(c)

Spec == Init /\ [][Next]_held
=============================================================================
