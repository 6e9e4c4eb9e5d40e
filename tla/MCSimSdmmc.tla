----------------------------- MODULE MCSimSdmmc -----------------------------
(* Instances of SimSdmmc: two clients of the CAM layer, one that reads,    *)
(* writes, erases and configures, and one that flushes the cache.          *)
EXTENDS SimSdmmc, TLC

CONSTANTS c1, c2

Clients == {c1, c2}

AskedBy ==
  (c1 :> {[op |-> "read", part |-> "boot"], [op |-> "write", part |-> "user"],
          [op |-> "erase", part |-> "boot"], [op |-> "mode", wce |-> TRUE],
          [op |-> "mode", wce |-> FALSE],
          [op |-> "register_part", part |-> "boot"]})
  @@ (c2 :> {[op |-> "sync"]})
=============================================================================
