------------------------------ MODULE SimSdmmc ------------------------------
(***************************************************************************)
(* The driver thread of the SD/MMC driver, hardware/devb/sdmmc/            *)
(* sim_sdmmc.c, over an eMMC device that has a volatile cache and          *)
(* hardware partitions.  Clients of the CAM layer queue requests (ccbs)    *)
(* and send a pulse; the thread takes the requests off the queue, turns    *)
(* them into commands of the sdio layer (sdiodi/mmc.c) and posts them      *)
(* back.  The driver keeps its own record of what the device is doing: the *)
(* active partition (dev->pactive), whether the cache is on                *)
(* (SDMMC_EFLAG_CACHE and DEV_FLAG_WCE), and whether the user partition    *)
(* may be written (SDMMC_PFLAG_WP).  Any command may fail, and a SWITCH    *)
(* that fails may or may not have taken effect.                            *)
(*                                                                         *)
(* One partition besides the user partition stands for all the others.     *)
(* Removal of the card is the subject of module Sdio.  The thread runs     *)
(* without the bkops option and on a host controller without HC_CAP_SLEEP, *)
(* as hc/rcar.c declares it.                                               *)
(***************************************************************************)
EXTENDS Naturals, Sequences, FiniteSets

CONSTANTS
  Ccb,        \* the ccbs, one for each client of the CAM layer
  Asked,      \* [Ccb -> the requests it makes]
  MaxPulses   \* bound on SIM_ENQUEUE pulses waiting in the channel

Part == {"user", "boot"}

(* The requests whose handler reaches the device or changes the driver's   *)
(* record of it.  An erase is SC_ERASE12, SC_WR_SAME16, DCMD_SDMMC_ERASE   *)
(* or a range of DCMD_CAM_DATA_SET_MGNT.                                   *)
Request ==
  [op : {"read", "write", "erase", "protect"}, part : Part]
    \cup [op : {"sync"}]
    \cup [op : {"mode"}, wce : BOOLEAN]           \* SC_MSELECT10, MP_CACHING
    \cup [op : {"register_part"}, part : Part]    \* SDMMC_CR_ACTION_WRITE of
    \cup [op : {"register_cache"}, wce : BOOLEAN] \*   an EXT_CSD byte

NoRequest == [op |-> "none"]

none == "none"

ASSUME SimAssumption ==
  /\ IsFiniteSet(Ccb) /\ Ccb # {} /\ none \notin Ccb
  /\ Asked \in [Ccb -> SUBSET Request]
  /\ MaxPulses \in Nat \ {0}

VARIABLES
  ccb,        \* [Ccb -> state of the request]
  caller,     \* [Ccb -> where its client is in sdmmc_sim_action]
  req,        \* [Ccb -> what it asks for]
  simq,       \* the queue of the SIM
  pulses,     \* SIM_ENQUEUE pulses not received
  tpulse,     \* an SDMMC_PM_TIMER pulse not received
  pc,         \* where the driver thread is
  nexus,      \* ext->nexus, the request in progress
  status,     \* outcome of that request
  pm,         \* ext->pm_state
  armed,      \* the PM timer runs
  recent,     \* ext->pm_timestamp is younger than the last timer pulse
  pactive,    \* dev->pactive
  cache,      \* SDMMC_EFLAG_CACHE
  wce,        \* DEV_FLAG_WCE
  wp,         \* SDMMC_PFLAG_WP of the user partition
  dev,        \* the device
  dropped,    \* history: a pulse could not be sent, and no timer ran
  behind      \* history: the device changed and the driver's record did not

client == <<ccb, caller, req, simq, pulses, dropped>>
thread == <<pc, nexus, status>>
timer  == <<tpulse, pm, armed, recent>>
record == <<pactive, cache, wce, wp>>
vars   == <<client, thread, timer, record, dev, behind>>

(* The device: whether it answers, its active partition, its cache, and    *)
(* two facts nobody sees: acknowledged data is only in the cache (dirty),  *)
(* acknowledged data was lost (lost).  Only the user area is cached.       *)
Device == [up : BOOLEAN, part : Part, cache : BOOLEAN,
           dirty : BOOLEAN, lost : BOOLEAN]

(* Every variable has its type, the thread has a request in hand exactly   *)
(* while it serves one, and the PM timer runs exactly in the active state. *)
TypeOK ==
  /\ ccb \in [Ccb -> {"idle", "queued", "nexus"}]
  /\ caller \in [Ccb -> {"idle", "pulse"}]
  /\ req \in [Ccb -> Request \cup {NoRequest}]
  /\ simq \in Seq(Ccb)
  /\ pulses \in 0..MaxPulses
  /\ pc \in {"wait", "start", "switch", "io", "reset", "flush", "mode",
             "register", "post"}
  /\ nexus \in Ccb \cup {none}
  /\ (nexus = none) <=> (pc \in {"wait", "start"})
  /\ status \in {"ok", "error"}
  /\ pm \in {"active", "idle"} /\ armed = (pm = "active")
  /\ {tpulse, recent, cache, wce, wp, dropped} \subseteq BOOLEAN
  /\ pactive \in Part
  /\ dev \in Device
  /\ behind \subseteq {"part", "cache"}

-----------------------------------------------------------------------------
(* sdmmc_attach and sdmmc_reg left the device identified, with its cache   *)
(* off: the cache=on option needs SDMMC_CACHE_SUP, which is not defined.   *)
Init ==
  /\ ccb = [c \in Ccb |-> "idle"] /\ caller = [c \in Ccb |-> "idle"]
  /\ req = [c \in Ccb |-> NoRequest]
  /\ simq = << >> /\ pulses = 0 /\ tpulse = FALSE /\ dropped = FALSE
  /\ pc = "wait" /\ nexus = none /\ status = "ok"
  /\ pm = "idle" /\ armed = FALSE /\ recent = FALSE
  /\ pactive = "user" /\ cache = FALSE /\ wce = FALSE /\ wp = FALSE
  /\ dev = [up |-> TRUE, part |-> "user", cache |-> FALSE,
            dirty |-> FALSE, lost |-> FALSE]
  /\ behind = {}

-----------------------------------------------------------------------------
(* Clients.                                                                *)

(* sdmmc_sim_action puts the request in the queue ...                      *)
sdmmc_sim_action(c) ==
  /\ caller[c] = "idle" /\ ccb[c] = "idle"
  /\ pulses + Cardinality({d \in Ccb : caller[d] = "pulse"}) < MaxPulses
  /\ \E r \in Asked[c] : req' = [req EXCEPT ![c] = r]
  /\ ccb' = [ccb EXCEPT ![c] = "queued"]
  /\ caller' = [caller EXCEPT ![c] = "pulse"]
  /\ simq' = Append(simq, c)
  /\ UNCHANGED <<pulses, dropped, thread, timer, record, dev, behind>>

(* ... and then sends SIM_ENQUEUE.  The thread may by now have taken the   *)
(* request off the queue; that the pulse cannot be sent is ignored.        *)
sim_pulse(c) ==
  /\ caller[c] = "pulse"
  /\ caller' = [caller EXCEPT ![c] = "idle"]
  /\ \/ pulses' = pulses + 1 /\ UNCHANGED dropped
     \/ dropped' = (dropped \/ pm = "idle") /\ UNCHANGED pulses
  /\ UNCHANGED <<ccb, req, simq, thread, timer, record, dev, behind>>

-----------------------------------------------------------------------------
(* The driver thread.                                                      *)

(* MsgReceivePulse returns SIM_ENQUEUE: sdmmc_start_ccb.  That the thread  *)
(* calls it a second time, ext->nexus being NULL after the first, is one   *)
(* more look at the queue, and is not told apart from the first.           *)
receive_enqueue ==
  /\ pc = "wait" /\ pulses > 0
  /\ pulses' = pulses - 1
  /\ pc' = "start"
  /\ UNCHANGED <<ccb, req, simq, caller, dropped, nexus, status, timer,
                 record, dev, behind>>

(* Mutant: the queue is looked at only for SIM_ENQUEUE.                    *)
sdmmc_timer_only ==
  /\ pc = "wait" /\ tpulse
  /\ tpulse' = FALSE /\ recent' = FALSE
  /\ \E elapsed \in (IF recent THEN BOOLEAN ELSE {TRUE}) :
       IF pm = "active" /\ elapsed
         THEN pm' = "idle" /\ armed' = FALSE
         ELSE UNCHANGED <<pm, armed>>
  /\ UNCHANGED <<client, thread, record, dev, behind>>

(* SDMMC_PM_TIMER: sdmmc_timer goes from active to idle when the idle time *)
(* has passed since the last post.  The timer repeats with the idle time,  *)
(* so it has passed unless something was posted since the last pulse was   *)
(* handled; the code compares clocks, so that a pulse handled late may     *)
(* find the idle time passed one period earlier or later than here.  The   *)
(* thread then looks at the queue.                                         *)
sdmmc_timer ==
  /\ pc = "wait" /\ tpulse
  /\ tpulse' = FALSE /\ recent' = FALSE
  /\ \E elapsed \in (IF recent THEN BOOLEAN ELSE {TRUE}) :
       IF pm = "active" /\ elapsed
         THEN pm' = "idle" /\ armed' = FALSE      \* sdmmc_pm( PM_IDLE )
         ELSE UNCHANGED <<pm, armed>>
  /\ pc' = "start"
  /\ UNCHANGED <<client, nexus, status, record, dev, behind>>

(* Mutant: the timer is started for one shot.                              *)
timer_expires_once ==
  /\ armed /\ ~tpulse
  /\ tpulse' = TRUE /\ armed' = FALSE
  /\ UNCHANGED <<client, thread, pm, recent, record, dev, behind>>

(* The timer of sdmmc_timer_settime( .., CAM_TRUE ) expires and goes on.   *)
timer_expires ==
  /\ armed /\ ~tpulse
  /\ tpulse' = TRUE
  /\ UNCHANGED <<client, thread, pm, armed, recent, record, dev, behind>>

(* Where sdmmc_scsi_io and sdmmc_devctl take a request: a write to a       *)
(* protected partition (Refused) and a sync without a cache end at once.   *)
Refused(r) == r.op = "write" /\ r.part = "user" /\ wp

Dispatch(r) ==
  CASE r.op = "sync"                -> IF cache THEN "flush" ELSE "post"
    [] r.op = "mode"                -> "mode"
    [] r.op \in {"register_part", "register_cache"} -> "register"
    [] OTHER                        -> IF Refused(r) THEN "post" ELSE "switch"

(* sdmmc_start_ccb takes the next request and makes the PM state active.   *)
sdmmc_start_ccb ==
  /\ pc = "start" /\ simq # << >>
  /\ nexus' = Head(simq) /\ simq' = Tail(simq)
  /\ ccb' = [ccb EXCEPT ![Head(simq)] = "nexus"]
  /\ pm' = "active" /\ armed' = TRUE
  /\ pc' = Dispatch(req[Head(simq)])
  /\ status' = IF Refused(req[Head(simq)]) THEN "error" ELSE "ok"
  /\ UNCHANGED <<req, caller, pulses, dropped, tpulse, recent, record,
                 dev, behind>>

(* It returns when the queue is empty.                                     *)
start_ccb_empty ==
  /\ pc = "start" /\ simq = << >>
  /\ pc' = "wait"
  /\ dropped' = FALSE
  /\ UNCHANGED <<ccb, req, simq, caller, pulses, nexus, status, timer, record,
                 dev, behind>>

-----------------------------------------------------------------------------
(* The handlers.  R is the request in progress.                            *)
R == req[nexus]

(* The outcomes of a SWITCH that would turn the device d into e: success,  *)
(* failure with and without effect.  A device that is not up executes none.*)
Switch(d, e) ==
  IF d.up THEN {<<"ok", e>>, <<"error", e>>, <<"error", d>>}
          ELSE {<<"error", d>>}

(* Turning the cache off writes its contents to the medium.                *)
CacheSet(d, on) ==
  [d EXCEPT !.cache = on, !.dirty = IF on THEN d.dirty ELSE FALSE]

(* Mutant: no reset after the failure in sdmmc_read_write.                 *)
set_partition_noreset ==
  /\ pc = "switch"
  /\ IF pactive = R.part
       THEN pc' = "io" /\ UNCHANGED <<status, pactive, dev, behind>>
       ELSE \E o \in Switch(dev, [dev EXCEPT !.part = R.part]) :
              /\ status' = o[1] /\ dev' = o[2]
              /\ \/ o[1] = "ok" /\ pc' = "io" /\ pactive' = R.part
                   /\ UNCHANGED behind
                 \/ /\ o[1] = "error" /\ UNCHANGED pactive
                    /\ pc' = "post"
                    /\ behind' = IF R.op \in {"erase", "protect"}
                                    /\ dev'.part # pactive
                                   THEN behind \cup {"part"} ELSE behind
  /\ UNCHANGED <<client, nexus, timer, cache, wce, wp>>

(* mmc_set_partition: the SWITCH is saved when the partition is the one    *)
(* recorded.  When it fails, sdmmc_read_write resets the device;           *)
(* mmc_erase and sdmmc_write_protect return.                               *)
mmc_set_partition ==
  /\ pc = "switch"
  /\ IF pactive = R.part
       THEN pc' = "io" /\ UNCHANGED <<status, pactive, dev, behind>>
       ELSE \E o \in Switch(dev, [dev EXCEPT !.part = R.part]) :
              /\ status' = o[1] /\ dev' = o[2]
              /\ \/ o[1] = "ok" /\ pc' = "io" /\ pactive' = R.part
                   /\ UNCHANGED behind
                 \/ /\ o[1] = "error" /\ UNCHANGED pactive
                    /\ \/ R.op \in {"read", "write"} /\ pc' = "reset"
                         /\ UNCHANGED behind
                       \/ /\ R.op \in {"erase", "protect"} /\ pc' = "post"
                          /\ behind' = IF dev'.part # pactive
                                         THEN behind \cup {"part"} ELSE behind
  /\ UNCHANGED <<client, nexus, timer, cache, wce, wp>>

(* sdmmc_rw: a write the device accepts is acknowledged when it is in the  *)
(* cache.  After an error the device is reset unless SEND_STATUS finds it  *)
(* ready in the transfer state.                                            *)
sdmmc_rw ==
  /\ pc = "io" /\ R.op \in {"read", "write"}
  /\ \/ /\ dev.up
        /\ dev' = [dev EXCEPT !.dirty = @ \/ (R.op = "write" /\ dev.cache
                                              /\ dev.part = "user")]
        /\ pc' = "post" /\ status' = "ok"
     \/ /\ pc' \in {"reset"} \cup (IF dev.up THEN {"post"} ELSE {})
        /\ status' = "error"
        /\ UNCHANGED dev
  /\ UNCHANGED <<client, nexus, timer, record, behind>>

(* The commands of mmc_erase and of sdmmc_write_protect: an error is       *)
(* returned, the device is not reset.                                      *)
erase_protect ==
  /\ pc = "io" /\ R.op \in {"erase", "protect"}
  /\ pc' = "post"
  /\ status' \in {"error"} \cup (IF dev.up THEN {"ok"} ELSE {})
  /\ UNCHANGED <<client, nexus, timer, record, dev, behind>>

(* Mutant: the cache is noted to be off before it is looked at.            *)
sdmmc_reset_unmarked ==
  /\ pc = "reset"
  /\ \E up \in BOOLEAN :
       dev' = [up |-> up, part |-> "user", cache |-> FALSE, dirty |-> FALSE,
               lost |-> dev.lost \/ dev.dirty]
  /\ pactive' = "user" /\ wce' = FALSE /\ cache' = FALSE
  /\ behind' = behind \ {"part"}
  /\ pc' = "post" /\ status' = "error"
  /\ UNCHANGED <<client, nexus, timer, wp>>

(* sdmmc_reset: _sdio_reset takes the power away and identifies the device *)
(* again, which may fail; what was only in the cache is lost.  With the    *)
(* cache on the user partition becomes read only.  The request fails.      *)
sdmmc_reset ==
  /\ pc = "reset"
  /\ \E up \in BOOLEAN :
       dev' = [up |-> up, part |-> "user", cache |-> FALSE, dirty |-> FALSE,
               lost |-> dev.lost \/ dev.dirty]
  /\ pactive' = "user" /\ wce' = FALSE
  /\ wp' = (wp \/ cache) /\ cache' = FALSE
  /\ behind' = behind \ {"part"}
  /\ pc' = "post" /\ status' = "error"
  /\ UNCHANGED <<client, nexus, timer>>

(* Mutant: the result of the flush is not looked at.                       *)
sdmmc_sync_blind ==
  /\ pc = "flush"
  /\ IF wce
       THEN \E o \in Switch(dev, [dev EXCEPT !.dirty = FALSE]) :
              status' = "ok" /\ dev' = o[2]
       ELSE status' = "ok" /\ UNCHANGED dev
  /\ pc' = "post"
  /\ UNCHANGED <<client, nexus, timer, record, behind>>

(* sdmmc_sync with the cache on: mmc_cache( SDIO_CACHE_FLUSH ), which does *)
(* nothing when DEV_FLAG_WCE is clear.                                     *)
sdmmc_sync ==
  /\ pc = "flush"
  /\ IF wce
       THEN \E o \in Switch(dev, [dev EXCEPT !.dirty = FALSE]) :
              status' = o[1] /\ dev' = o[2]
       ELSE status' = "ok" /\ UNCHANGED dev
  /\ pc' = "post"
  /\ UNCHANGED <<client, nexus, timer, record, behind>>

(* sdmmc_mpage_caching: the driver's record follows a SWITCH that          *)
(* succeeds and not one that fails.                                        *)
sdmmc_mpage_caching ==
  /\ pc = "mode"
  /\ \E o \in Switch(dev, CacheSet(dev, R.wce)) :
       /\ status' = o[1] /\ dev' = o[2]
       /\ \/ o[1] = "ok" /\ wce' = R.wce /\ cache' = R.wce
            /\ UNCHANGED behind
          \/ /\ o[1] = "error" /\ UNCHANGED <<wce, cache>>
             /\ behind' = IF dev'.cache # cache
                            THEN behind \cup {"cache"} ELSE behind
  /\ pc' = "post"
  /\ UNCHANGED <<client, nexus, timer, pactive, wp>>

(* sdmmc_card_register_devctl writes the byte of EXT_CSD it is given: the  *)
(* active partition and the cache control are among them.                  *)
sdmmc_card_register_devctl ==
  /\ pc = "register"
  /\ \E o \in Switch(dev, IF R.op = "register_part"
                             THEN [dev EXCEPT !.part = R.part]
                             ELSE CacheSet(dev, R.wce)) :
       status' = o[1] /\ dev' = o[2]
  /\ behind' = behind \cup (IF dev'.part # pactive THEN {"part"} ELSE {})
                     \cup (IF dev'.cache # cache THEN {"cache"} ELSE {})
  /\ pc' = "post"
  /\ UNCHANGED <<client, nexus, timer, record>>

(* sdmmc_post_ccb stamps the time and hands the request back.              *)
sdmmc_post_ccb ==
  /\ pc = "post"
  /\ ccb' = [ccb EXCEPT ![nexus] = "idle"]
  /\ req' = [req EXCEPT ![nexus] = NoRequest]
  /\ nexus' = none /\ status' = "ok"
  /\ recent' = TRUE
  /\ pc' = "start"
  /\ UNCHANGED <<caller, simq, pulses, dropped, tpulse, pm, armed,
                 record, dev, behind>>

-----------------------------------------------------------------------------
Driver ==
  \/ receive_enqueue \/ sdmmc_timer \/ sdmmc_start_ccb \/ start_ccb_empty
  \/ mmc_set_partition \/ sdmmc_rw \/ erase_protect \/ sdmmc_reset
  \/ sdmmc_sync \/ sdmmc_mpage_caching \/ sdmmc_card_register_devctl
  \/ sdmmc_post_ccb

Next ==
  \/ \E c \in Ccb : sdmmc_sim_action(c) \/ sim_pulse(c)
  \/ timer_expires
  \/ Driver

Spec == Init /\ [][Next]_vars

(* A thread that can run does, the call of sdmmc_sim_action returns, and   *)
(* a timer that runs expires.  Clients need never ask for anything.        *)
FairSpec ==
  /\ Spec
  /\ WF_vars(Driver)
  /\ \A c \in Ccb : WF_vars(sim_pulse(c))
  /\ WF_vars(timer_expires)

-----------------------------------------------------------------------------
(* A read, write, erase or write protection reaches the partition the      *)
(* request names: the SWITCH that is saved when dev->pactive already names *)
(* it (mmc.c 399) would not have changed anything.  The exception is a     *)
(* device whose partition changed behind the driver: by a failed SWITCH on *)
(* the two paths that do not reset it, or by a register devctl.            *)
RightPartition ==
  pc = "io" /\ "part" \notin behind => dev.part = R.part

(* Acknowledged data that a reset lost makes the user partition read only, *)
(* for good, whatever the sequence of mode selects, failures and resets:   *)
(* "we don't know if there was pending data in the eMMC cache"             *)
(* (sim_sdmmc.c 1278).                                                     *)
LossProtects ==
  dev.lost /\ "cache" \notin behind => wp

(* A sync that is answered with success leaves no acknowledged data in the *)
(* cache alone, unless the cache was switched on behind the driver.        *)
SyncDurable ==
  pc = "post" /\ R.op = "sync" /\ status = "ok" /\ "cache" \notin behind
    => ~dev.dirty

(* Every request is posted: its pulse may come when the thread has served  *)
(* it already, and the pulse of the PM timer, after which the thread looks *)
(* at the queue too, makes up for a failed SIM_ENQUEUE.  Only a pulse that *)
(* fails (sim_sdmmc.c 2640) while the PM state is idle leaves it asleep.   *)
RequestPosted ==
  \A c \in Ccb : ccb[c] = "queued" ~> (ccb[c] = "idle" \/ dropped)

(* When the requests stop the PM state becomes idle, even though the time  *)
(* of the last post is compared only when the timer happens to expire.     *)
GoesIdle ==
  <>[](\A c \in Ccb : ccb[c] = "idle") => <>[](pm = "idle")
=============================================================================
