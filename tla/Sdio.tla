-------------------------------- MODULE Sdio --------------------------------
(***************************************************************************)
(* SD/MMC commands, card detection and removal (hardware/devb/sdmmc:       *)
(* sdiodi/base.c, sdiodi/card.c, sdiodi/hc/rcar.c and the attach and       *)
(* detach paths of sim_sdmmc.c).  Three threads share one slot: the driver *)
(* thread of the attached device ("sim"), the card detection thread ("cd") *)
(* and the thread that serves the host controller's interrupt.  A card is  *)
(* its serial number; the data of a command is left out.                   *)
(***************************************************************************)
EXTENDS Integers

CONSTANTS
  MaxChanges,  \* bound: insertions and removals of a card
  Retries,     \* retries of a request, and SDIO_RESET_RETRIES - 1
  Clks         \* clocks an identification is tried at (400, 300, 200, 100 kHz)

ASSUME SdioAssumption == MaxChanges \in Nat \ {0} /\ Retries \in Nat /\ Clks \in Nat \ {0}

VARIABLES
  slot,               \* insertions and removals so far
  stat,               \* SD_INFO1 and SD_INFO2
  eng, dma,           \* command on the bus, the controller's DMA runs
  hpc, hs, hcs,       \* interrupt thread: place, status it has read, cs
  wspc, cs, adtc,     \* hc->wspc.cmd # NULL, cmd->status, is it a command with data
  rsp,                \* response register: the card that responded
  taint,              \* history: what an earlier command left may answer this one
  x, res, left,       \* per thread: place in sdio_issue_cmd, result, tries left
  cpc, op, open,      \* driver thread: place, request, its channel exists
  dpc, ins,           \* card detection thread: place, cd & CD_INS
  cdq,                \* SDIO_EV_CD pulses queued
  flags, ld,          \* dev->flags, their copy in a |= or &=
  raced,              \* history: a store lost a change of the flags, or what an earlier
                      \* command left identified a card
  device, usage, pend,\* sdio_device allocated, its usage and DEV_FLAG_RMV_PENDING
  ident               \* card that was identified

host == <<stat, eng, dma>>
hc   == <<hpc, hs, hcs>>
cmd  == <<wspc, cs, adtc, rsp, taint, x, res, left>>
sim  == <<cpc, op, open>>
cd   == <<dpc, ins, cdq>>
fl   == <<flags, ld, raced>>
dev  == <<device, usage, pend, ident>>
vars == <<slot, host, hc, cmd, sim, cd, fl, dev>>

Threads == {"sim", "cd"}
CmdBits == {"RE", "AE", "ERR"}
CdBits  == {"INST", "RMVL"}

\* The card in the slot, 0 for none: a card is the insertion that brought it.
card == IF slot % 2 = 1 THEN slot ELSE 0

(* _sdio_connect has found a card in the slot, sdmmc_sim_attach attached it. *)
Init ==
  /\ slot = 1
  /\ stat = {} /\ eng = "idle" /\ dma = FALSE
  /\ hpc = "idle" /\ hs = {} /\ hcs = "INPROG"
  /\ wspc = FALSE /\ cs = "INPROG" /\ adtc = FALSE /\ rsp = 0 /\ taint = FALSE
  /\ x = [t \in Threads |-> "none"] /\ res = [t \in Threads |-> "EOK"]
  /\ left = [t \in Threads |-> 0]
  /\ cpc = "idle" /\ op = "io" /\ open = TRUE
  /\ dpc = "idle" /\ ins = FALSE /\ cdq = 0
  /\ flags = {"PRESENT"} /\ ld = {} /\ raced = FALSE
  /\ device = TRUE /\ usage = 0 /\ pend = FALSE /\ ident = 1
-----------------------------------------------------------------------------
(* The slot and the controller.                                            *)
CardChange ==
  /\ slot < MaxChanges
  /\ slot' = slot + 1
  /\ stat' = stat \cup {IF card = 0 THEN "INST" ELSE "RMVL"}
  /\ UNCHANGED <<eng, dma, hc, cmd, sim, cd, fl, dev>>

\* The response, which only the identification looks at; with data to move the
\* command stays on the bus.
Response ==
  /\ eng \in {"cmd", "datacmd"} /\ card # 0
  /\ stat' = stat \cup {"RE"} /\ eng' = IF eng = "cmd" THEN "idle" ELSE "data"
  /\ rsp' = IF x["cd"] = "wait" THEN card ELSE rsp
  /\ UNCHANGED <<slot, dma, hc, wspc, cs, adtc, taint, x, res, left, sim, cd, fl, dev>>

AccessEnd ==
  /\ eng = "data" /\ dma /\ card # 0
  /\ stat' = stat \cup {"AE"} /\ eng' = "idle" /\ dma' = FALSE
  /\ UNCHANGED <<slot, hc, cmd, sim, cd, fl, dev>>

\* No response, bad CRC, data time-out: the controller gives up by itself.
BusError ==
  /\ eng # "idle"
  /\ stat' = stat \cup {"ERR"} /\ eng' = "idle"
  /\ UNCHANGED <<slot, dma, hc, cmd, sim, cd, fl, dev>>
-----------------------------------------------------------------------------
(* sdio_hc_event, HC_EV_CD, in its two steps.                              *)
set_media_change == flags' = flags \cup {"MEDIA_CHANGE"}
cd_pulse         == cdq' = cdq + 1

(* rcar_sdmmc_event in sdio_hc_thread.  The interrupt is masked from its   *)
(* pulse to the InterruptUnmask after the handler.                         *)
hc_read ==
  /\ hpc = "idle" /\ stat # {}
  /\ hs' = stat /\ stat' = {}
  /\ hpc' = IF stat \cap CdBits # {} THEN "event" ELSE "cmd"
  /\ UNCHANGED <<slot, eng, dma, hcs, cmd, sim, cd, fl, dev>>

\* Mutant: the pulse is sent before the flag is set.
hc_event_swapped ==
  /\ \/ hpc = "event" /\ cd_pulse /\ hpc' = "pulse" /\ UNCHANGED flags
     \/ hpc = "pulse" /\ set_media_change /\ hpc' = "cmd" /\ UNCHANGED cdq
  /\ UNCHANGED <<slot, host, hs, hcs, cmd, sim, dpc, ins, ld, raced, dev>>

hc_event ==
  /\ \/ hpc = "event" /\ set_media_change /\ hpc' = "pulse" /\ UNCHANGED cdq
     \/ hpc = "pulse" /\ cd_pulse /\ hpc' = "cmd" /\ UNCHANGED flags
  /\ UNCHANGED <<slot, host, hs, hcs, cmd, sim, dpc, ins, ld, raced, dev>>

\* Mutant: the end of the response ends a command with data, too.
intr_status_re ==
  IF "RMVL" \in hs THEN "REMOVED"
  ELSE IF "ERR" \in hs THEN "ERR"
  ELSE IF hs \cap {"RE", "AE"} # {} THEN "CMP" ELSE "INPROG"

\* The status the handler gives the command for what it has read.
intr_status ==
  IF "RMVL" \in hs THEN "REMOVED"
  ELSE IF "ERR" \in hs THEN "ERR"
  ELSE IF "RE" \in hs THEN (IF adtc THEN "INPROG" ELSE "CMP")
  ELSE IF "AE" \in hs THEN "CMP" ELSE "INPROG"

hc_command ==
  /\ hpc = "cmd"
  /\ hcs' = IF wspc THEN intr_status ELSE "INPROG"
  /\ dma' = IF hcs' # "INPROG" /\ adtc THEN FALSE
            ELSE dma \/ (wspc /\ adtc /\ "RE" \in hs)
  /\ hs' = {} /\ hpc' = IF hcs' = "INPROG" THEN "idle" ELSE "cmplt"
  /\ UNCHANGED <<slot, stat, eng, cmd, sim, cd, fl, dev>>

sdio_cmd_cmplt ==
  /\ hpc = "cmplt"
  /\ wspc' = FALSE /\ cs' = hcs /\ hpc' = "idle" /\ hcs' = "INPROG"
  /\ UNCHANGED <<slot, host, hs, adtc, rsp, taint, x, res, left, sim, cd, fl, dev>>
-----------------------------------------------------------------------------
(* sdio_issue_cmd, run by the driver thread and, to identify a card, by    *)
(* the card detection thread.                                              *)
Residue == eng # "idle" \/ stat \cap CmdBits # {} \/ hs \cap CmdBits # {} \/ hpc = "cmplt"

(* cmd->status is reset before the command is published in hc->wspc.cmd.   *)
(* One command without data stands for the sequence that identifies or     *)
(* resets a card.                                                          *)
Begin(t, data) ==
  /\ x' = [x EXCEPT ![t] = "publish"]
  /\ cs' = "INPROG" /\ adtc' = data /\ taint' = Residue
  /\ res' = [res EXCEPT ![t] = "EOK"] /\ rsp' = 0

\* The command is freed, and cleared when sdio_alloc_cmd takes it again.
Finish(t) ==
  /\ x' = [x EXCEPT ![t] = "none"] /\ res' = [res EXCEPT ![t] = "EOK"]
  /\ left' = [left EXCEPT ![t] = 0] /\ taint' = FALSE
  /\ cs' = "INPROG" /\ adtc' = FALSE /\ rsp' = 0

publish(t) ==
  /\ x[t] = "publish"
  /\ wspc' = TRUE /\ x' = [x EXCEPT ![t] = "entry"]
  /\ UNCHANGED <<slot, host, hc, cs, adtc, rsp, taint, res, left, sim, cd, fl, dev>>

\* EAGAIN while the bus stays busy, EINVAL for a buffer the DMA cannot use: like
\* ETIMEDOUT these are failures that _sdio_send_cmd does not retry.
rcar_sdmmc_cmd(t) ==
  /\ x[t] = "entry"
  /\ \/ /\ eng = "idle"
        /\ stat' = stat \ CmdBits /\ eng' = IF adtc THEN "datacmd" ELSE "cmd"
        /\ x' = [x EXCEPT ![t] = "wait"] /\ UNCHANGED res
     \/ /\ eng # "idle"
        /\ x' = [x EXCEPT ![t] = "abort"] /\ res' = [res EXCEPT ![t] = "failed"]
        /\ UNCHANGED <<stat, eng>>
     \/ /\ eng = "idle" /\ adtc /\ stat' = stat \ CmdBits
        /\ x' = [x EXCEPT ![t] = "abort"] /\ res' = [res EXCEPT ![t] = "failed"]
        /\ UNCHANGED eng
  /\ UNCHANGED <<slot, dma, hc, wspc, cs, adtc, rsp, taint, left, sim, cd, fl, dev>>

sdio_wait_cmd(t) ==
  /\ x[t] = "wait" /\ cs # "INPROG"
  /\ x' = [x EXCEPT ![t] = "done"]
  /\ res' = [res EXCEPT ![t] = CASE cs = "CMP" -> "EOK" [] cs = "REMOVED" -> "ENXIO"
                                 [] OTHER -> "EIO"]
  /\ UNCHANGED <<slot, host, hc, wspc, cs, adtc, rsp, taint, left, sim, cd, fl, dev>>

wait_timeout(t) ==
  /\ x[t] = "wait" /\ cs = "INPROG"
  /\ x' = [x EXCEPT ![t] = "abort"] /\ res' = [res EXCEPT ![t] = "failed"]
  /\ UNCHANGED <<slot, host, hc, wspc, cs, adtc, rsp, taint, left, sim, cd, fl, dev>>

\* rcar_sdmmc_abort does nothing: the command stays on the bus.
abort(t) ==
  /\ x[t] = "abort"
  /\ wspc' = FALSE /\ cs' = "errno" /\ x' = [x EXCEPT ![t] = "done"]
  /\ UNCHANGED <<slot, host, hc, adtc, rsp, taint, res, left, sim, cd, fl, dev>>
-----------------------------------------------------------------------------
(* The driver thread: a request through one of the wrappers of card.c, or  *)
(* sdio_reset after a failure.                                             *)
\* Mutant: a removal that waits does not keep new requests out.
Synchronize_nopend == usage' = usage + 1

\* A request is refused, with ENXIO, when the card is removed or changes.
Synchronize ==
  /\ ~pend /\ "MEDIA_CHANGE" \notin flags
  /\ usage' = usage + 1

sim_io ==
  /\ cpc = "idle" /\ open /\ Synchronize
  /\ cpc' = "cmd" /\ left' = [left EXCEPT !["sim"] = Retries] /\ Begin("sim", TRUE)
  /\ UNCHANGED <<slot, host, hc, wspc, op, open, cd, fl, device, pend, ident>>

(* dev->flags &= ~DEV_FLAG_WCE of _sdio_reset: a load and a store.         *)
sim_reset ==
  /\ cpc = "idle" /\ open /\ Synchronize
  /\ op' = "reset" /\ ld' = flags /\ cpc' = "store"
  /\ UNCHANGED <<slot, host, hc, cmd, open, cd, flags, raced, device, pend, ident>>

Store(f) == flags' = f /\ raced' = (raced \/ flags # ld) /\ ld' = {}

reset_store ==
  /\ cpc = "store" /\ Store(ld)
  /\ cpc' = "cmd" /\ left' = [left EXCEPT !["sim"] = Retries] /\ Begin("sim", FALSE)
  /\ UNCHANGED <<slot, host, hc, wspc, op, open, cd, dev>>

\* _sdio_send_cmd retries an error of the bus, _sdio_reset every failure.
Retry == /\ left["sim"] > 0
         /\ res["sim"] \in (IF op = "io" THEN {"EIO"} ELSE {"EIO", "failed"})

sim_retry ==
  /\ cpc = "cmd" /\ x["sim"] = "done" /\ Retry
  /\ left' = [left EXCEPT !["sim"] = @ - 1] /\ Begin("sim", adtc)
  /\ UNCHANGED <<slot, host, hc, wspc, sim, cd, fl, dev>>

sim_done ==
  /\ cpc = "cmd" /\ x["sim"] = "done" /\ ~Retry /\ Finish("sim")
  /\ cpc' = IF op = "reset" /\ res["sim"] = "ENXIO" THEN "event" ELSE "leave"
  /\ UNCHANGED <<slot, host, hc, wspc, op, open, cd, fl, dev>>

reset_event ==
  /\ \/ cpc = "event" /\ set_media_change /\ cpc' = "pulse" /\ UNCHANGED cdq
     \/ cpc = "pulse" /\ cd_pulse /\ cpc' = "leave" /\ UNCHANGED flags
  /\ UNCHANGED <<slot, host, hc, cmd, op, open, dpc, ins, ld, raced, dev>>

\* The last request of a device that is being removed signals cd_cond.
synchronize_leave ==
  /\ cpc = "leave"
  /\ usage' = usage - 1 /\ cpc' = "idle" /\ op' = "io"
  /\ UNCHANGED <<slot, host, hc, cmd, open, cd, fl, device, pend, ident>>

\* MsgReceivePulse fails once sdmmc_detach has destroyed the channel.
sim_exit ==
  /\ cpc = "idle" /\ ~open
  /\ cpc' = "none"
  /\ UNCHANGED <<slot, host, hc, cmd, op, open, cd, fl, dev>>
-----------------------------------------------------------------------------
(* The card detection thread: sdio_cd for each pulse.                      *)
sdio_cd ==
  /\ dpc = "idle" /\ cdq > 0
  /\ cdq' = cdq - 1 /\ ins' = (card # 0) /\ dpc' = "change"
  /\ UNCHANGED <<slot, host, hc, cmd, sim, fl, dev>>

cd_change ==
  /\ dpc = "change"
  /\ IF "MEDIA_CHANGE" \in flags \/ ~ins
       THEN /\ flags' = {} /\ dpc' = IF "PRESENT" \in flags THEN "lookup" ELSE "insert"
       ELSE dpc' = "insert" /\ UNCHANGED flags
  /\ UNCHANGED <<slot, host, hc, cmd, sim, ins, cdq, ld, raced, dev>>

cd_pending ==
  /\ dpc = "lookup"
  /\ pend' = (pend \/ device) /\ dpc' = IF device THEN "removal" ELSE "insert"
  /\ UNCHANGED <<slot, host, hc, cmd, sim, ins, cdq, fl, device, usage, ident>>

\* cd_cond is waited for until usage = 0, then sdmmc_sdio_removal is called.
cd_removal ==
  /\ dpc = "removal" /\ usage = 0
  /\ open' = FALSE /\ dpc' = "join"
  /\ UNCHANGED <<slot, host, hc, cmd, cpc, op, ins, cdq, fl, dev>>

\* Mutant: the device is freed although its thread still runs.
cd_free_early ==
  /\ dpc = "join"
  /\ device' = FALSE /\ usage' = 0 /\ pend' = FALSE /\ dpc' = "insert"
  /\ UNCHANGED <<slot, host, hc, cmd, sim, ins, cdq, fl, ident>>

cd_free ==
  /\ dpc = "join" /\ cpc = "none"
  /\ device' = FALSE /\ usage' = 0 /\ pend' = FALSE /\ ident' = 0
  /\ dpc' = "insert"
  /\ UNCHANGED <<slot, host, hc, cmd, sim, ins, cdq, fl>>

\* Mutant: a card is identified although a device is attached.
cd_insert_again ==
  /\ dpc = "insert"
  /\ IF ins
       THEN /\ flags' = {} /\ dpc' = "ident"
            /\ left' = [left EXCEPT !["cd"] = Clks - 1] /\ Begin("cd", FALSE)
       ELSE dpc' = "idle" /\ UNCHANGED <<flags, left, x, cs, adtc, taint, res, rsp>>
  /\ ins' = FALSE
  /\ UNCHANGED <<slot, host, hc, wspc, sim, cdq, ld, raced, dev>>

\* _sdio_attach begins with a memset of hc->device, its flags included.
cd_insert ==
  /\ dpc = "insert"
  /\ IF ins /\ flags \cap {"PRESENT", "INVALID"} = {}
       THEN /\ flags' = {} /\ dpc' = "ident"
            /\ left' = [left EXCEPT !["cd"] = Clks - 1] /\ Begin("cd", FALSE)
       ELSE dpc' = "idle" /\ UNCHANGED <<flags, left, x, cs, adtc, taint, res, rsp>>
  /\ ins' = FALSE
  /\ UNCHANGED <<slot, host, hc, wspc, sim, cdq, ld, raced, dev>>

ident_retry ==
  /\ dpc = "ident" /\ x["cd"] = "done" /\ res["cd"] # "EOK" /\ left["cd"] > 0
  /\ left' = [left EXCEPT !["cd"] = @ - 1] /\ Begin("cd", FALSE)
  /\ UNCHANGED <<slot, host, hc, wspc, sim, cd, fl, dev>>

ident_failed ==
  /\ dpc = "ident" /\ x["cd"] = "done" /\ res["cd"] # "EOK" /\ left["cd"] = 0
  /\ Finish("cd") /\ flags' = flags \cup {"INVALID"} /\ dpc' = "idle"
  /\ UNCHANGED <<slot, host, hc, wspc, sim, ins, cdq, ld, raced, dev>>

(* dev->flags |= DEV_FLAG_PRESENT, a load and a store, then the insertion  *)
(* callback: sdio_attach and a driver thread, or no device when it returns *)
(* at once or has to detach what it could not attach.                      *)
ident_load ==
  /\ dpc = "ident" /\ x["cd"] = "done" /\ res["cd"] = "EOK"
  /\ Finish("cd") /\ ident' = rsp /\ raced' = (raced \/ taint)
  /\ ld' = flags /\ dpc' = "store"
  /\ UNCHANGED <<slot, host, hc, wspc, sim, ins, cdq, flags, device, usage, pend>>

ident_store ==
  /\ dpc = "store" /\ Store(ld \cup {"PRESENT"})
  /\ device' = TRUE /\ cpc' = "idle" /\ open' = TRUE
  /\ dpc' = "idle"
  /\ UNCHANGED <<slot, host, hc, cmd, op, ins, cdq, usage, pend, ident>>

ident_unattached ==
  /\ dpc = "store" /\ Store(ld \cup {"PRESENT"})
  /\ dpc' = "idle"
  /\ UNCHANGED <<slot, host, hc, cmd, sim, ins, cdq, dev>>
-----------------------------------------------------------------------------
Controller == Response \/ AccessEnd \/ BusError
Interrupt  == hc_read \/ hc_event \/ hc_command \/ sdio_cmd_cmplt
Issue(t)   == publish(t) \/ rcar_sdmmc_cmd(t) \/ sdio_wait_cmd(t) \/ wait_timeout(t) \/ abort(t)
Driver     == \/ Issue("sim") \/ reset_store \/ sim_retry \/ sim_done \/ reset_event
              \/ synchronize_leave \/ sim_exit
Detection  == \/ Issue("cd") \/ sdio_cd \/ cd_change \/ cd_pending \/ cd_removal \/ cd_free
              \/ cd_insert \/ ident_retry \/ ident_failed \/ ident_load \/ ident_store
              \/ ident_unattached
Next == CardChange \/ Controller \/ Interrupt \/ sim_io \/ sim_reset \/ Driver \/ Detection

Spec == Init /\ [][Next]_vars
(* The driver thread and the card detection thread go on; a request need   *)
(* never come, and neither answers nor interrupts are relied on.           *)
FairSpec == Spec /\ WF_vars(Driver) /\ WF_vars(Detection)
-----------------------------------------------------------------------------
Results  == {"EOK", "EIO", "ENXIO", "failed"}
Statuses == {"INPROG", "CMP", "ERR", "REMOVED"}
Flags    == {"MEDIA_CHANGE", "PRESENT", "INVALID"}

(* Every variable has its type.                                            *)
TypeOK ==
  /\ slot \in 0 .. MaxChanges /\ ident \in 0 .. slot
  /\ stat \subseteq CmdBits \cup CdBits /\ hs \subseteq CmdBits \cup CdBits
  /\ eng \in {"idle", "cmd", "datacmd", "data"} /\ rsp \in 0 .. slot
  /\ {adtc, dma, wspc, taint, open, ins, raced, device, pend} \subseteq BOOLEAN
  /\ hpc \in {"idle", "event", "pulse", "cmd", "cmplt"} /\ hcs \in Statuses
  /\ cs \in Statuses \cup {"errno"}
  /\ x \in [Threads -> {"none", "publish", "entry", "wait", "abort", "done"}]
  /\ res \in [Threads -> Results] /\ left \in [Threads -> Nat]
  /\ cpc \in {"none", "idle", "store", "cmd", "event", "pulse", "leave"}
  /\ op \in {"io", "reset"} /\ usage \in 0 .. 1 /\ cdq \in Nat
  /\ dpc \in {"idle", "change", "lookup", "removal", "join", "insert", "ident", "store"}
  /\ flags \subseteq Flags /\ ld \subseteq Flags

Active(t) == x[t] # "none"

(* Nothing serialises the commands of two threads on one controller but    *)
(* the removal protocol: a card is identified only when the driver thread  *)
(* of the card before has left _sdio_send_cmd for good.                    *)
OneCommandAtATime == Active("cd") => cpc = "none" /\ ~Active("sim")

(* The device is freed by sdio_detach only when its thread has ended, and  *)
(* its usage counts the requests that are inside: a removal that waits for *)
(* cd_cond has someone to signal it, and no request outlives the wait.     *)
DeviceOutlivesItsThread ==
  /\ cpc # "none" => device
  /\ usage = (IF cpc \in {"none", "idle"} THEN 0 ELSE 1)

(* A command that is published while the controller and its interrupt      *)
(* thread are quiet completes only by its own answer, although completion, *)
(* time-out and abort race, and hc->wspc.cmd is read without the mutex.    *)
CompletionIsOwn ==
  \A t \in Threads :
    x[t] \in {"entry", "wait"} /\ ~taint =>
      /\ cs \in {"CMP", "ERR"} => x[t] = "wait" /\ eng = "idle"
      /\ cs = "INPROG" => wspc

Settled == /\ dpc = "idle" /\ cdq = 0 /\ hpc = "idle" /\ stat \cap CdBits = {}
           /\ cpc \notin {"event", "pulse"}

(* Once the card detection has come to rest, what it knows is what is in   *)
(* the slot: no order of insertions, removals, identification and requests *)
(* leaves a device, or a card noted as present, when the card is gone ...  *)
NoStaleCard ==
  Settled => /\ device => "PRESENT" \in flags
             /\ "PRESENT" \in flags => ident = card
             /\ card # 0 => flags \cap {"PRESENT", "INVALID"} # {}
             /\ card = 0 => flags = {}

(* ... until a change of dev->flags is lost between load and store.        *)
NoStaleCardUntilRaced == ~raced => NoStaleCard

(* Card detection ends: no request, lost completion or request that comes  *)
(* in while it waits keeps a removal waiting for ever, even if the         *)
(* controller never interrupts again.                                      *)
RemovalEnds == dpc # "idle" ~> dpc = "idle"
=============================================================================
