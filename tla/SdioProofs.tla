----------------------------- MODULE SdioProofs -----------------------------
(***************************************************************************)
(* The three threads of one SD/MMC slot, for every number of insertions    *)
(* and removals, of retries and of clocks: one command at a time, no       *)
(* answer but the command's own, and no device on a card that is gone.     *)
(***************************************************************************)
EXTENDS Sdio, TLAPS

(* Where the two threads are relative to each other and to the device.     *)
(* A device whose DEV_FLAG_PRESENT is clear is on its way out, and so it   *)
(* stays when the driver thread stores flags it has loaded.                *)
Places ==
  /\ Active("sim") <=> cpc = "cmd"
  /\ Active("cd") <=> dpc = "ident"
  /\ device <=> (cpc # "none" \/ dpc = "join")
  /\ open <=> (device /\ dpc # "join")
  /\ usage = IF cpc \in {"none", "idle"} THEN 0 ELSE 1
  /\ pend => dpc \in {"removal", "join"}
  /\ dpc \in {"removal", "join"} => device
  /\ dpc = "join" => usage = 0
  /\ dpc \in {"ident", "store"} => ~device
  /\ device /\ "PRESENT" \notin flags => dpc \in {"lookup", "removal", "join"}
  /\ cpc = "store" /\ "PRESENT" \notin ld => dpc \in {"lookup", "removal"}

(* A command that began on a quiet controller is the only cause of what    *)
(* the interrupt thread finds, until it is over.  A command with data is   *)
(* not completed by the end of its response.                               *)
Unissued(t) ==
  x[t] \in {"publish", "entry"} =>
    /\ eng = "idle" /\ stat \cap CmdBits = {} /\ hs \cap CmdBits = {}
    /\ hpc = "cmplt" => hcs = "REMOVED"
    /\ cs \in {"INPROG", "REMOVED"}

OnTheBus(t) ==
  x[t] = "wait" /\ eng # "idle" =>
    /\ eng \in (IF adtc THEN {"datacmd", "data"} ELSE {"cmd"})
    /\ (stat \cup hs) \cap CmdBits \subseteq (IF eng = "data" THEN {"RE"} ELSE {})
    /\ hpc = "cmplt" => hcs = "REMOVED"
    /\ cs \in {"INPROG", "REMOVED"}

Own ==
  /\ hpc = "cmplt" => hcs # "INPROG"
  /\ \A t \in Threads :
       /\ x[t] \in {"entry", "wait"} /\ cs = "INPROG" => wspc
       /\ ~taint => Unissued(t) /\ OnTheBus(t)

(* An untainted identification that succeeds has the answer of a card.     *)
Answer == "RE" \in stat \cup hs \/ (hpc = "cmplt" /\ hcs = "CMP") \/ cs = "CMP"

Answered ==
  /\ dpc = "ident" => ~adtc
  /\ x["cd"] = "wait" /\ ~taint => "AE" \notin stat \cup hs /\ (Answer => rsp # 0)
  /\ x["cd"] = "abort" => res["cd"] # "EOK"
  /\ x["cd"] = "done" /\ ~taint /\ res["cd"] = "EOK" => rsp # 0

(* A change of the card that the detection thread has not seen yet is on   *)
(* its way: it will send a pulse, and, unless the flags have been cleared  *)
(* since, it is or will be noted in them.                                  *)
PulseToCome == stat \cap CdBits # {} \/ hpc \in {"event", "pulse"} \/ cdq > 0
News        == stat \cap CdBits # {} \/ hpc = "event" \/ "MEDIA_CHANGE" \in flags

Fresh ==
  /\ "MEDIA_CHANGE" \in flags => PulseToCome \/ cpc = "pulse" \/ dpc = "change"
  /\ dpc = "store" /\ "MEDIA_CHANGE" \in ld => PulseToCome
  /\ cpc = "store" => "MEDIA_CHANGE" \notin ld
  /\ dpc \in {"change", "lookup", "removal", "join", "insert"} /\ ins # (card # 0)
       => PulseToCome
  /\ dpc \in {"ident", "store"} /\ card = 0 => PulseToCome
  /\ dpc = "ident" /\ rsp # 0 => rsp = card \/ News

Known ==
  ~raced =>
    /\ dpc = "store" => ident # 0 /\ (ident = card \/ News)
    /\ "PRESENT" \in flags => ident # 0 /\ (ident = card \/ News)
    /\ dpc \in {"lookup", "removal", "join"} => flags \cap {"PRESENT", "INVALID"} = {}
    /\ dpc = "insert" /\ ~ins => "INVALID" \notin flags
    /\ dpc = "idle" /\ card # 0 /\ flags \cap {"PRESENT", "INVALID"} = {} => PulseToCome
    /\ dpc = "idle" /\ card = 0 /\ "INVALID" \in flags => PulseToCome

SdioInv == TypeOK /\ Places /\ Own /\ Answered /\ Fresh /\ Known
(* The types, one kind at a time.                                          *)
Booleans  == {adtc, dma, wspc, taint, open, ins, raced, device, pend} \subseteq BOOLEAN
BitSets   == /\ stat \subseteq CmdBits \cup CdBits /\ hs \subseteq CmdBits \cup CdBits
             /\ flags \subseteq Flags /\ ld \subseteq Flags
Counts    == /\ slot \in 0 .. MaxChanges /\ ident \in 0 .. slot /\ rsp \in 0 .. slot
             /\ usage \in 0 .. 1 /\ cdq \in Nat
PerThread == /\ x \in [Threads -> {"none", "publish", "entry", "wait", "abort", "done"}]
             /\ res \in [Threads -> Results] /\ left \in [Threads -> Nat]
States    == /\ eng \in {"idle", "cmd", "datacmd", "data"}
             /\ hpc \in {"idle", "event", "pulse", "cmd", "cmplt"} /\ hcs \in Statuses
             /\ cs \in Statuses \cup {"errno"}
             /\ cpc \in {"none", "idle", "store", "cmd", "event", "pulse", "leave"}
             /\ op \in {"io", "reset"}
             /\ dpc \in {"idle", "change", "lookup", "removal", "join", "insert", "ident", "store"}

(* The type invariant in parts, so that each can be followed by itself.    *)
LEMMA Types == TypeOK <=> Booleans /\ BitSets /\ Counts /\ PerThread /\ States
BY DEF TypeOK, Booleans, BitSets, Counts, PerThread, States

-----------------------------------------------------------------------------
(* The types are kept.                                                     *)
LEMMA BooleanStep ==
  ASSUME Booleans, Next
  PROVE  Booleans'
<1> USE DEF Booleans, host, hc, cmd, sim, cd, fl, dev
<1>1. CASE CardChange \/ Controller
  BY <1>1 DEF CardChange, Controller, Response, AccessEnd, BusError
<1>2. CASE hc_read \/ hc_event
  BY <1>2 DEF hc_read, hc_event, set_media_change, cd_pulse
<1>3. CASE hc_command
  BY <1>3 DEF hc_command, intr_status
<1>4. CASE sdio_cmd_cmplt
  BY <1>4 DEF sdio_cmd_cmplt
<1>5. CASE sim_io \/ sim_reset \/ reset_store \/ sim_retry
  BY <1>5
  DEF sim_io, Synchronize, Begin, Residue, sim_reset, reset_store, Store, sim_retry,
      Retry
<1>6. CASE sim_done \/ reset_event \/ synchronize_leave \/ sim_exit
  BY <1>6
  DEF sim_done, Finish, Retry, reset_event, set_media_change, cd_pulse,
      synchronize_leave, sim_exit
<1>7. CASE sdio_cd \/ cd_change \/ cd_pending \/ cd_removal \/ cd_free
  BY <1>7 DEF sdio_cd, cd_change, cd_pending, cd_removal, cd_free
<1>8. CASE cd_insert
  BY <1>8 DEF cd_insert, Begin, Residue
<1>9. CASE ident_retry
  BY <1>9 DEF ident_retry, Begin, Residue
<1>10. CASE ident_failed
  BY <1>10 DEF ident_failed, Finish
<1>11. CASE ident_load
  BY <1>11 DEF ident_load, Finish
<1>12. CASE ident_store \/ ident_unattached
  BY <1>12 DEF ident_store, ident_unattached, Store
<1>13. CASE \E t \in Threads : Issue(t)
  BY <1>13 DEF Issue, publish, rcar_sdmmc_cmd, sdio_wait_cmd, wait_timeout, abort
<1> QED BY <1>1, <1>2, <1>3, <1>4, <1>5, <1>6, <1>7, <1>8, <1>9, <1>10, <1>11, <1>12,
           <1>13
     DEF Next, Interrupt, Driver, Detection, Threads, Issue

(* The status, the flags and the copies of them stay sets of their bits.   *)
LEMMA BitSetStep ==
  ASSUME BitSets, Next
  PROVE  BitSets'
<1> USE DEF BitSets, CmdBits, CdBits, Flags, host, hc, cmd, sim, cd, fl, dev
<1>1. CASE CardChange \/ Controller
  BY <1>1 DEF CardChange, Controller, Response, AccessEnd, BusError
<1>2. CASE hc_read \/ hc_event
  BY <1>2 DEF hc_read, hc_event, set_media_change, cd_pulse
<1>3. CASE hc_command
  BY <1>3 DEF hc_command, intr_status
<1>4. CASE sdio_cmd_cmplt
  BY <1>4 DEF sdio_cmd_cmplt
<1>5. CASE sim_io \/ sim_reset \/ reset_store \/ sim_retry
  BY <1>5
  DEF sim_io, Synchronize, Begin, Residue, sim_reset, reset_store, Store, sim_retry,
      Retry
<1>6. CASE sim_done \/ reset_event \/ synchronize_leave \/ sim_exit
  BY <1>6
  DEF sim_done, Finish, Retry, reset_event, set_media_change, cd_pulse,
      synchronize_leave, sim_exit
<1>7. CASE sdio_cd \/ cd_change \/ cd_pending \/ cd_removal \/ cd_free
  BY <1>7 DEF sdio_cd, cd_change, cd_pending, cd_removal, cd_free
<1>8. CASE cd_insert
  BY <1>8 DEF cd_insert, Begin, Residue
<1>9. CASE ident_retry
  BY <1>9 DEF ident_retry, Begin, Residue
<1>10. CASE ident_failed
  BY <1>10 DEF ident_failed, Finish
<1>11. CASE ident_load
  BY <1>11 DEF ident_load, Finish
<1>12. CASE ident_store \/ ident_unattached
  BY <1>12 DEF ident_store, ident_unattached, Store
<1>13. CASE \E t \in Threads : Issue(t)
  BY <1>13 DEF Issue, publish, rcar_sdmmc_cmd, sdio_wait_cmd, wait_timeout, abort
<1> QED BY <1>1, <1>2, <1>3, <1>4, <1>5, <1>6, <1>7, <1>8, <1>9, <1>10, <1>11, <1>12,
           <1>13
     DEF Next, Interrupt, Driver, Detection, Threads, Issue

(* The cards known stay among those that were inserted, and the usage of   *)
(* the device at most one.                                                 *)
LEMMA CountStep ==
  ASSUME Counts, States, Places, Next
  PROVE  Counts'
<1> USE SdioAssumption DEF Counts, States, Places, card, host, hc, cmd, sim, cd, fl, dev
<1>1. CASE CardChange \/ Controller
  BY <1>1 DEF CardChange, Controller, Response, AccessEnd, BusError
<1>2. CASE hc_read \/ hc_event
  BY <1>2 DEF hc_read, hc_event, set_media_change, cd_pulse
<1>3. CASE hc_command
  BY <1>3 DEF hc_command, intr_status
<1>4. CASE sdio_cmd_cmplt
  BY <1>4 DEF sdio_cmd_cmplt
<1>5. CASE sim_io \/ sim_reset \/ reset_store \/ sim_retry
  BY <1>5
  DEF sim_io, Synchronize, Begin, Residue, sim_reset, reset_store, Store, sim_retry,
      Retry
<1>6. CASE sim_done \/ reset_event \/ synchronize_leave \/ sim_exit
  BY <1>6
  DEF sim_done, Finish, Retry, reset_event, set_media_change, cd_pulse,
      synchronize_leave, sim_exit
<1>7. CASE sdio_cd \/ cd_change \/ cd_pending \/ cd_removal \/ cd_free
  BY <1>7 DEF sdio_cd, cd_change, cd_pending, cd_removal, cd_free
<1>8. CASE cd_insert
  BY <1>8 DEF cd_insert, Begin, Residue
<1>9. CASE ident_retry
  BY <1>9 DEF ident_retry, Begin, Residue
<1>10. CASE ident_failed
  BY <1>10 DEF ident_failed, Finish
<1>11. CASE ident_load
  BY <1>11 DEF ident_load, Finish
<1>12. CASE ident_store \/ ident_unattached
  BY <1>12 DEF ident_store, ident_unattached, Store
<1>13. CASE \E t \in Threads : Issue(t)
  BY <1>13 DEF Issue, publish, rcar_sdmmc_cmd, sdio_wait_cmd, wait_timeout, abort
<1> QED BY <1>1, <1>2, <1>3, <1>4, <1>5, <1>6, <1>7, <1>8, <1>9, <1>10, <1>11, <1>12,
           <1>13
     DEF Next, Interrupt, Driver, Detection, Threads, Issue

(* Each thread's place in sdio_issue_cmd, its result and its remaining     *)
(* retries keep their types.                                               *)
LEMMA PerThreadStep ==
  ASSUME PerThread, Next
  PROVE  PerThread'
<1> USE SdioAssumption DEF PerThread, Threads, Results, host, hc, cmd, sim, cd, fl, dev
<1>1. CASE CardChange \/ Controller
  BY <1>1 DEF CardChange, Controller, Response, AccessEnd, BusError
<1>2. CASE hc_read \/ hc_event
  BY <1>2 DEF hc_read, hc_event, set_media_change, cd_pulse
<1>3. CASE hc_command
  BY <1>3 DEF hc_command, intr_status
<1>4. CASE sdio_cmd_cmplt
  BY <1>4 DEF sdio_cmd_cmplt
<1>5. CASE sim_io \/ sim_reset \/ reset_store \/ sim_retry
  BY <1>5
  DEF sim_io, Synchronize, Begin, Residue, sim_reset, reset_store, Store, sim_retry,
      Retry
<1>6. CASE sim_done \/ reset_event \/ synchronize_leave \/ sim_exit
  BY <1>6
  DEF sim_done, Finish, Retry, reset_event, set_media_change, cd_pulse,
      synchronize_leave, sim_exit
<1>7. CASE sdio_cd \/ cd_change \/ cd_pending \/ cd_removal \/ cd_free
  BY <1>7 DEF sdio_cd, cd_change, cd_pending, cd_removal, cd_free
<1>8. CASE cd_insert
  BY <1>8 DEF cd_insert, Begin, Residue
<1>9. CASE ident_retry
  BY <1>9 DEF ident_retry, Begin, Residue
<1>10. CASE ident_failed
  BY <1>10 DEF ident_failed, Finish
<1>11. CASE ident_load
  BY <1>11 DEF ident_load, Finish
<1>12. CASE ident_store \/ ident_unattached
  BY <1>12 DEF ident_store, ident_unattached, Store
<1>13. CASE \E t \in Threads : Issue(t)
  BY <1>13 DEF Issue, publish, rcar_sdmmc_cmd, sdio_wait_cmd, wait_timeout, abort
<1> QED BY <1>1, <1>2, <1>3, <1>4, <1>5, <1>6, <1>7, <1>8, <1>9, <1>10, <1>11, <1>12,
           <1>13
     DEF Next, Interrupt, Driver, Detection, Threads, Issue

(* The program counters and the state of the command keep their types.     *)
LEMMA StateStep ==
  ASSUME States, Next
  PROVE  States'
<1> USE DEF States, Statuses, host, hc, cmd, sim, cd, fl, dev
<1>1. CASE CardChange \/ Controller
  BY <1>1 DEF CardChange, Controller, Response, AccessEnd, BusError
<1>2. CASE hc_read \/ hc_event
  BY <1>2 DEF hc_read, hc_event, set_media_change, cd_pulse
<1>3. CASE hc_command
  BY <1>3 DEF hc_command, intr_status
<1>4. CASE sdio_cmd_cmplt
  BY <1>4 DEF sdio_cmd_cmplt
<1>5. CASE sim_io \/ sim_reset \/ reset_store \/ sim_retry
  BY <1>5
  DEF sim_io, Synchronize, Begin, Residue, sim_reset, reset_store, Store, sim_retry,
      Retry
<1>6. CASE sim_done \/ reset_event \/ synchronize_leave \/ sim_exit
  BY <1>6
  DEF sim_done, Finish, Retry, reset_event, set_media_change, cd_pulse,
      synchronize_leave, sim_exit
<1>7. CASE sdio_cd \/ cd_change \/ cd_pending \/ cd_removal \/ cd_free
  BY <1>7 DEF sdio_cd, cd_change, cd_pending, cd_removal, cd_free
<1>8. CASE cd_insert
  BY <1>8 DEF cd_insert, Begin, Residue
<1>9. CASE ident_retry
  BY <1>9 DEF ident_retry, Begin, Residue
<1>10. CASE ident_failed
  BY <1>10 DEF ident_failed, Finish
<1>11. CASE ident_load
  BY <1>11 DEF ident_load, Finish
<1>12. CASE ident_store \/ ident_unattached
  BY <1>12 DEF ident_store, ident_unattached, Store
<1>13. CASE \E t \in Threads : Issue(t)
  BY <1>13 DEF Issue, publish, rcar_sdmmc_cmd, sdio_wait_cmd, wait_timeout, abort
<1> QED BY <1>1, <1>2, <1>3, <1>4, <1>5, <1>6, <1>7, <1>8, <1>9, <1>10, <1>11, <1>12,
           <1>13
     DEF Next, Interrupt, Driver, Detection, Threads, Issue

-----------------------------------------------------------------------------
(* A thread moves on only where the other is where it may.                 *)
LEMMA PlacesStep ==
  ASSUME Booleans, BitSets, Counts, PerThread, States, Places, Next
  PROVE  Places'
<1> USE DEF Booleans, BitSets, Counts, PerThread, States, Places, Active, Threads,
            Flags, host, hc, cmd, sim, cd, fl, dev
<1>1. CASE CardChange \/ Controller
  BY <1>1 DEF CardChange, Controller, Response, AccessEnd, BusError
<1>2. CASE hc_read \/ hc_event
  BY <1>2 DEF hc_read, hc_event, set_media_change, cd_pulse
<1>3. CASE hc_command
  BY <1>3 DEF hc_command, intr_status
<1>4. CASE sdio_cmd_cmplt
  BY <1>4 DEF sdio_cmd_cmplt
<1>5. CASE sim_io \/ sim_reset \/ reset_store \/ sim_retry
  BY <1>5
  DEF sim_io, Synchronize, Begin, Residue, sim_reset, reset_store, Store, sim_retry,
      Retry
<1>6. CASE sim_done \/ reset_event \/ synchronize_leave \/ sim_exit
  BY <1>6
  DEF sim_done, Finish, Retry, reset_event, set_media_change, cd_pulse,
      synchronize_leave, sim_exit
<1>7. CASE sdio_cd \/ cd_change \/ cd_pending \/ cd_removal \/ cd_free
  BY <1>7 DEF sdio_cd, cd_change, cd_pending, cd_removal, cd_free
<1>8. CASE cd_insert
  BY <1>8 DEF cd_insert, Begin, Residue
<1>9. CASE ident_retry
  BY <1>9 DEF ident_retry, Begin, Residue
<1>10. CASE ident_failed
  BY <1>10 DEF ident_failed, Finish
<1>11. CASE ident_load
  BY <1>11 DEF ident_load, Finish
<1>12. CASE ident_store \/ ident_unattached
  BY <1>12 DEF ident_store, ident_unattached, Store
<1>13. CASE \E t \in Threads : Issue(t)
  BY <1>13 DEF Issue, publish, rcar_sdmmc_cmd, sdio_wait_cmd, wait_timeout, abort
<1> QED BY <1>1, <1>2, <1>3, <1>4, <1>5, <1>6, <1>7, <1>8, <1>9, <1>10, <1>11, <1>12,
           <1>13
     DEF Next, Interrupt, Driver, Detection, Threads, Issue

(* What the controller and the interrupt thread do to the command.         *)
LEMMA OwnStep ==
  ASSUME Booleans, BitSets, Counts, PerThread, States, Places, Own, Next
  PROVE  Own'
<1> USE DEF Booleans, BitSets, Counts, PerThread, States, Active, Threads, Flags,
            CmdBits, CdBits, Statuses, Places, Own, Unissued, OnTheBus, host, hc, cmd,
            sim, cd, fl, dev
<1>1. CASE CardChange \/ Controller
  BY <1>1 DEF CardChange, Controller, Response, AccessEnd, BusError
<1>2. CASE hc_read \/ hc_event
  BY <1>2 DEF hc_read, hc_event, set_media_change, cd_pulse
<1>3. CASE hc_command
  BY <1>3 DEF hc_command, intr_status
<1>4. CASE sdio_cmd_cmplt
  BY <1>4 DEF sdio_cmd_cmplt
<1>5. CASE sim_io \/ sim_reset \/ reset_store \/ sim_retry
  BY <1>5
  DEF sim_io, Synchronize, Begin, Residue, sim_reset, reset_store, Store, sim_retry,
      Retry
<1>6. CASE sim_done \/ reset_event \/ synchronize_leave \/ sim_exit
  BY <1>6
  DEF sim_done, Finish, Retry, reset_event, set_media_change, cd_pulse,
      synchronize_leave, sim_exit
<1>7. CASE sdio_cd \/ cd_change \/ cd_pending \/ cd_removal \/ cd_free
  BY <1>7 DEF sdio_cd, cd_change, cd_pending, cd_removal, cd_free
<1>8. CASE cd_insert
  BY <1>8 DEF cd_insert, Begin, Residue
<1>9. CASE ident_retry
  BY <1>9 DEF ident_retry, Begin, Residue
<1>10. CASE ident_failed
  BY <1>10 DEF ident_failed, Finish
<1>11. CASE ident_load
  BY <1>11 DEF ident_load, Finish
<1>12. CASE ident_store \/ ident_unattached
  BY <1>12 DEF ident_store, ident_unattached, Store
<1>13. CASE \E t \in Threads : Issue(t)
  BY <1>13 DEF Issue, publish, rcar_sdmmc_cmd, sdio_wait_cmd, wait_timeout, abort
<1> QED BY <1>1, <1>2, <1>3, <1>4, <1>5, <1>6, <1>7, <1>8, <1>9, <1>10, <1>11, <1>12,
           <1>13
     DEF Next, Interrupt, Driver, Detection, Threads, Issue

(* The answer that identifies a card is that of a card.                    *)
LEMMA AnsweredStep ==
  ASSUME Booleans, BitSets, Counts, PerThread, States, Places, Own, Answered, Next
  PROVE  Answered'
<1> USE DEF Booleans, BitSets, Counts, PerThread, States, Active, Threads, Flags,
            CmdBits, CdBits, Statuses, Places, Own, Unissued, OnTheBus, Answered,
            Answer, card, host, hc, cmd, sim, cd, fl, dev
<1>1. CASE CardChange \/ Controller
  BY <1>1 DEF CardChange, Controller, Response, AccessEnd, BusError
<1>2. CASE hc_read \/ hc_event
  BY <1>2 DEF hc_read, hc_event, set_media_change, cd_pulse
<1>3. CASE hc_command
  BY <1>3 DEF hc_command, intr_status
<1>4. CASE sdio_cmd_cmplt
  BY <1>4 DEF sdio_cmd_cmplt
<1>5. CASE sim_io \/ sim_reset \/ reset_store \/ sim_retry
  BY <1>5
  DEF sim_io, Synchronize, Begin, Residue, sim_reset, reset_store, Store, sim_retry,
      Retry
<1>6. CASE sim_done \/ reset_event \/ synchronize_leave \/ sim_exit
  BY <1>6
  DEF sim_done, Finish, Retry, reset_event, set_media_change, cd_pulse,
      synchronize_leave, sim_exit
<1>7. CASE sdio_cd \/ cd_change \/ cd_pending \/ cd_removal \/ cd_free
  BY <1>7 DEF sdio_cd, cd_change, cd_pending, cd_removal, cd_free
<1>8. CASE cd_insert
  BY <1>8 DEF cd_insert, Begin, Residue
<1>9. CASE ident_retry
  BY <1>9 DEF ident_retry, Begin, Residue
<1>10. CASE ident_failed
  BY <1>10 DEF ident_failed, Finish
<1>11. CASE ident_load
  BY <1>11 DEF ident_load, Finish
<1>12. CASE ident_store \/ ident_unattached
  BY <1>12 DEF ident_store, ident_unattached, Store
<1>13. CASE \E t \in Threads : publish(t)
  BY <1>13 DEF publish
<1>14. CASE \E t \in Threads : rcar_sdmmc_cmd(t)
  BY <1>14 DEF rcar_sdmmc_cmd
<1>15. CASE \E t \in Threads : sdio_wait_cmd(t)
  BY <1>15 DEF sdio_wait_cmd
<1>16. CASE \E t \in Threads : wait_timeout(t)
  BY <1>16 DEF wait_timeout
<1>17. CASE \E t \in Threads : abort(t)
  BY <1>17 DEF abort
<1> QED BY <1>1, <1>2, <1>3, <1>4, <1>5, <1>6, <1>7, <1>8, <1>9, <1>10, <1>11, <1>12,
           <1>13, <1>14, <1>15, <1>16, <1>17
     DEF Next, Interrupt, Driver, Detection, Threads, Issue

(* No change of the card is overlooked ...                                 *)
LEMMA FreshStep ==
  ASSUME Booleans, BitSets, Counts, PerThread, States, Places, Own, Answered, Fresh, Next
  PROVE  Fresh'
<1> USE DEF Booleans, BitSets, Counts, PerThread, States, Active, Threads, Flags,
            CmdBits, CdBits, Statuses, Places, Fresh, PulseToCome, News, card, host,
            hc, cmd, sim, cd, fl, dev
<1>1. CASE CardChange \/ Controller
  BY <1>1 DEF CardChange, Controller, Response, AccessEnd, BusError
<1>2. CASE hc_read \/ hc_event
  BY <1>2 DEF hc_read, hc_event, set_media_change, cd_pulse
<1>3. CASE hc_command
  BY <1>3 DEF hc_command, intr_status
<1>4. CASE sdio_cmd_cmplt
  BY <1>4 DEF sdio_cmd_cmplt
<1>5. CASE sim_io \/ sim_reset \/ reset_store \/ sim_retry
  BY <1>5
  DEF sim_io, Synchronize, Begin, Residue, sim_reset, reset_store, Store, sim_retry,
      Retry
<1>6. CASE sim_done \/ reset_event \/ synchronize_leave \/ sim_exit
  BY <1>6
  DEF sim_done, Finish, Retry, reset_event, set_media_change, cd_pulse,
      synchronize_leave, sim_exit
<1>7. CASE sdio_cd \/ cd_change \/ cd_pending \/ cd_removal \/ cd_free
  BY <1>7 DEF sdio_cd, cd_change, cd_pending, cd_removal, cd_free
<1>8. CASE cd_insert
  BY <1>8 DEF cd_insert, Begin, Residue
<1>9. CASE ident_retry
  BY <1>9 DEF ident_retry, Begin, Residue
<1>10. CASE ident_failed
  BY <1>10 DEF ident_failed, Finish
<1>11. CASE ident_load
  BY <1>11 DEF ident_load, Finish
<1>12. CASE ident_store \/ ident_unattached
  BY <1>12 DEF ident_store, ident_unattached, Store
<1>13. CASE \E t \in Threads : Issue(t)
  BY <1>13 DEF Issue, publish, rcar_sdmmc_cmd, sdio_wait_cmd, wait_timeout, abort
<1> QED BY <1>1, <1>2, <1>3, <1>4, <1>5, <1>6, <1>7, <1>8, <1>9, <1>10, <1>11, <1>12,
           <1>13
     DEF Next, Interrupt, Driver, Detection, Threads, Issue

(* ... and what is known of the card is what is in the slot, or news of it *)
(* is on its way.                                                          *)
LEMMA KnownStep ==
  ASSUME Booleans, BitSets, Counts, PerThread, States, Places, Own, Answered, Fresh, Known, Next
  PROVE  Known'
<1> USE DEF Booleans, BitSets, Counts, PerThread, States, Active, Threads, Flags,
            CmdBits, CdBits, Statuses, Places, Answered, Fresh, Known, PulseToCome,
            News, card, host, hc, cmd, sim, cd, fl, dev
<1>1. CASE CardChange \/ Controller
  BY <1>1 DEF CardChange, Controller, Response, AccessEnd, BusError
<1>2. CASE hc_read \/ hc_event
  BY <1>2 DEF hc_read, hc_event, set_media_change, cd_pulse
<1>3. CASE hc_command
  BY <1>3 DEF hc_command, intr_status
<1>4. CASE sdio_cmd_cmplt
  BY <1>4 DEF sdio_cmd_cmplt
<1>5. CASE sim_io \/ sim_reset \/ reset_store \/ sim_retry
  BY <1>5
  DEF sim_io, Synchronize, Begin, Residue, sim_reset, reset_store, Store, sim_retry,
      Retry
<1>6. CASE sim_done \/ reset_event \/ synchronize_leave \/ sim_exit
  BY <1>6
  DEF sim_done, Finish, Retry, reset_event, set_media_change, cd_pulse,
      synchronize_leave, sim_exit
<1>7. CASE sdio_cd \/ cd_change \/ cd_pending \/ cd_removal \/ cd_free
  BY <1>7 DEF sdio_cd, cd_change, cd_pending, cd_removal, cd_free
<1>8. CASE cd_insert
  BY <1>8 DEF cd_insert, Begin, Residue
<1>9. CASE ident_retry
  BY <1>9 DEF ident_retry, Begin, Residue
<1>10. CASE ident_failed
  BY <1>10 DEF ident_failed, Finish
<1>11. CASE ident_load
  BY <1>11 DEF ident_load, Finish
<1>12. CASE ident_store \/ ident_unattached
  BY <1>12 DEF ident_store, ident_unattached, Store
<1>13. CASE \E t \in Threads : Issue(t)
  BY <1>13 DEF Issue, publish, rcar_sdmmc_cmd, sdio_wait_cmd, wait_timeout, abort
<1> QED BY <1>1, <1>2, <1>3, <1>4, <1>5, <1>6, <1>7, <1>8, <1>9, <1>10, <1>11, <1>12,
           <1>13
     DEF Next, Interrupt, Driver, Detection, Threads, Issue
-----------------------------------------------------------------------------
(* The invariant holds with an empty slot and all threads at rest.         *)
LEMMA InitInv == Init => SdioInv
<1>0. /\ 1 \in 0 .. MaxChanges /\ 1 \in 0 .. 1 /\ 0 \in 0 .. 1 /\ 0 \in Nat
  BY SdioAssumption
<1> SUFFICES ASSUME Init PROVE SdioInv
  OBVIOUS
<1> USE DEF Init
<1>1. TypeOK
  <2>1. Booleans
    BY DEF Booleans
  <2>2. BitSets /\ States
    BY DEF BitSets, States, CmdBits, CdBits, Flags, Statuses
  <2>3. Counts
    BY <1>0, Zenon DEF Counts
  <2>4. PerThread
    BY DEF PerThread, Threads, Results
  <2> QED BY <2>1, <2>2, <2>3, <2>4, Types
<1>2. Places
  BY DEF Places, Active, Threads
<1>3. Own /\ Answered
  BY DEF Own, Unissued, OnTheBus, Answered, Threads
<1>4. card = 1
  BY DEF card
<1>5. Fresh /\ Known
  BY <1>4 DEF Fresh, Known, PulseToCome, News
<1> QED BY <1>1, <1>2, <1>3, <1>5 DEF SdioInv

(* Every step of the threads, the controller and the card keeps the        *)
(* invariant.                                                              *)
LEMMA NextInv == SdioInv /\ [Next]_vars => SdioInv'
<1> SUFFICES ASSUME SdioInv, [Next]_vars PROVE SdioInv'
  OBVIOUS
<1>1. Booleans /\ BitSets /\ Counts /\ PerThread /\ States
  BY Types DEF SdioInv
<1>2. CASE Next
  <2>1. Booleans' /\ BitSets' /\ Counts' /\ PerThread' /\ States'
    BY <1>1, <1>2, BooleanStep, BitSetStep, CountStep, PerThreadStep, StateStep DEF SdioInv
  <2>2. TypeOK'
    BY <2>1 DEF TypeOK, Booleans, BitSets, Counts, PerThread, States
  <2>3. Places' /\ Own' /\ Answered'
    BY <1>1, <1>2, PlacesStep, OwnStep, AnsweredStep DEF SdioInv
  <2>4. Fresh' /\ Known'
    BY <1>1, <1>2, FreshStep, KnownStep DEF SdioInv
  <2> QED BY <2>2, <2>3, <2>4 DEF SdioInv
<1>3. CASE UNCHANGED vars
  <2> USE <1>3 DEF SdioInv, vars, host, hc, cmd, sim, cd, fl, dev
  <2>1. TypeOK'
    BY DEF TypeOK
  <2>2. Places' /\ Own' /\ Answered'
    BY DEF Places, Active, Own, Unissued, OnTheBus, Answered, Answer
  <2>3. Fresh' /\ Known'
    BY DEF Fresh, Known, PulseToCome, News, card
  <2> QED BY <2>1, <2>2, <2>3
<1> QED BY <1>2, <1>3

(* The invariant of the slot: where the driver thread and the detection    *)
(* thread may be at once, what an untainted command can find, and that a   *)
(* card that is not the known one has left a trace the detection thread    *)
(* will meet.                                                              *)
THEOREM SdioInvariant == Spec => []SdioInv
BY InitInv, NextInv, PTL DEF Spec

(* Every variable of the slot has its type; the usage of a device is 0 or 1.*)
THEOREM SdioTypes == Spec => []TypeOK
<1>1. SdioInv => TypeOK
  BY DEF SdioInv
<1> QED BY <1>1, SdioInvariant, PTL

(* The identification of a card and a request of the driver thread are     *)
(* never inside sdio_issue_cmd together, however often cards are changed   *)
(* and although the read-modify-writes of dev->flags lose changes.         *)
THEOREM CommandsAreSerial == Spec => []OneCommandAtATime
<1>1. SdioInv => OneCommandAtATime
  BY DEF SdioInv, Places, OneCommandAtATime
<1> QED BY <1>1, SdioInvariant, PTL

(* sdio_detach frees the device only after its driver thread has ended,    *)
(* and the usage that the removal waits for counts the requests inside.    *)
THEOREM DeviceIsKept == Spec => []DeviceOutlivesItsThread
<1>1. SdioInv => DeviceOutlivesItsThread
  BY DEF SdioInv, Places, DeviceOutlivesItsThread
<1> QED BY <1>1, SdioInvariant, PTL

(* A command published while the controller and the interrupt thread are   *)
(* quiet is completed by its own answer only, for any number of retries.   *)
THEOREM AnswersAreOwn == Spec => []CompletionIsOwn
<1>1. SdioInv => CompletionIsOwn
  BY DEF SdioInv, TypeOK, Own, Unissued, OnTheBus, CompletionIsOwn, Statuses
<1> QED BY <1>1, SdioInvariant, PTL

(* Until a store of dev->flags loses a change or a tainted command         *)
(* identifies a card, a card detection that is at rest knows what is in    *)
(* the slot, whatever the order of insertions, removals and requests.      *)
THEOREM CardIsKnown == Spec => []NoStaleCardUntilRaced
<1>1. SdioInv => NoStaleCardUntilRaced
  <2> SUFFICES ASSUME SdioInv, ~raced, Settled PROVE NoStaleCard
    BY DEF NoStaleCardUntilRaced, NoStaleCard
  <2> USE DEF SdioInv, TypeOK, Settled
  <2>1. ~PulseToCome /\ "MEDIA_CHANGE" \notin flags
    BY DEF Fresh, PulseToCome
  <2>2. ~News
    BY <2>1 DEF News
  <2>3. "PRESENT" \in flags => ident # 0 /\ ident = card
    BY <2>2 DEF Known
  <2>4. device => "PRESENT" \in flags
    BY DEF Places
  <2>5. card # 0 => flags \cap {"PRESENT", "INVALID"} # {}
    BY <2>1 DEF Known
  <2>6. card = 0 => flags = {}
    BY <2>1, <2>3 DEF Known, Flags
  <2> QED BY <2>3, <2>4, <2>5, <2>6 DEF NoStaleCard
<1> QED BY <1>1, SdioInvariant, PTL
=============================================================================
