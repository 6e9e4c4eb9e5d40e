-------------------------------- MODULE Ravb --------------------------------
(***************************************************************************)
(* The data path of the Ethernet AVB driver (hardware/devnp/ravb): the     *)
(* transmit ring (ravb_start, ravb_reap_tx), the receive ring              *)
(* (ravb_receive), the interrupt hand-over (ravb_dmac_isr,                 *)
(* ravb_process_interrupt, ravb_dmac_enable_interrupt) and the life cycle  *)
(* of the interface (ravb_init, ravb_stop, the link callback).             *)
(*                                                                         *)
(* Two driver threads run: "stack" (io-pkt's stack context: output, init,  *)
(* stop, link callback) and "intr" (the work thread that runs              *)
(* ravb_process_interrupt).  The transmit path is guarded by the lock      *)
(* if_snd_ex; nothing guards the receive path.  The AVB-DMAC and io-pkt    *)
(* are external and modelled from how the driver uses them.                *)
(***************************************************************************)
EXTENDS Naturals, Sequences

CONSTANTS
  NUM_TX_DESC,   \* descriptors of the transmit ring
  NUM_RX_DESC,   \* descriptors of the receive ring
  Mbufs,         \* the mbuf pool shared by the driver and the stack
  NULL,          \* the null mbuf pointer
  MaxSnd,        \* bound: packets waiting in ifp->if_snd
  RxErrors       \* does the wire deliver frames with an error status?

ASSUME RingAssumption ==
  /\ NUM_TX_DESC \in Nat \ {0, 1}
  /\ NUM_RX_DESC \in Nat \ {0}
ASSUME PoolAssumption ==
  /\ NULL \notin Mbufs
  /\ MaxSnd \in Nat
  /\ RxErrors \in BOOLEAN

VARIABLES
  tx_bd,     \* die_dt of every transmit descriptor
  tx_pkts,   \* mbuf of every transmit descriptor, or NULL
  tx_pidx,   \* producer index
  tx_cidx,   \* consumer index
  rx_bd,     \* receive descriptors: "FEMPTY", or "FSINGLE" and its msc status
  rx_pkts,   \* mbuf of every receive descriptor
  rx_idx,    \* next receive descriptor to look at
  snd,       \* ifp->if_snd
  owner,     \* who holds each mbuf
  flags,     \* IFF_RUNNING, IFF_OACTIVE (of if_flags_tx), NIC_FLAG_LINK_DOWN
  lock,      \* holder of ifp->if_snd_ex, or "none"
  hw,        \* the AVB-DMAC and E-MAC registers
  lat,       \* the statuses ravb_dmac_isr stored in ravb_dev_t
  ient,      \* the interrupt entry: "off", "isr" (ISR running), "queued"
  pc,        \* what each thread does next
  ix         \* the local indices of each thread

tx   == <<tx_bd, tx_pkts, tx_pidx, tx_cidx>>
rx   == <<rx_bd, rx_pkts, rx_idx>>
intr == <<lat, ient>>
vars == <<tx, rx, snd, owner, flags, lock, hw, intr, pc, ix>>

Threads == {"stack", "intr"}
TxIdx   == 0 .. NUM_TX_DESC - 1
RxIdx   == 0 .. NUM_RX_DESC - 1
NextTx(i) == (i + 1) % NUM_TX_DESC
\* Mutant: the index does not wrap.
NextRx_nowrap(i) == i + 1
NextRx(i) == (i + 1) % NUM_RX_DESC

Goto(t, l) == pc' = [pc EXCEPT ![t] = l]

NoLocals == [tx |-> 0, reap |-> 0, rx |-> 0, clr |-> 0]
NoStatus == [frs |-> FALSE, fts |-> FALSE, es |-> FALSE,
             ris0 |-> FALSE, tis |-> FALSE, eis |-> FALSE]

(* m_freem(m): a null pointer is accepted and freed memory goes back to    *)
(* the pool whoever held it.                                               *)
m_freem(m) == owner' = IF m = NULL THEN owner ELSE [owner EXCEPT ![m] = "pool"]

-----------------------------------------------------------------------------
(* The state ravb_attach leaves behind: both rings built, E-MAC enabled by *)
(* ravb_emac_init, DMAC in config mode with its interrupts enabled, the    *)
(* link down and the interface not running.                                *)
Init ==
  /\ tx_bd = [i \in TxIdx |-> "EEMPTY"]
  /\ tx_pkts = [i \in TxIdx |-> NULL]
  /\ tx_pidx = 0
  /\ tx_cidx = 0
  /\ rx_bd = [i \in RxIdx |-> "FEMPTY"]
  /\ rx_pkts \in {f \in [RxIdx -> Mbufs] : \A i, j \in RxIdx : f[i] = f[j] => i = j}
  /\ rx_idx = 0
  /\ snd = <<>>
  /\ owner = [m \in Mbufs |-> IF \E i \in RxIdx : rx_pkts[i] = m THEN "rx" ELSE "pool"]
  /\ flags = [running |-> FALSE, oactive |-> FALSE, linkdown |-> TRUE]
  /\ lock = "none"
  /\ hw = [opc |-> "CONFIG", enabled |-> TRUE, tsrq0 |-> FALSE, txcur |-> 0, rxcur |-> 0,
           ris0 |-> FALSE, tis |-> FALSE, qff0 |-> FALSE, ric |-> TRUE]
  /\ lat = NoStatus
  /\ ient = "off"
  /\ pc = [t \in Threads |-> "idle"]
  /\ ix = [t \in Threads |-> NoLocals]

-----------------------------------------------------------------------------
(* ravb_reap_tx, shared by ravb_start and ravb_stop.  Freeing an mbuf and  *)
(* clearing its slot are two statements; tx_cidx is written at the end.    *)
\* Mutant: the descriptor type is not looked at.
ReapMore_anytype(t) == ix[t].reap # tx_pidx
ReapMore(t) == ix[t].reap # tx_pidx /\ tx_bd[ix[t].reap] = "FEMPTY"

AfterReap(t) == IF pc[t] = "stopReap" THEN "stopClear" ELSE "full"

\* Mutant: a sent packet is not freed.
ravb_reap_free_none(t) ==
  /\ pc[t] \in {"reap", "stopReap"}
  /\ ReapMore(t)
  /\ Goto(t, IF pc[t] = "reap" THEN "reapNull" ELSE "stopReapNull")
  /\ UNCHANGED <<tx, rx, snd, owner, flags, lock, hw, intr, ix>>

ravb_reap_free(t) ==
  /\ pc[t] \in {"reap", "stopReap"}
  /\ ReapMore(t)
  /\ m_freem(tx_pkts[ix[t].reap])
  /\ Goto(t, IF pc[t] = "reap" THEN "reapNull" ELSE "stopReapNull")
  /\ UNCHANGED <<tx, rx, snd, flags, lock, hw, intr, ix>>

ravb_reap_null(t) ==
  /\ pc[t] \in {"reapNull", "stopReapNull"}
  /\ tx_pkts' = [tx_pkts EXCEPT ![ix[t].reap] = NULL]
  /\ ix' = [ix EXCEPT ![t].reap = NextTx(@)]
  /\ Goto(t, IF pc[t] = "reapNull" THEN "reap" ELSE "stopReap")
  /\ UNCHANGED <<tx_bd, tx_pidx, tx_cidx, rx, snd, owner, flags, lock, hw, intr>>

ravb_reap_done(t) ==
  /\ pc[t] \in {"reap", "stopReap"}
  /\ ~ReapMore(t)
  /\ tx_cidx' = ix[t].reap
  /\ ix' = [ix EXCEPT ![t].reap = 0]
  /\ Goto(t, AfterReap(t))
  /\ UNCHANGED <<tx_bd, tx_pkts, tx_pidx, rx, snd, owner, flags, lock, hw, intr>>

(* ravb_start runs with if_snd_ex held and releases it when it returns.    *)
(* The interrupt thread goes on with the error summary.                    *)
AfterStart(t) == IF t = "stack" THEN "idle" ELSE "error"

ReturnFromStart(t) ==
  /\ lock' = "none"
  /\ ix' = [ix EXCEPT ![t] = NoLocals]
  /\ Goto(t, AfterStart(t))

ravb_start_top(t) ==
  /\ pc[t] = "start"
  /\ IF NextTx(tx_pidx) = tx_cidx
       THEN /\ ix' = [ix EXCEPT ![t].tx = tx_pidx, ![t].reap = tx_cidx]
            /\ Goto(t, "reap")
       ELSE /\ ix' = [ix EXCEPT ![t].tx = tx_pidx]
            /\ Goto(t, "dequeue")
  /\ UNCHANGED <<tx, rx, snd, owner, flags, lock, hw, intr>>

ravb_start_full(t) ==
  /\ pc[t] = "full"
  /\ IF NextTx(ix[t].tx) = tx_cidx
       THEN ReturnFromStart(t)
       ELSE Goto(t, "dequeue") /\ UNCHANGED <<lock, ix>>
  /\ UNCHANGED <<tx, rx, snd, owner, flags, hw, intr>>

ravb_start_empty(t) ==
  /\ pc[t] = "dequeue"
  /\ snd = <<>>
  /\ flags' = [flags EXCEPT !.oactive = FALSE]
  /\ ReturnFromStart(t)
  /\ UNCHANGED <<tx, rx, snd, owner, hw, intr>>

(* Dropped: not running, no link, or no mbuf to copy a chained packet to.  *)
ravb_start_drop(t) ==
  /\ pc[t] = "dequeue"
  /\ snd # <<>>
  /\ snd' = Tail(snd)
  /\ m_freem(Head(snd))
  /\ Goto(t, "start")
  /\ UNCHANGED <<tx, rx, flags, lock, hw, intr, ix>>

CanSend == flags.running /\ ~flags.linkdown

(* A packet in one mbuf is handed to the DMAC as it is; a chain is copied  *)
(* to a new mbuf m2 and freed (the hardware cannot gather).                *)
ravb_start_put(t) ==
  /\ pc[t] = "dequeue"
  /\ snd # <<>>
  /\ CanSend
  /\ snd' = Tail(snd)
  /\ \/ /\ tx_pkts' = [tx_pkts EXCEPT ![ix[t].tx] = Head(snd)]
        /\ owner' = [owner EXCEPT ![Head(snd)] = "tx"]
     \/ \E m2 \in Mbufs :
          /\ owner[m2] = "pool"
          /\ tx_pkts' = [tx_pkts EXCEPT ![ix[t].tx] = m2]
          /\ owner' = [owner EXCEPT ![m2] = "tx", ![Head(snd)] = "pool"]
  /\ tx_bd' = [tx_bd EXCEPT ![ix[t].tx] = "FSINGLE"]
  /\ tx_pidx' = NextTx(ix[t].tx)
  /\ Goto(t, "kick")
  /\ UNCHANGED <<tx_cidx, rx, flags, lock, hw, intr, ix>>

ravb_start_kick(t) ==
  /\ pc[t] = "kick"
  /\ hw' = [hw EXCEPT !.tsrq0 = TRUE]
  /\ Goto(t, "start")
  /\ UNCHANGED <<tx, rx, snd, owner, flags, lock, intr, ix>>

ravb_start(t) ==
  \/ ravb_start_top(t) \/ ravb_start_full(t) \/ ravb_start_empty(t)
  \/ ravb_start_drop(t) \/ ravb_start_put(t) \/ ravb_start_kick(t)

ravb_reap_tx(t) == ravb_reap_free(t) \/ ravb_reap_null(t) \/ ravb_reap_done(t)
-----------------------------------------------------------------------------
(* ravb_dmac_isr reads ISS first and the detailed statuses afterwards; the *)
(* DMAC may raise more of them in between.                                 *)
IrqAsserted == hw.ric /\ (hw.ris0 \/ hw.tis \/ hw.qff0)

ravb_dmac_isr_iss ==
  /\ ient = "off"
  /\ IrqAsserted
  /\ lat' = [lat EXCEPT !.frs = hw.ris0, !.fts = hw.tis, !.es = hw.qff0]
  /\ ient' = "isr"
  /\ UNCHANGED <<tx, rx, snd, owner, flags, lock, hw, pc, ix>>

ravb_dmac_isr_queue ==
  /\ ient = "isr"
  /\ lat' = [lat EXCEPT !.ris0 = hw.ris0, !.tis = hw.tis, !.eis = hw.qff0]
  /\ hw' = [hw EXCEPT !.ric = FALSE]
  /\ ient' = "queued"
  /\ UNCHANGED <<tx, rx, snd, owner, flags, lock, pc, ix>>

(* ravb_process_interrupt, receive part: RIS0 is acknowledged before the   *)
(* ring is walked.                                                         *)
process_rx ==
  /\ pc["intr"] = "idle"
  /\ ient = "queued"
  /\ ient' = "off"
  /\ IF lat.frs /\ lat.ris0
       THEN /\ hw' = [hw EXCEPT !.ris0 = FALSE]
            /\ Goto("intr", "recv")
       ELSE /\ Goto("intr", "process_tx")
            /\ UNCHANGED hw
  /\ UNCHANGED <<tx, rx, snd, owner, flags, lock, lat, ix>>

(* One turn of the loop of ravb_receive up to the update of rx_idx.        *)
ravb_receive_done ==
  /\ pc["intr"] = "recv"
  /\ rx_bd[rx_idx] = "FEMPTY"
  /\ Goto("intr", "process_tx")
  /\ UNCHANGED <<tx, rx, snd, owner, flags, lock, hw, intr, ix>>

ravb_receive_error ==
  /\ pc["intr"] = "recv"
  /\ rx_bd[rx_idx] = "ERROR"
  /\ ix' = [ix EXCEPT !["intr"].rx = rx_idx]
  /\ Goto("intr", "recvNext")
  /\ UNCHANGED <<tx, rx, snd, owner, flags, lock, hw, intr>>

ravb_receive_frame ==
  /\ pc["intr"] = "recv"
  /\ rx_bd[rx_idx] = "FSINGLE"
  /\ ix' = [ix EXCEPT !["intr"].rx = rx_idx]
  /\ rx_bd' = [rx_bd EXCEPT ![rx_idx] = "FEMPTY"]
  /\ \/ UNCHANGED <<rx_pkts, owner>>     \* no new mbuf: the frame is dropped
     \/ \E m2 \in Mbufs :
          /\ owner[m2] = "pool"
          /\ rx_pkts' = [rx_pkts EXCEPT ![rx_idx] = m2]
          /\ owner' = [owner EXCEPT ![m2] = "rx", ![rx_pkts[rx_idx]] = "stack"]
  /\ Goto("intr", "recvNext")
  /\ UNCHANGED <<tx, rx_idx, snd, flags, lock, hw, intr>>

ravb_receive_next ==
  /\ pc["intr"] = "recvNext"
  /\ rx_idx' = NextRx(ix["intr"].rx)
  /\ ix' = [ix EXCEPT !["intr"].rx = 0]
  /\ Goto("intr", "recv")
  /\ UNCHANGED <<tx, rx_bd, rx_pkts, snd, owner, flags, lock, hw, intr>>

(* Transmit part: TIS is acknowledged, then ravb_start is called under the *)
(* lock if output had stopped for want of descriptors.                     *)
\* Mutant: RIS0 is acknowledged (again) after the ring was walked.
process_tx_ackall ==
  /\ pc["intr"] = "process_tx"
  /\ hw' = [hw EXCEPT !.ris0 = FALSE, !.tis = IF lat.fts /\ lat.tis THEN FALSE ELSE @]
  /\ Goto("intr", IF lat.fts /\ lat.tis THEN "txlock" ELSE "error")
  /\ UNCHANGED <<tx, rx, snd, owner, flags, lock, intr, ix>>

process_tx ==
  /\ pc["intr"] = "process_tx"
  /\ IF lat.fts /\ lat.tis
       THEN /\ hw' = [hw EXCEPT !.tis = FALSE]
            /\ Goto("intr", "txlock")
       ELSE /\ Goto("intr", "error")
            /\ UNCHANGED hw
  /\ UNCHANGED <<tx, rx, snd, owner, flags, lock, intr, ix>>

\* Mutants: the lock is not taken; output is not restarted.
process_tx_lock_unlocked ==
  /\ pc["intr"] = "txlock"
  /\ Goto("intr", IF flags.oactive THEN "start" ELSE "error")
  /\ UNCHANGED <<tx, rx, snd, owner, flags, lock, hw, intr, ix>>

process_tx_lock_norestart ==
  /\ pc["intr"] = "txlock"
  /\ lock = "none"
  /\ Goto("intr", "error")
  /\ UNCHANGED <<tx, rx, snd, owner, flags, lock, hw, intr, ix>>

process_tx_lock ==
  /\ pc["intr"] = "txlock"
  /\ lock = "none"
  /\ IF flags.oactive
       THEN lock' = "intr" /\ Goto("intr", "start")
       ELSE Goto("intr", "error") /\ UNCHANGED lock
  /\ UNCHANGED <<tx, rx, snd, owner, flags, hw, intr, ix>>

(* Error summary (ravb_error_interrupt acknowledges the queue-full status  *)
(* and does nothing else), then io-pkt calls ravb_dmac_enable_interrupt.   *)
(* The statuses are not read again before the next ISR stores new ones, so *)
(* the model forgets them here.                                            *)
\* Mutant: all statuses are acknowledged at the end.
ravb_error_interrupt_ackall ==
  /\ pc["intr"] = "error"
  /\ hw' = [hw EXCEPT !.qff0 = IF lat.es /\ lat.eis THEN FALSE ELSE @, !.tis = FALSE]
  /\ lat' = NoStatus
  /\ Goto("intr", "enable")
  /\ UNCHANGED <<tx, rx, snd, owner, flags, lock, ient, ix>>

ravb_error_interrupt ==
  /\ pc["intr"] = "error"
  /\ hw' = [hw EXCEPT !.qff0 = IF lat.es /\ lat.eis THEN FALSE ELSE @]
  /\ lat' = NoStatus
  /\ Goto("intr", "enable")
  /\ UNCHANGED <<tx, rx, snd, owner, flags, lock, ient, ix>>

ravb_dmac_enable_interrupt ==
  /\ pc["intr"] = "enable"
  /\ hw' = [hw EXCEPT !.ric = TRUE]
  /\ Goto("intr", "idle")
  /\ UNCHANGED <<tx, rx, snd, owner, flags, lock, intr, ix>>

ravb_receive ==
  \/ ravb_receive_done \/ ravb_receive_error
  \/ ravb_receive_frame \/ ravb_receive_next

ravb_process_interrupt ==
  \/ process_rx \/ ravb_receive \/ process_tx \/ process_tx_lock
  \/ ravb_error_interrupt \/ ravb_dmac_enable_interrupt
-----------------------------------------------------------------------------
(* ravb_stop, by the stack thread.  IFF_RUNNING is cleared under the lock; *)
(* the rest runs without it.  The two ravb_wait calls return when the      *)
(* transmitter is idle or, after their time-out, when it cannot go on.     *)
DmaOn == hw.opc = "OPERATION" /\ hw.enabled

ravb_stop_flags ==
  /\ pc["stack"] = "stop"
  /\ lock = "none"
  /\ flags' = [flags EXCEPT !.running = FALSE, !.linkdown = TRUE]
  /\ Goto("stack", "stopWait")
  /\ UNCHANGED <<tx, rx, snd, owner, lock, hw, intr, ix>>

ravb_stop_off ==
  /\ pc["stack"] = "stopWait"
  /\ ~hw.tsrq0 \/ ~DmaOn
  /\ hw' = [hw EXCEPT !.enabled = FALSE]
  /\ ix' = [ix EXCEPT !["stack"].reap = tx_cidx, !["stack"].clr = 0]
  /\ Goto("stack", "stopReap")
  /\ UNCHANGED <<tx, rx, snd, owner, flags, lock, intr>>

\* Mutant: the descriptors are not marked empty.
ravb_stop_clear_keep ==
  /\ pc["stack"] = "stopClear"
  /\ LET i == ix["stack"].clr IN
       /\ m_freem(tx_pkts[i])
       /\ ix' = [ix EXCEPT !["stack"].clr = NextTx(i)]
       /\ Goto("stack", IF NextTx(i) = 0 THEN "stopReset" ELSE "stopClear")
  /\ UNCHANGED <<tx, rx, snd, flags, lock, hw, intr>>

ravb_stop_clear ==
  /\ pc["stack"] = "stopClear"
  /\ LET i == ix["stack"].clr IN
       /\ m_freem(tx_pkts[i])
       /\ tx_bd' = [tx_bd EXCEPT ![i] = "EEMPTY"]
       /\ ix' = [ix EXCEPT !["stack"].clr = NextTx(i)]
       /\ Goto("stack", IF NextTx(i) = 0 THEN "stopReset" ELSE "stopClear")
  /\ UNCHANGED <<tx_pkts, tx_pidx, tx_cidx, rx, snd, flags, lock, hw, intr>>

(* The indices go back to the head of both queues, where the DMAC starts   *)
(* after its next mode change.  ravb_stop was called by ravb_init exactly  *)
(* when the DMAC is in config mode.                                        *)
ravb_stop_reset ==
  /\ pc["stack"] = "stopReset"
  /\ tx_pidx' = 0
  /\ tx_cidx' = 0
  /\ rx_idx' = 0
  /\ Goto("stack", IF hw.opc = "CONFIG" THEN "init" ELSE "idle")
  /\ UNCHANGED <<tx_bd, tx_pkts, rx_bd, rx_pkts, snd, owner, flags, lock, hw, intr, ix>>

ravb_stop ==
  \/ ravb_stop_flags \/ ravb_stop_off \/ ravb_stop_clear \/ ravb_stop_reset

(* ravb_init: config mode, ravb_stop if the E-MAC was enabled, MAC address *)
(* and promiscuous mode, the PHY restarted by ravb_mediachange, operation  *)
(* mode (in which the DMAC reloads its descriptor addresses from DBAT).    *)
ravb_init_config ==
  /\ pc["stack"] = "idle"
  /\ hw' = [hw EXCEPT !.opc = "CONFIG", !.tsrq0 = FALSE]
  /\ Goto("stack", IF hw.enabled THEN "stop" ELSE "init")
  /\ UNCHANGED <<tx, rx, snd, owner, flags, lock, intr, ix>>

ravb_init_operation ==
  /\ pc["stack"] = "init"
  /\ flags' = IF flags.running THEN flags
              ELSE [flags EXCEPT !.running = TRUE, !.linkdown = TRUE]
  /\ hw' = [hw EXCEPT !.opc = "OPERATION", !.txcur = 0, !.rxcur = 0]
  /\ Goto("stack", "idle")
  /\ UNCHANGED <<tx, rx, snd, owner, lock, intr, ix>>

(* ravb_mii_callback, called while the PHY is monitored, that is from      *)
(* ravb_mediachange until ravb_stop.  Link up enables the E-MAC.           *)
ravb_mii_callback_up ==
  /\ pc["stack"] = "idle"
  /\ flags.running
  /\ flags' = [flags EXCEPT !.linkdown = FALSE]
  /\ hw' = [hw EXCEPT !.enabled = TRUE]
  /\ UNCHANGED <<tx, rx, snd, owner, lock, intr, pc, ix>>

ravb_mii_callback_down ==
  /\ pc["stack"] = "idle"
  /\ flags.running
  /\ flags' = [flags EXCEPT !.linkdown = TRUE]
  /\ UNCHANGED <<tx, rx, snd, owner, lock, hw, intr, pc, ix>>

-----------------------------------------------------------------------------
(* External: io-pkt queues a packet and calls ravb_start with the lock     *)
(* held, unless IFF_OACTIVE says that output is already going on.          *)
if_output(m) ==
  /\ pc["stack"] = "idle"
  /\ lock = "none"
  /\ owner[m] = "pool"
  /\ Len(snd) < MaxSnd
  /\ snd' = Append(snd, m)
  /\ owner' = [owner EXCEPT ![m] = "snd"]
  /\ IF flags.oactive
       THEN UNCHANGED <<flags, lock, pc>>
       ELSE /\ flags' = [flags EXCEPT !.oactive = TRUE]
            /\ lock' = "stack"
            /\ Goto("stack", "start")
  /\ UNCHANGED <<tx, rx, hw, intr, ix>>

(* External: the stack has consumed a received packet.                     *)
stack_free(m) ==
  /\ owner[m] = "stack"
  /\ m_freem(m)
  /\ UNCHANGED <<tx, rx, snd, flags, lock, hw, intr, pc, ix>>

(* External: ifconfig down.                                                *)
if_stop ==
  /\ pc["stack"] = "idle"
  /\ flags.running
  /\ Goto("stack", "stop")
  /\ UNCHANGED <<tx, rx, snd, owner, flags, lock, hw, intr, ix>>

(* External: the DMAC sends the descriptor it stands at, or clears its     *)
(* start request when there is nothing to send.                            *)
dmac_transmit ==
  /\ DmaOn
  /\ hw.tsrq0
  /\ IF tx_bd[hw.txcur] = "FSINGLE"
       THEN /\ tx_bd' = [tx_bd EXCEPT ![hw.txcur] = "FEMPTY"]
            /\ hw' = [hw EXCEPT !.txcur = NextTx(@), !.tis = TRUE]
       ELSE /\ hw' = [hw EXCEPT !.tsrq0 = FALSE]
            /\ UNCHANGED tx_bd
  /\ UNCHANGED <<tx_pkts, tx_pidx, tx_cidx, rx, snd, owner, flags, lock, intr, pc, ix>>

(* External: a frame arrives and is stored in the descriptor the DMAC      *)
(* stands at, or lost with a queue-full status when that is not empty.     *)
(* RCR.EFFS is set, so frames with an error status are stored too.         *)
dmac_receive ==
  /\ DmaOn
  /\ IF rx_bd[hw.rxcur] = "FEMPTY"
       THEN /\ \E status \in {"FSINGLE"} \cup (IF RxErrors THEN {"ERROR"} ELSE {}) :
                 rx_bd' = [rx_bd EXCEPT ![hw.rxcur] = status]
            /\ hw' = [hw EXCEPT !.rxcur = NextRx(@), !.ris0 = TRUE]
       ELSE /\ hw' = [hw EXCEPT !.qff0 = TRUE]
            /\ UNCHANGED rx_bd
  /\ UNCHANGED <<tx, rx_pkts, rx_idx, snd, owner, flags, lock, intr, pc, ix>>

-----------------------------------------------------------------------------
(* The interface is brought up once and stays up.                          *)
RunNext ==
  \/ \E t \in Threads : ravb_start(t) \/ ravb_reap_tx(t)
  \/ ravb_dmac_isr_iss \/ ravb_dmac_isr_queue \/ ravb_process_interrupt
  \/ ~flags.running /\ ravb_init_config
  \/ ravb_init_operation \/ ravb_stop
  \/ ravb_mii_callback_up \/ ravb_mii_callback_down
  \/ \E m \in Mbufs : if_output(m) \/ stack_free(m)
  \/ dmac_transmit \/ dmac_receive

(* The interface is also stopped, started and re-initialised at will.      *)
Next == RunNext \/ if_stop \/ ravb_init_config

(* The threads, the interrupt delivery and the DMAC keep running; nothing  *)
(* obliges the network, the link or the administrator to do anything.  A   *)
(* thread that waits for if_snd_ex gets it: a QNX mutex is handed to the   *)
(* longest waiter of the highest priority, so it is not overtaken forever. *)
Fairness ==
  /\ \A t \in Threads : WF_vars(ravb_start(t)) /\ WF_vars(ravb_reap_tx(t))
  /\ WF_vars(ravb_dmac_isr_iss) /\ WF_vars(ravb_dmac_isr_queue)
  /\ WF_vars(ravb_process_interrupt) /\ SF_vars(process_tx_lock)
  /\ WF_vars(ravb_stop) /\ WF_vars(ravb_init_operation)
  /\ WF_vars(dmac_transmit)

RunSpec     == Init /\ [][RunNext]_vars
RunFairSpec == RunSpec /\ Fairness
Spec        == Init /\ [][Next]_vars
-----------------------------------------------------------------------------
Owners  == {"pool", "snd", "tx", "rx", "stack"}
Labels  == {"idle", "start", "reap", "reapNull", "full", "dequeue", "kick", "recv",
            "recvNext", "process_tx", "txlock", "error", "enable", "stop", "stopWait",
            "stopReap", "stopReapNull", "stopClear", "stopReset", "init"}
Flags   == [running : BOOLEAN, oactive : BOOLEAN, linkdown : BOOLEAN]
Regs    == [opc : {"CONFIG", "OPERATION"}, enabled : BOOLEAN, tsrq0 : BOOLEAN,
            txcur : TxIdx, rxcur : RxIdx, ris0 : BOOLEAN, tis : BOOLEAN,
            qff0 : BOOLEAN, ric : BOOLEAN]
Status  == [frs : BOOLEAN, fts : BOOLEAN, es : BOOLEAN,
            ris0 : BOOLEAN, tis : BOOLEAN, eis : BOOLEAN]
Locals  == [tx : TxIdx, reap : TxIdx, rx : RxIdx, clr : TxIdx]
TxTypes == {"EEMPTY", "FSINGLE", "FEMPTY"}
RxTypes == {"FEMPTY", "FSINGLE", "ERROR"}

(* Every variable of the driver has its type: in particular no index ever  *)
(* leaves its ring.                                                        *)
TypeOK ==
  /\ tx_bd \in [TxIdx -> TxTypes]
  /\ tx_pkts \in [TxIdx -> Mbufs \cup {NULL}]
  /\ tx_pidx \in TxIdx
  /\ tx_cidx \in TxIdx
  /\ rx_bd \in [RxIdx -> RxTypes]
  /\ rx_pkts \in [RxIdx -> Mbufs]
  /\ rx_idx \in RxIdx
  /\ snd \in Seq(Mbufs)
  /\ owner \in [Mbufs -> Owners]
  /\ flags \in Flags
  /\ lock \in Threads \cup {"none"}
  /\ hw \in Regs
  /\ lat \in Status
  /\ ient \in {"off", "isr", "queued"}
  /\ pc \in [Threads -> Labels]
  /\ ix \in [Threads -> Locals]

(* The mbuf a thread is about to free with m_freem belongs to the transmit *)
(* ring: ravb_reap_tx and ravb_stop never free a packet twice, nor one     *)
(* that the pool has meanwhile given to somebody else.                     *)
NoDoubleFree ==
  /\ \A t \in Threads :
       pc[t] \in {"reap", "stopReap"} /\ ReapMore(t) /\ tx_pkts[ix[t].reap] # NULL
         => owner[tx_pkts[ix[t].reap]] = "tx"
  /\ pc["stack"] = "stopClear" /\ tx_pkts[ix["stack"].clr] # NULL
       => owner[tx_pkts[ix["stack"].clr]] = "tx"

(* The DMAC only reads transmit buffers that are still allocated to the    *)
(* ring, however transmission, reaping and ravb_stop interleave.           *)
TxDmaSafe ==
  DmaOn /\ hw.tsrq0 /\ tx_bd[hw.txcur] = "FSINGLE"
    => tx_pkts[hw.txcur] # NULL /\ owner[tx_pkts[hw.txcur]] = "tx"

(* Every buffer the DMAC may write a frame to belongs to the receive ring  *)
(* and to one descriptor only: a frame passed to the stack by ravb_receive *)
(* is never overwritten by a later one.                                    *)
RxDmaSafe ==
  \A i \in RxIdx :
    /\ owner[rx_pkts[i]] = "rx"
    /\ \A j \in RxIdx : rx_pkts[i] = rx_pkts[j] => i = j

(* The DMAC touches no buffer that was given away, in either direction.    *)
DmaSafe == TxDmaSafe /\ RxDmaSafe

(* No mbuf is lost: one that the driver holds is in a slot of a ring, so   *)
(* that ravb_reap_tx, ravb_receive or ravb_cleanup will still find it.     *)
NoLeak ==
  \A m \in Mbufs :
    /\ owner[m] = "tx" => \E i \in TxIdx : tx_pkts[i] = m
    /\ owner[m] = "rx" => \E i \in RxIdx : rx_pkts[i] = m

(* "Out of Tx descriptors, leave IFF_OACTIVE set" (transmit.c): when the   *)
(* flag is set, nobody is in ravb_start and the stack is between two       *)
(* calls, the ring is full and the interrupt that restarts output is still *)
(* to come: a descriptor is yet to be sent, its completion is yet to be    *)
(* seen by ravb_dmac_isr, or ravb_process_interrupt waits for the lock.    *)
(* Otherwise output hangs.                                                 *)
OactiveHasWakeup ==
  lock = "none" /\ flags.oactive /\ pc["stack"] = "idle" =>
    /\ NextTx(tx_pidx) = tx_cidx
    /\ \/ hw.tsrq0 /\ tx_bd[hw.txcur] = "FSINGLE"
       \/ hw.tis
       \/ pc["intr"] = "txlock"

(* No received frame is stranded: outside ravb_receive either the receive  *)
(* status is raised again or the next descriptor is empty, since RIS0 is   *)
(* acknowledged before the ring is walked and not after.                   *)
NoStrandedFrame ==
  pc["intr"] \notin {"recv", "recvNext"} /\ ~hw.ris0 => rx_bd[rx_idx] = "FEMPTY"

(* Once ravb_stop has returned no transmit descriptor is left to the DMAC, *)
(* although the interrupt thread may run ravb_start while ravb_stop clears *)
(* the ring: IFF_RUNNING was cleared under the lock first.                 *)
StoppedRingClear ==
  pc["stack"] = "idle" /\ ~flags.running => \A i \in TxIdx : tx_bd[i] # "FSINGLE"

(* The stopped receiver is restarted: when the descriptor the DMAC stands  *)
(* at is not empty, ravb_receive eventually gives it back.                 *)
RxRestarts == rx_bd[hw.rxcur] # "FEMPTY" ~> rx_bd[hw.rxcur] = "FEMPTY"

(* A packet queued by the stack does not stay there while the link is up,  *)
(* whether ravb_start finds a free descriptor or the transmit interrupt    *)
(* has to restart it - provided the interrupt thread keeps coming out of   *)
(* ravb_receive, whose loop has no budget and goes on for as long as       *)
(* frames arrive faster than it takes them.                                *)
TxProgress ==
  []<>(pc["intr"] \notin {"recv", "recvNext"})
    => (snd # <<>> ~> snd = <<>> \/ ~CanSend)
=============================================================================
