----------------------------- MODULE RavbProofs -----------------------------
(* Machine-checked facts about Ravb for every ring size and every pool.    *)
EXTENDS Ravb, TLAPS

(* The index of the next descriptor stays inside the ring: the expression  *)
(* (idx + 1) % NUM_xX_DESC used all over transmit.c and receive.c.         *)
LEMMA ModInc ==
  ASSUME NEW n \in Nat \ {0}, NEW i \in 0 .. n - 1
  PROVE  (i + 1) % n = IF i + 1 = n THEN 0 ELSE i + 1
<1>1. CASE i + 1 = n  BY <1>1, SMT
<1>2. CASE i + 1 # n  BY <1>2, SMT
<1> QED BY <1>1, <1>2

(* The transmit index stays inside its ring.                               *)
LEMMA NextTxType == ASSUME NEW i \in TxIdx PROVE NextTx(i) \in TxIdx
BY ModInc, RingAssumption DEF TxIdx, NextTx

(* The receive index stays inside its ring.                                *)
LEMMA NextRxType == ASSUME NEW i \in RxIdx PROVE NextRx(i) \in RxIdx
BY ModInc, RingAssumption DEF RxIdx, NextRx

(* Index zero, to which ravb_stop resets, is in both rings.                *)
LEMMA ZeroIdx == 0 \in TxIdx /\ 0 \in RxIdx
BY RingAssumption DEF TxIdx, RxIdx

(* The state after ravb_attach is well typed.                              *)
LEMMA InitType == Init => TypeOK
BY ZeroIdx, PoolAssumption DEF Init, TypeOK, NoLocals, NoStatus, Owners, Labels, Threads,
   Flags, Regs, Status, Locals, TxTypes, RxTypes

(* m_freem keeps the owner table well typed, whatever it is given.         *)
LEMMA FreeType ==
  ASSUME TypeOK, NEW m \in Mbufs \cup {NULL}, m_freem(m)
  PROVE  owner' \in [Mbufs -> Owners]
BY PoolAssumption DEF TypeOK, m_freem, Owners

(* What the assignments of the driver do to each part of the state, stated *)
(* once so that the step proof need not look inside the records.           *)
LEMMA LabelFacts ==
  /\ "idle" \in Labels /\ "start" \in Labels /\ "reap" \in Labels
  /\ "reapNull" \in Labels /\ "full" \in Labels /\ "dequeue" \in Labels
  /\ "kick" \in Labels /\ "recv" \in Labels /\ "recvNext" \in Labels
  /\ "process_tx" \in Labels /\ "txlock" \in Labels /\ "error" \in Labels
  /\ "enable" \in Labels /\ "stop" \in Labels /\ "stopWait" \in Labels
  /\ "stopReap" \in Labels /\ "stopReapNull" \in Labels /\ "stopClear" \in Labels
  /\ "stopReset" \in Labels /\ "init" \in Labels
BY DEF Labels

(* The two threads that run driver code.                                   *)
LEMMA ThreadFacts == "stack" \in Threads /\ "intr" \in Threads
BY DEF Threads

(* Changes of the interface flags keep their type.                         *)
LEMMA FlagsUpdate ==
  ASSUME NEW f \in Flags, NEW b \in BOOLEAN, NEW c \in BOOLEAN
  PROVE  /\ [f EXCEPT !.oactive = b] \in Flags
         /\ [f EXCEPT !.linkdown = b] \in Flags
         /\ [f EXCEPT !.running = b, !.linkdown = c] \in Flags
BY DEF Flags

(* The fields of the AVB-DMAC's registers have their types.                *)
LEMMA RegsFields ==
  ASSUME NEW h \in Regs
  PROVE  /\ h.txcur \in TxIdx /\ h.rxcur \in RxIdx
         /\ h.ris0 \in BOOLEAN /\ h.tis \in BOOLEAN /\ h.qff0 \in BOOLEAN
BY DEF Regs

(* Writes to the registers keep their type.                                *)
LEMMA RegsUpdate ==
  ASSUME NEW h \in Regs, NEW b \in BOOLEAN
  PROVE  /\ [h EXCEPT !.tsrq0 = b] \in Regs
         /\ [h EXCEPT !.ric = b] \in Regs
         /\ [h EXCEPT !.ris0 = b] \in Regs
         /\ [h EXCEPT !.tis = b] \in Regs
         /\ [h EXCEPT !.qff0 = b] \in Regs
         /\ [h EXCEPT !.enabled = b] \in Regs
         /\ [h EXCEPT !.opc = "CONFIG", !.tsrq0 = b] \in Regs
         /\ [h EXCEPT !.opc = "OPERATION", !.txcur = 0, !.rxcur = 0] \in Regs
BY ZeroIdx DEF Regs

(* The DMAC's own steps along the rings keep the registers' type.          *)
LEMMA RegsCursor ==
  ASSUME NEW h \in Regs
  PROVE  /\ [h EXCEPT !.txcur = NextTx(h.txcur), !.tis = TRUE] \in Regs
         /\ [h EXCEPT !.rxcur = NextRx(h.rxcur), !.ris0 = TRUE] \in Regs
<1> NextTx(h.txcur) \in TxIdx /\ NextRx(h.rxcur) \in RxIdx
  BY NextTxType, NextRxType, RegsFields
<1> QED BY DEF Regs

(* The interrupt statuses read by the thread have their type.              *)
LEMMA StatusUpdate ==
  ASSUME NEW s \in Status, NEW a \in BOOLEAN, NEW b \in BOOLEAN, NEW c \in BOOLEAN
  PROVE  /\ [s EXCEPT !.frs = a, !.fts = b, !.es = c] \in Status
         /\ [s EXCEPT !.ris0 = a, !.tis = b, !.eis = c] \in Status
         /\ NoStatus \in Status
BY DEF Status, NoStatus

(* A thread's local indices lie inside their rings.                        *)
LEMMA LocalsFields ==
  ASSUME NEW x \in [Threads -> Locals], NEW t \in Threads
  PROVE  /\ x[t].tx \in TxIdx /\ x[t].reap \in TxIdx
         /\ x[t].rx \in RxIdx /\ x[t].clr \in TxIdx
BY DEF Locals

(* A thread that returns has fresh locals.                                 *)
LEMMA LocalsReset ==
  ASSUME NEW x \in [Threads -> Locals], NEW t \in Threads
  PROVE  [x EXCEPT ![t] = NoLocals] \in [Threads -> Locals]
BY ZeroIdx DEF Locals, NoLocals

(* Assigning transmit indices keeps the type of the locals.                *)
LEMMA LocalsTx ==
  ASSUME NEW x \in [Threads -> Locals], NEW t \in Threads, NEW i \in TxIdx
  PROVE  /\ [x EXCEPT ![t].tx = i] \in [Threads -> Locals]
         /\ [x EXCEPT ![t].reap = i] \in [Threads -> Locals]
         /\ [x EXCEPT ![t].clr = i] \in [Threads -> Locals]
         /\ [x EXCEPT ![t].reap = i, ![t].clr = 0] \in [Threads -> Locals]
BY ZeroIdx DEF Locals

(* ravb_start's two indices, read together, keep it.                       *)
LEMMA LocalsTop ==
  ASSUME NEW x \in [Threads -> Locals], NEW t \in Threads, NEW i \in TxIdx, NEW j \in TxIdx
  PROVE  [x EXCEPT ![t].tx = i, ![t].reap = j] \in [Threads -> Locals]
BY DEF Locals

(* Assigning the receive index keeps it.                                   *)
LEMMA LocalsRx ==
  ASSUME NEW x \in [Threads -> Locals], NEW t \in Threads, NEW r \in RxIdx
  PROVE  [x EXCEPT ![t].rx = r] \in [Threads -> Locals]
BY DEF Locals

(* Every step, of the life cycle too, keeps the type invariant.            *)
LEMMA StepType == TypeOK /\ [Next]_vars => TypeOK'
<1> SUFFICES ASSUME TypeOK, [Next]_vars PROVE TypeOK'
  OBVIOUS
<1> USE ThreadFacts, LabelFacts DEF TypeOK, Goto, tx, rx, intr
<1>1. ASSUME NEW t \in Threads, ravb_start_top(t) PROVE TypeOK'
  <2>1. ix' \in [Threads -> Locals]
    <3>1. [ix EXCEPT ![t].tx = tx_pidx, ![t].reap = tx_cidx] \in [Threads -> Locals]
      BY LocalsTop
    <3>2. [ix EXCEPT ![t].tx = tx_pidx] \in [Threads -> Locals]
      BY LocalsTx
    <3> HIDE DEF TypeOK
    <3> QED BY <1>1, <3>1, <3>2 DEF ravb_start_top
  <2>2. pc' \in [Threads -> Labels]
    BY <1>1 DEF ravb_start_top
  <2> QED BY <1>1, <2>1, <2>2 DEF ravb_start_top
<1>2. ASSUME NEW t \in Threads, ravb_start_full(t) PROVE TypeOK'
  <2>1. CASE NextTx(ix[t].tx) = tx_cidx
    BY <1>2, <2>1, LocalsReset DEF ravb_start_full, ReturnFromStart, AfterStart
  <2>2. CASE NextTx(ix[t].tx) # tx_cidx
    BY <1>2, <2>2 DEF ravb_start_full
  <2> QED BY <2>1, <2>2
<1>3. ASSUME NEW t \in Threads, ravb_start_empty(t) PROVE TypeOK'
  BY <1>3, LocalsReset, FlagsUpdate DEF ravb_start_empty, ReturnFromStart,
     AfterStart
<1>4. ASSUME NEW t \in Threads, ravb_start_drop(t) PROVE TypeOK'
  BY <1>4 DEF ravb_start_drop, m_freem, Owners
<1>5. ASSUME NEW t \in Threads, ravb_start_put(t) PROVE TypeOK'
  <2>1. ix[t].tx \in TxIdx /\ NextTx(ix[t].tx) \in TxIdx
    BY LocalsFields, NextTxType
  <2>2. Head(snd) \in Mbufs /\ Tail(snd) \in Seq(Mbufs)
    BY <1>5 DEF ravb_start_put
  <2>3. tx_pkts' \in [TxIdx -> Mbufs \cup {NULL}] /\ owner' \in [Mbufs -> Owners]
    <3>1. CASE tx_pkts' = [tx_pkts EXCEPT ![ix[t].tx] = Head(snd)]
               /\ owner' = [owner EXCEPT ![Head(snd)] = "tx"]
      BY <3>1, <2>1, <2>2 DEF Owners
    <3>2. ASSUME NEW m2 \in Mbufs,
                 tx_pkts' = [tx_pkts EXCEPT ![ix[t].tx] = m2],
                 owner' = [owner EXCEPT ![m2] = "tx", ![Head(snd)] = "pool"]
          PROVE  tx_pkts' \in [TxIdx -> Mbufs \cup {NULL}] /\ owner' \in [Mbufs -> Owners]
      BY <3>2, <2>1, <2>2 DEF Owners
    <3> HIDE DEF TypeOK
    <3> QED BY <1>5, <3>1, <3>2 DEF ravb_start_put
  <2>4. tx_bd' \in [TxIdx -> TxTypes]
    BY <1>5, <2>1 DEF ravb_start_put, TxTypes
  <2> QED BY <1>5, <2>1, <2>2, <2>3, <2>4 DEF ravb_start_put
<1>6. ASSUME NEW t \in Threads, ravb_start_kick(t) PROVE TypeOK'
  BY <1>6, RegsUpdate DEF ravb_start_kick
<1>7. ASSUME NEW t \in Threads, ravb_reap_free(t) PROVE TypeOK'
  BY <1>7 DEF ravb_reap_free, m_freem, Owners
<1>8. ASSUME NEW t \in Threads, ravb_reap_null(t) PROVE TypeOK'
  BY <1>8, LocalsFields, LocalsTx, NextTxType DEF ravb_reap_null
<1>9. ASSUME NEW t \in Threads, ravb_reap_done(t) PROVE TypeOK'
  BY <1>9, LocalsFields, LocalsTx, ZeroIdx DEF ravb_reap_done, AfterReap
<1>10. CASE ravb_dmac_isr_iss
  BY <1>10, RegsFields, StatusUpdate DEF ravb_dmac_isr_iss
<1>11. CASE ravb_dmac_isr_queue
  BY <1>11, RegsFields, RegsUpdate, StatusUpdate DEF ravb_dmac_isr_queue
<1>12. CASE process_rx
  BY <1>12, RegsUpdate DEF process_rx
<1>13. CASE ravb_receive_done
  BY <1>13 DEF ravb_receive_done
<1>14. CASE ravb_receive_error
  BY <1>14, LocalsRx DEF ravb_receive_error
<1>15. CASE ravb_receive_frame
  <2>1. rx_bd' \in [RxIdx -> RxTypes]
    BY <1>15 DEF ravb_receive_frame, RxTypes
  <2>2. rx_pkts' \in [RxIdx -> Mbufs] /\ owner' \in [Mbufs -> Owners]
    BY <1>15 DEF ravb_receive_frame, Owners
  <2>3. ix' \in [Threads -> Locals]
    BY <1>15, LocalsRx DEF ravb_receive_frame
  <2> QED BY <1>15, <2>1, <2>2, <2>3 DEF ravb_receive_frame
<1>16. CASE ravb_receive_next
  BY <1>16, LocalsFields, LocalsRx, NextRxType, ZeroIdx DEF
     ravb_receive_next
<1>17. CASE process_tx
  BY <1>17, RegsUpdate DEF process_tx
<1>18. CASE process_tx_lock
  BY <1>18 DEF process_tx_lock
<1>19. CASE ravb_error_interrupt
  BY <1>19, RegsFields, RegsUpdate, StatusUpdate DEF ravb_error_interrupt
<1>20. CASE ravb_dmac_enable_interrupt
  BY <1>20, RegsUpdate DEF ravb_dmac_enable_interrupt
<1>21. CASE ravb_stop_flags
  BY <1>21, FlagsUpdate DEF ravb_stop_flags
<1>22. CASE ravb_stop_off
  BY <1>22, RegsUpdate, LocalsTx DEF ravb_stop_off
<1>23. CASE ravb_stop_clear
  BY <1>23, LocalsFields, LocalsTx, NextTxType DEF ravb_stop_clear,
     m_freem, Owners, TxTypes
<1>24. CASE ravb_stop_reset
  BY <1>24, ZeroIdx DEF ravb_stop_reset
<1>25. CASE ravb_init_config
  BY <1>25, RegsUpdate DEF ravb_init_config
<1>26. CASE ravb_init_operation
  BY <1>26, FlagsUpdate, RegsUpdate DEF ravb_init_operation
<1>27. CASE ravb_mii_callback_up
  BY <1>27, FlagsUpdate, RegsUpdate DEF ravb_mii_callback_up
<1>28. CASE ravb_mii_callback_down
  BY <1>28, FlagsUpdate DEF ravb_mii_callback_down
<1>29. CASE if_stop
  BY <1>29 DEF if_stop
<1>30. CASE dmac_transmit
  <2>1. hw' \in Regs
    BY <1>30, RegsUpdate, RegsCursor DEF dmac_transmit
  <2>2. tx_bd' \in [TxIdx -> TxTypes]
    BY <1>30, RegsFields DEF dmac_transmit, TxTypes
  <2> QED BY <1>30, <2>1, <2>2 DEF dmac_transmit
<1>31. CASE dmac_receive
  <2>1. hw' \in Regs
    BY <1>31, RegsUpdate, RegsCursor DEF dmac_receive
  <2>2. rx_bd' \in [RxIdx -> RxTypes]
    BY <1>31, RegsFields DEF dmac_receive, RxTypes
  <2> QED BY <1>31, <2>1, <2>2 DEF dmac_receive
<1>32. ASSUME NEW m \in Mbufs, if_output(m) PROVE TypeOK'
  <2>1. snd' \in Seq(Mbufs) /\ owner' \in [Mbufs -> Owners]
    BY <1>32 DEF if_output, Owners
  <2>2. flags' \in Flags /\ lock' \in Threads \cup {"none"} /\ pc' \in [Threads -> Labels]
    BY <1>32, FlagsUpdate DEF if_output
  <2> QED BY <1>32, <2>1, <2>2 DEF if_output
<1>33. ASSUME NEW m \in Mbufs, stack_free(m) PROVE TypeOK'
  BY <1>33 DEF stack_free, m_freem, Owners
<1>34. CASE UNCHANGED vars
  BY <1>34 DEF vars
<1> HIDE DEF TypeOK
<1> QED
  BY <1>1, <1>2, <1>3, <1>4, <1>5, <1>6, <1>7, <1>8, <1>9, <1>10, <1>11,
     <1>12, <1>13, <1>14, <1>15, <1>16, <1>17, <1>18, <1>19, <1>20, <1>21,
     <1>22, <1>23, <1>24, <1>25, <1>26, <1>27, <1>28, <1>29, <1>30, <1>31,
     <1>32, <1>33, <1>34 DEF Next, RunNext, ravb_start, ravb_reap_tx,
     ravb_receive, ravb_process_interrupt, ravb_stop

(* Whatever the threads, the DMAC, the network and the administrator do,   *)
(* every index stays inside its ring and every buffer has one owner.       *)
THEOREM TypeCorrect == Spec => []TypeOK
<1>1. Init => TypeOK  BY InitType
<1>2. TypeOK /\ [Next]_vars => TypeOK'  BY StepType
<1> QED BY <1>1, <1>2, PTL DEF Spec
-----------------------------------------------------------------------------
(* The inductive invariant of an interface that is brought up once.        *)
StartLabels == {"start", "reap", "reapNull", "full", "dequeue", "kick"}
BringUp     == {"stop", "stopWait", "stopReap", "stopReapNull", "stopClear", "stopReset", "init"}

\* A thread is in ravb_start exactly while it holds if_snd_ex.
LockInv == \A t \in Threads : pc[t] \in StartLabels <=> lock = t

\* Before the interface runs the rings and the hardware are quiet ...
QuietInv ==
  ~flags.running =>
    /\ \A i \in TxIdx : tx_pkts[i] = NULL /\ tx_bd[i] = "EEMPTY"
    /\ hw.opc = "CONFIG" /\ ~hw.ris0 /\ ~hw.tis /\ ~hw.qff0
    /\ ient = "off" /\ pc["intr"] = "idle"

\* ... and ravb_stop is only called, by ravb_init, before it runs.
BringUpInv == /\ pc["intr"] \notin BringUp
              /\ pc["stack"] # "stopReapNull"
              /\ flags.running => pc["stack"] \notin BringUp

\* A packet that waits in if_snd waits there once and is nobody else's.
SndInv == /\ \A k \in 1 .. Len(snd) : owner[snd[k]] = "snd"
          /\ \A j, k \in 1 .. Len(snd) : snd[j] = snd[k] => j = k

\* The transmit ring: a slot holds its own mbuf, except between the two
\* statements of ravb_reap_tx; the DMAC is never given an empty slot.
MidReap(i) == \E t \in Threads : pc[t] = "reapNull" /\ ix[t].reap = i

TxInv == /\ \A i \in TxIdx : tx_pkts[i] # NULL => owner[tx_pkts[i]] = "tx" \/ MidReap(i)
         /\ \A i, j \in TxIdx : tx_pkts[i] = tx_pkts[j] /\ tx_pkts[i] # NULL => i = j
         /\ \A i \in TxIdx : tx_bd[i] = "FSINGLE" => tx_pkts[i] # NULL
         /\ \A i \in TxIdx : MidReap(i) => tx_bd[i] = "FEMPTY"

RunInv == TypeOK /\ LockInv /\ QuietInv /\ BringUpInv /\ SndInv /\ TxInv /\ RxDmaSafe

(* The invariant of steady operation holds initially.                      *)
LEMMA RunInvInit == Init => RunInv
BY InitType, ThreadFacts DEF Init, RunInv, LockInv, QuietInv, BringUpInv, SndInv, TxInv, RxDmaSafe,
   StartLabels, BringUp, MidReap, Threads

(* Every step of steady operation keeps it.                                *)
LEMMA RunInvStep == RunInv /\ [RunNext]_vars => RunInv'
<1> SUFFICES ASSUME RunInv, [RunNext]_vars PROVE RunInv'
  OBVIOUS
<1>type. TypeOK'
  BY StepType DEF RunInv, Next
<1> USE ThreadFacts DEF RunInv, TypeOK, Goto, tx, rx, intr
<1>1. ASSUME NEW t \in Threads, ravb_start_top(t) PROVE RunInv'
  <2>1. LockInv' BY <1>1 DEF ravb_start_top, LockInv, StartLabels
  <2>2. QuietInv' BY <1>1 DEF ravb_start_top, QuietInv
  <2>3. BringUpInv' BY <1>1 DEF ravb_start_top, BringUpInv, BringUp
  <2>4. SndInv' BY <1>1 DEF ravb_start_top, SndInv
  <2>5. TxInv' BY <1>1 DEF ravb_start_top, TxInv, MidReap
  <2>6. RxDmaSafe' BY <1>1 DEF ravb_start_top, RxDmaSafe
  <2> QED BY <1>type, <2>1, <2>2, <2>3, <2>4, <2>5, <2>6
<1>2. ASSUME NEW t \in Threads, ravb_start_full(t) PROVE RunInv'
  <2>1. LockInv' BY <1>2 DEF ravb_start_full, ReturnFromStart, AfterStart, LockInv,
       StartLabels, Threads
  <2>2. QuietInv' BY <1>2 DEF ravb_start_full, ReturnFromStart, AfterStart, QuietInv
  <2>3. BringUpInv' BY <1>2 DEF ravb_start_full, ReturnFromStart, AfterStart, BringUpInv,
       BringUp
  <2>4. SndInv' BY <1>2 DEF ravb_start_full, ReturnFromStart, AfterStart, SndInv
  <2>5. TxInv' BY <1>2 DEF ravb_start_full, ReturnFromStart, AfterStart, TxInv, MidReap
  <2>6. RxDmaSafe' BY <1>2 DEF ravb_start_full, ReturnFromStart, AfterStart, RxDmaSafe
  <2> QED BY <1>type, <2>1, <2>2, <2>3, <2>4, <2>5, <2>6
<1>3. ASSUME NEW t \in Threads, ravb_start_empty(t) PROVE RunInv'
  <2>1. LockInv' BY <1>3 DEF ravb_start_empty, ReturnFromStart, AfterStart, LockInv,
       StartLabels, Threads
  <2>2. QuietInv' BY <1>3 DEF ravb_start_empty, ReturnFromStart, AfterStart, QuietInv
  <2>3. BringUpInv' BY <1>3 DEF ravb_start_empty, ReturnFromStart, AfterStart, BringUpInv,
       BringUp
  <2>4. SndInv' BY <1>3 DEF ravb_start_empty, ReturnFromStart, AfterStart, SndInv
  <2>5. TxInv' BY <1>3 DEF ravb_start_empty, ReturnFromStart, AfterStart, TxInv, MidReap
  <2>6. RxDmaSafe' BY <1>3 DEF ravb_start_empty, ReturnFromStart, AfterStart, RxDmaSafe
  <2> QED BY <1>type, <2>1, <2>2, <2>3, <2>4, <2>5, <2>6
<1>4. ASSUME NEW t \in Threads, ravb_start_drop(t) PROVE RunInv'
  <2>1. LockInv' BY <1>4 DEF ravb_start_drop, m_freem, LockInv, StartLabels
  <2>2. QuietInv' BY <1>4 DEF ravb_start_drop, m_freem, QuietInv
  <2>3. BringUpInv' BY <1>4 DEF ravb_start_drop, m_freem, BringUpInv, BringUp
  <2>4. SndInv' BY <1>4 DEF ravb_start_drop, m_freem, SndInv
  <2>5. TxInv' BY <1>4 DEF ravb_start_drop, m_freem, TxInv, MidReap, SndInv, LockInv,
       StartLabels, BringUpInv, BringUp, RxDmaSafe, Threads
  <2>6. RxDmaSafe' BY <1>4 DEF ravb_start_drop, m_freem, RxDmaSafe, TxInv, SndInv,
       MidReap, LockInv, StartLabels, Threads
  <2> QED BY <1>type, <2>1, <2>2, <2>3, <2>4, <2>5, <2>6
<1>5. ASSUME NEW t \in Threads, ravb_start_put(t) PROVE RunInv'
  <2>1. LockInv' BY <1>5 DEF ravb_start_put, CanSend, LockInv, StartLabels
  <2>2. QuietInv' BY <1>5 DEF ravb_start_put, CanSend, QuietInv
  <2>3. BringUpInv' BY <1>5 DEF ravb_start_put, CanSend, BringUpInv, BringUp
  <2>4. SndInv' BY <1>5 DEF ravb_start_put, CanSend, SndInv
  <2>5. TxInv'
    <3> DEFINE i == ix[t].tx
    <3>1. i \in TxIdx /\ snd # <<>> /\ snd[1] = Head(snd) /\ Head(snd) \in Mbufs /\ 1 \in 1 .. Len(snd)
      BY <1>5, LocalsFields DEF ravb_start_put
    <3>2. owner[Head(snd)] = "snd"
      BY <3>1 DEF SndInv
    <3>3. \A k \in TxIdx : ~MidReap(k) /\ ~MidReap(k)'
      BY <1>5 DEF ravb_start_put, MidReap, LockInv, StartLabels
    <3>4. tx_bd' = [tx_bd EXCEPT ![i] = "FSINGLE"]
      BY <1>5 DEF ravb_start_put
    <3> HIDE DEF i
    <3>5. CASE /\ tx_pkts' = [tx_pkts EXCEPT ![i] = Head(snd)]
               /\ owner' = [owner EXCEPT ![Head(snd)] = "tx"]
      BY <3>1, <3>2, <3>3, <3>4, <3>5, PoolAssumption DEF TxInv
    <3>6. ASSUME NEW m2 \in Mbufs, owner[m2] = "pool",
                 tx_pkts' = [tx_pkts EXCEPT ![i] = m2],
                 owner' = [owner EXCEPT ![m2] = "tx", ![Head(snd)] = "pool"]
          PROVE  TxInv'
      BY <3>1, <3>2, <3>3, <3>4, <3>6, PoolAssumption DEF TxInv
    <3> HIDE DEF RunInv, TypeOK
    <3> QED BY <1>5, <3>5, <3>6 DEF ravb_start_put, i
  <2>6. RxDmaSafe' BY <1>5 DEF ravb_start_put, CanSend, RxDmaSafe, TxInv, SndInv, MidReap,
       LockInv, StartLabels, Threads
  <2> QED BY <1>type, <2>1, <2>2, <2>3, <2>4, <2>5, <2>6
<1>6. ASSUME NEW t \in Threads, ravb_start_kick(t) PROVE RunInv'
  <2>1. LockInv' BY <1>6 DEF ravb_start_kick, LockInv, StartLabels
  <2>2. QuietInv' BY <1>6 DEF ravb_start_kick, QuietInv
  <2>3. BringUpInv' BY <1>6 DEF ravb_start_kick, BringUpInv, BringUp
  <2>4. SndInv' BY <1>6 DEF ravb_start_kick, SndInv
  <2>5. TxInv' BY <1>6 DEF ravb_start_kick, TxInv, MidReap
  <2>6. RxDmaSafe' BY <1>6 DEF ravb_start_kick, RxDmaSafe
  <2> QED BY <1>type, <2>1, <2>2, <2>3, <2>4, <2>5, <2>6
<1>7. ASSUME NEW t \in Threads, ravb_reap_free(t) PROVE RunInv'
  <2> DEFINE i == ix[t].reap
  <2>1. i \in TxIdx /\ tx_bd[i] = "FEMPTY"
    BY <1>7, LocalsFields DEF ravb_reap_free, ReapMore
  <2>2. pc[t] = "reap"
    BY <1>7, <2>1 DEF ravb_reap_free, QuietInv, BringUpInv, BringUp, Threads
  <2>3. \A k \in TxIdx : ~MidReap(k)
    BY <2>2 DEF MidReap, LockInv, StartLabels
  <2>4. tx_pkts[i] = NULL \/ owner[tx_pkts[i]] = "tx"
    BY <2>1, <2>3 DEF TxInv
  <2>5. owner' = IF tx_pkts[i] = NULL THEN owner ELSE [owner EXCEPT ![tx_pkts[i]] = "pool"]
    BY <1>7 DEF ravb_reap_free, m_freem
  <2>6. pc' = [pc EXCEPT ![t] = "reapNull"]
    BY <1>7, <2>2 DEF ravb_reap_free
  <2>7. UNCHANGED <<tx, rx, snd, flags, lock, hw, intr, ix>>
    BY <1>7 DEF ravb_reap_free
  <2> HIDE DEF i
  <2>8. LockInv'
    BY <2>2, <2>6, <2>7 DEF LockInv, StartLabels
  <2>9. QuietInv'
    BY <2>1, <2>2, <2>6, <2>7 DEF QuietInv
  <2>10. BringUpInv'
    BY <2>2, <2>6, <2>7 DEF BringUpInv, BringUp
  <2>11. SndInv'
    BY <2>1, <2>4, <2>5, <2>7 DEF SndInv
  <2>12. TxInv'
    <3>1. \A k \in TxIdx : k = i => MidReap(k)'
      BY <2>6, <2>7 DEF MidReap, i
    <3>2. \A k \in TxIdx : MidReap(k)' => k = i
      BY <2>3, <2>6, <2>7 DEF MidReap, i
    <3>3. tx_pkts' = tx_pkts /\ tx_bd' = tx_bd
      BY <2>7
    <3>4. ASSUME NEW k \in TxIdx, tx_pkts[k] # NULL
          PROVE  owner'[tx_pkts[k]] = "tx" \/ MidReap(k)'
      <4>1. CASE k = i  BY <4>1, <3>1
      <4>2. CASE k # i
        <5>1. tx_pkts[k] # tx_pkts[i] /\ owner[tx_pkts[k]] = "tx" /\ tx_pkts[k] \in Mbufs
          BY <3>4, <4>2, <2>1, <2>3 DEF TxInv
        <5> QED BY <5>1, <2>5
      <4> QED BY <4>1, <4>2
    <3>5. \A k \in TxIdx : MidReap(k)' => tx_bd[k] = "FEMPTY"
      BY <3>2, <2>1
    <3> QED BY <3>3, <3>4, <3>5 DEF TxInv
  <2>13. RxDmaSafe'
    BY <2>1, <2>4, <2>5, <2>7 DEF RxDmaSafe
  <2> QED BY <1>type, <2>8, <2>9, <2>10, <2>11, <2>12, <2>13
<1>8. ASSUME NEW t \in Threads, ravb_reap_null(t) PROVE RunInv'
  <2>1. LockInv' BY <1>8 DEF ravb_reap_null, LockInv, StartLabels
  <2>2. QuietInv' BY <1>8 DEF ravb_reap_null, QuietInv
  <2>3. BringUpInv' BY <1>8 DEF ravb_reap_null, BringUpInv, BringUp
  <2>4. SndInv' BY <1>8 DEF ravb_reap_null, SndInv
  <2>5. TxInv' BY <1>8 DEF ravb_reap_null, TxInv, MidReap, SndInv, LockInv, StartLabels,
       BringUpInv, BringUp, RxDmaSafe, Threads
  <2>6. RxDmaSafe' BY <1>8 DEF ravb_reap_null, RxDmaSafe
  <2> QED BY <1>type, <2>1, <2>2, <2>3, <2>4, <2>5, <2>6
<1>9. ASSUME NEW t \in Threads, ravb_reap_done(t) PROVE RunInv'
  <2>1. LockInv' BY <1>9 DEF ravb_reap_done, AfterReap, LockInv, StartLabels
  <2>2. QuietInv' BY <1>9 DEF ravb_reap_done, AfterReap, QuietInv
  <2>3. BringUpInv' BY <1>9 DEF ravb_reap_done, AfterReap, BringUpInv, BringUp
  <2>4. SndInv' BY <1>9 DEF ravb_reap_done, AfterReap, SndInv
  <2>5. TxInv' BY <1>9 DEF ravb_reap_done, AfterReap, TxInv, MidReap
  <2>6. RxDmaSafe' BY <1>9 DEF ravb_reap_done, AfterReap, RxDmaSafe
  <2> QED BY <1>type, <2>1, <2>2, <2>3, <2>4, <2>5, <2>6
<1>10. ASSUME ravb_dmac_isr_iss PROVE RunInv'
  <2>1. LockInv' BY <1>10 DEF ravb_dmac_isr_iss, IrqAsserted, LockInv, StartLabels
  <2>2. QuietInv' BY <1>10 DEF ravb_dmac_isr_iss, IrqAsserted, QuietInv
  <2>3. BringUpInv' BY <1>10 DEF ravb_dmac_isr_iss, IrqAsserted, BringUpInv, BringUp
  <2>4. SndInv' BY <1>10 DEF ravb_dmac_isr_iss, IrqAsserted, SndInv
  <2>5. TxInv' BY <1>10 DEF ravb_dmac_isr_iss, IrqAsserted, TxInv, MidReap
  <2>6. RxDmaSafe' BY <1>10 DEF ravb_dmac_isr_iss, IrqAsserted, RxDmaSafe
  <2> QED BY <1>type, <2>1, <2>2, <2>3, <2>4, <2>5, <2>6
<1>11. ASSUME ravb_dmac_isr_queue PROVE RunInv'
  <2>1. LockInv' BY <1>11 DEF ravb_dmac_isr_queue, LockInv, StartLabels
  <2>2. QuietInv' BY <1>11 DEF ravb_dmac_isr_queue, QuietInv
  <2>3. BringUpInv' BY <1>11 DEF ravb_dmac_isr_queue, BringUpInv, BringUp
  <2>4. SndInv' BY <1>11 DEF ravb_dmac_isr_queue, SndInv
  <2>5. TxInv' BY <1>11 DEF ravb_dmac_isr_queue, TxInv, MidReap
  <2>6. RxDmaSafe' BY <1>11 DEF ravb_dmac_isr_queue, RxDmaSafe
  <2> QED BY <1>type, <2>1, <2>2, <2>3, <2>4, <2>5, <2>6
<1>12. ASSUME process_rx PROVE RunInv'
  <2>1. LockInv' BY <1>12 DEF process_rx, LockInv, StartLabels
  <2>2. QuietInv' BY <1>12 DEF process_rx, QuietInv
  <2>3. BringUpInv' BY <1>12 DEF process_rx, BringUpInv, BringUp
  <2>4. SndInv' BY <1>12 DEF process_rx, SndInv
  <2>5. TxInv' BY <1>12 DEF process_rx, TxInv, MidReap
  <2>6. RxDmaSafe' BY <1>12 DEF process_rx, RxDmaSafe
  <2> QED BY <1>type, <2>1, <2>2, <2>3, <2>4, <2>5, <2>6
<1>13. ASSUME ravb_receive_done PROVE RunInv'
  <2>1. LockInv' BY <1>13 DEF ravb_receive_done, LockInv, StartLabels
  <2>2. QuietInv' BY <1>13 DEF ravb_receive_done, QuietInv
  <2>3. BringUpInv' BY <1>13 DEF ravb_receive_done, BringUpInv, BringUp
  <2>4. SndInv' BY <1>13 DEF ravb_receive_done, SndInv
  <2>5. TxInv' BY <1>13 DEF ravb_receive_done, TxInv, MidReap
  <2>6. RxDmaSafe' BY <1>13 DEF ravb_receive_done, RxDmaSafe
  <2> QED BY <1>type, <2>1, <2>2, <2>3, <2>4, <2>5, <2>6
<1>14. ASSUME ravb_receive_error PROVE RunInv'
  <2>1. LockInv' BY <1>14 DEF ravb_receive_error, LockInv, StartLabels
  <2>2. QuietInv' BY <1>14 DEF ravb_receive_error, QuietInv
  <2>3. BringUpInv' BY <1>14 DEF ravb_receive_error, BringUpInv, BringUp
  <2>4. SndInv' BY <1>14 DEF ravb_receive_error, SndInv
  <2>5. TxInv' BY <1>14 DEF ravb_receive_error, TxInv, MidReap
  <2>6. RxDmaSafe' BY <1>14 DEF ravb_receive_error, RxDmaSafe
  <2> QED BY <1>type, <2>1, <2>2, <2>3, <2>4, <2>5, <2>6
<1>15. ASSUME ravb_receive_frame PROVE RunInv'
  <2>1. LockInv' BY <1>15 DEF ravb_receive_frame, LockInv, StartLabels
  <2>2. QuietInv' BY <1>15 DEF ravb_receive_frame, QuietInv
  <2>3. BringUpInv' BY <1>15 DEF ravb_receive_frame, BringUpInv, BringUp
  <2>4. SndInv' BY <1>15 DEF ravb_receive_frame, SndInv, TxInv, MidReap, RxDmaSafe,
       LockInv, StartLabels, Threads
  <2>5. TxInv' BY <1>15 DEF ravb_receive_frame, TxInv, MidReap, SndInv, LockInv,
       StartLabels, BringUpInv, BringUp, RxDmaSafe, Threads
  <2>6. RxDmaSafe' BY <1>15 DEF ravb_receive_frame, RxDmaSafe
  <2> QED BY <1>type, <2>1, <2>2, <2>3, <2>4, <2>5, <2>6
<1>16. ASSUME ravb_receive_next PROVE RunInv'
  <2>1. LockInv' BY <1>16 DEF ravb_receive_next, LockInv, StartLabels
  <2>2. QuietInv' BY <1>16 DEF ravb_receive_next, QuietInv
  <2>3. BringUpInv' BY <1>16 DEF ravb_receive_next, BringUpInv, BringUp
  <2>4. SndInv' BY <1>16 DEF ravb_receive_next, SndInv
  <2>5. TxInv' BY <1>16 DEF ravb_receive_next, TxInv, MidReap
  <2>6. RxDmaSafe' BY <1>16 DEF ravb_receive_next, RxDmaSafe
  <2> QED BY <1>type, <2>1, <2>2, <2>3, <2>4, <2>5, <2>6
<1>17. ASSUME process_tx PROVE RunInv'
  <2>1. LockInv' BY <1>17 DEF process_tx, LockInv, StartLabels
  <2>2. QuietInv' BY <1>17 DEF process_tx, QuietInv
  <2>3. BringUpInv' BY <1>17 DEF process_tx, BringUpInv, BringUp
  <2>4. SndInv' BY <1>17 DEF process_tx, SndInv
  <2>5. TxInv' BY <1>17 DEF process_tx, TxInv, MidReap
  <2>6. RxDmaSafe' BY <1>17 DEF process_tx, RxDmaSafe
  <2> QED BY <1>type, <2>1, <2>2, <2>3, <2>4, <2>5, <2>6
<1>18. ASSUME process_tx_lock PROVE RunInv'
  <2>1. LockInv' BY <1>18 DEF process_tx_lock, LockInv, StartLabels, Threads
  <2>2. QuietInv' BY <1>18 DEF process_tx_lock, QuietInv
  <2>3. BringUpInv' BY <1>18 DEF process_tx_lock, BringUpInv, BringUp
  <2>4. SndInv' BY <1>18 DEF process_tx_lock, SndInv
  <2>5. TxInv' BY <1>18 DEF process_tx_lock, TxInv, MidReap
  <2>6. RxDmaSafe' BY <1>18 DEF process_tx_lock, RxDmaSafe
  <2> QED BY <1>type, <2>1, <2>2, <2>3, <2>4, <2>5, <2>6
<1>19. ASSUME ravb_error_interrupt PROVE RunInv'
  <2>1. LockInv' BY <1>19 DEF ravb_error_interrupt, LockInv, StartLabels
  <2>2. QuietInv' BY <1>19 DEF ravb_error_interrupt, QuietInv
  <2>3. BringUpInv' BY <1>19 DEF ravb_error_interrupt, BringUpInv, BringUp
  <2>4. SndInv' BY <1>19 DEF ravb_error_interrupt, SndInv
  <2>5. TxInv' BY <1>19 DEF ravb_error_interrupt, TxInv, MidReap
  <2>6. RxDmaSafe' BY <1>19 DEF ravb_error_interrupt, RxDmaSafe
  <2> QED BY <1>type, <2>1, <2>2, <2>3, <2>4, <2>5, <2>6
<1>20. ASSUME ravb_dmac_enable_interrupt PROVE RunInv'
  <2>1. LockInv' BY <1>20 DEF ravb_dmac_enable_interrupt, LockInv, StartLabels
  <2>2. QuietInv' BY <1>20 DEF ravb_dmac_enable_interrupt, QuietInv
  <2>3. BringUpInv' BY <1>20 DEF ravb_dmac_enable_interrupt, BringUpInv, BringUp
  <2>4. SndInv' BY <1>20 DEF ravb_dmac_enable_interrupt, SndInv
  <2>5. TxInv' BY <1>20 DEF ravb_dmac_enable_interrupt, TxInv, MidReap
  <2>6. RxDmaSafe' BY <1>20 DEF ravb_dmac_enable_interrupt, RxDmaSafe
  <2> QED BY <1>type, <2>1, <2>2, <2>3, <2>4, <2>5, <2>6
<1>21. ASSUME ravb_stop_flags PROVE RunInv'
  <2>1. LockInv' BY <1>21 DEF ravb_stop_flags, LockInv, StartLabels
  <2>2. QuietInv' BY <1>21 DEF ravb_stop_flags, QuietInv, BringUpInv, BringUp, LockInv,
       StartLabels, Threads
  <2>3. BringUpInv' BY <1>21 DEF ravb_stop_flags, BringUpInv, BringUp
  <2>4. SndInv' BY <1>21 DEF ravb_stop_flags, SndInv
  <2>5. TxInv' BY <1>21 DEF ravb_stop_flags, TxInv, MidReap
  <2>6. RxDmaSafe' BY <1>21 DEF ravb_stop_flags, RxDmaSafe
  <2> QED BY <1>type, <2>1, <2>2, <2>3, <2>4, <2>5, <2>6
<1>22. ASSUME ravb_stop_off PROVE RunInv'
  <2>1. LockInv' BY <1>22 DEF ravb_stop_off, LockInv, StartLabels
  <2>2. QuietInv' BY <1>22 DEF ravb_stop_off, QuietInv
  <2>3. BringUpInv' BY <1>22 DEF ravb_stop_off, BringUpInv, BringUp
  <2>4. SndInv' BY <1>22 DEF ravb_stop_off, SndInv
  <2>5. TxInv' BY <1>22 DEF ravb_stop_off, TxInv, MidReap
  <2>6. RxDmaSafe' BY <1>22 DEF ravb_stop_off, RxDmaSafe
  <2> QED BY <1>type, <2>1, <2>2, <2>3, <2>4, <2>5, <2>6
<1>23. ASSUME ravb_stop_clear PROVE RunInv'
  <2> DEFINE i == ix["stack"].clr
  <2>1. i \in TxIdx
    BY LocalsFields
  <2>2. ~flags.running /\ pc["stack"] = "stopClear"
    BY <1>23 DEF ravb_stop_clear, BringUpInv, BringUp
  <2>3. tx_pkts[i] = NULL
    BY <2>1, <2>2 DEF QuietInv
  <2>4. owner' = owner
    BY <1>23, <2>3 DEF ravb_stop_clear, m_freem
  <2>5. LockInv'
    BY <1>23 DEF ravb_stop_clear, LockInv, StartLabels
  <2>6. QuietInv'
    BY <1>23, <2>1 DEF ravb_stop_clear, QuietInv
  <2>7. BringUpInv'
    BY <1>23, <2>2 DEF ravb_stop_clear, BringUpInv, BringUp
  <2>8. SndInv'
    BY <1>23, <2>4 DEF ravb_stop_clear, SndInv
  <2>9. TxInv'
    <3>1. \A k \in TxIdx : ~MidReap(k)
      BY <2>2 DEF QuietInv, MidReap, Threads
    <3>2. \A k \in TxIdx : ~MidReap(k)'
      BY <1>23, <2>2 DEF ravb_stop_clear, QuietInv, MidReap, Threads
    <3>3. tx_pkts' = tx_pkts /\ tx_bd' = [tx_bd EXCEPT ![i] = "EEMPTY"]
      BY <1>23 DEF ravb_stop_clear
    <3> QED BY <2>1, <2>4, <3>1, <3>2, <3>3 DEF TxInv
  <2>10. RxDmaSafe'
    BY <1>23, <2>4 DEF ravb_stop_clear, RxDmaSafe
  <2> QED BY <1>type, <2>5, <2>6, <2>7, <2>8, <2>9, <2>10
<1>24. ASSUME ravb_stop_reset PROVE RunInv'
  <2>1. LockInv' BY <1>24 DEF ravb_stop_reset, LockInv, StartLabels
  <2>2. QuietInv' BY <1>24 DEF ravb_stop_reset, QuietInv
  <2>3. BringUpInv' BY <1>24 DEF ravb_stop_reset, BringUpInv, BringUp
  <2>4. SndInv' BY <1>24 DEF ravb_stop_reset, SndInv
  <2>5. TxInv' BY <1>24 DEF ravb_stop_reset, TxInv, MidReap
  <2>6. RxDmaSafe' BY <1>24 DEF ravb_stop_reset, RxDmaSafe
  <2> QED BY <1>type, <2>1, <2>2, <2>3, <2>4, <2>5, <2>6
<1>25. ASSUME ravb_init_config, ~flags.running PROVE RunInv'
  <2>1. LockInv' BY <1>25 DEF ravb_init_config, LockInv, StartLabels
  <2>2. QuietInv' BY <1>25 DEF ravb_init_config, QuietInv
  <2>3. BringUpInv' BY <1>25 DEF ravb_init_config, BringUpInv, BringUp
  <2>4. SndInv' BY <1>25 DEF ravb_init_config, SndInv
  <2>5. TxInv' BY <1>25 DEF ravb_init_config, TxInv, MidReap
  <2>6. RxDmaSafe' BY <1>25 DEF ravb_init_config, RxDmaSafe
  <2> QED BY <1>type, <2>1, <2>2, <2>3, <2>4, <2>5, <2>6
<1>26. ASSUME ravb_init_operation PROVE RunInv'
  <2>1. LockInv' BY <1>26 DEF ravb_init_operation, LockInv, StartLabels
  <2>2. QuietInv' BY <1>26 DEF ravb_init_operation, QuietInv
  <2>3. BringUpInv' BY <1>26 DEF ravb_init_operation, BringUpInv, BringUp
  <2>4. SndInv' BY <1>26 DEF ravb_init_operation, SndInv
  <2>5. TxInv' BY <1>26 DEF ravb_init_operation, TxInv, MidReap
  <2>6. RxDmaSafe' BY <1>26 DEF ravb_init_operation, RxDmaSafe
  <2> QED BY <1>type, <2>1, <2>2, <2>3, <2>4, <2>5, <2>6
<1>27. ASSUME ravb_mii_callback_up PROVE RunInv'
  <2>1. LockInv' BY <1>27 DEF ravb_mii_callback_up, LockInv, StartLabels
  <2>2. QuietInv' BY <1>27 DEF ravb_mii_callback_up, QuietInv
  <2>3. BringUpInv' BY <1>27 DEF ravb_mii_callback_up, BringUpInv, BringUp
  <2>4. SndInv' BY <1>27 DEF ravb_mii_callback_up, SndInv
  <2>5. TxInv' BY <1>27 DEF ravb_mii_callback_up, TxInv, MidReap
  <2>6. RxDmaSafe' BY <1>27 DEF ravb_mii_callback_up, RxDmaSafe
  <2> QED BY <1>type, <2>1, <2>2, <2>3, <2>4, <2>5, <2>6
<1>28. ASSUME ravb_mii_callback_down PROVE RunInv'
  <2>1. LockInv' BY <1>28 DEF ravb_mii_callback_down, LockInv, StartLabels
  <2>2. QuietInv' BY <1>28 DEF ravb_mii_callback_down, QuietInv
  <2>3. BringUpInv' BY <1>28 DEF ravb_mii_callback_down, BringUpInv, BringUp
  <2>4. SndInv' BY <1>28 DEF ravb_mii_callback_down, SndInv
  <2>5. TxInv' BY <1>28 DEF ravb_mii_callback_down, TxInv, MidReap
  <2>6. RxDmaSafe' BY <1>28 DEF ravb_mii_callback_down, RxDmaSafe
  <2> QED BY <1>type, <2>1, <2>2, <2>3, <2>4, <2>5, <2>6
<1>29. ASSUME dmac_transmit PROVE RunInv'
  <2>1. LockInv' BY <1>29 DEF dmac_transmit, DmaOn, LockInv, StartLabels
  <2>2. QuietInv' BY <1>29 DEF dmac_transmit, DmaOn, QuietInv
  <2>3. BringUpInv' BY <1>29 DEF dmac_transmit, DmaOn, BringUpInv, BringUp
  <2>4. SndInv' BY <1>29 DEF dmac_transmit, DmaOn, SndInv
  <2>5. TxInv' BY <1>29 DEF dmac_transmit, DmaOn, TxInv, MidReap
  <2>6. RxDmaSafe' BY <1>29 DEF dmac_transmit, DmaOn, RxDmaSafe
  <2> QED BY <1>type, <2>1, <2>2, <2>3, <2>4, <2>5, <2>6
<1>30. ASSUME dmac_receive PROVE RunInv'
  <2>1. LockInv' BY <1>30 DEF dmac_receive, DmaOn, LockInv, StartLabels
  <2>2. QuietInv' BY <1>30 DEF dmac_receive, DmaOn, QuietInv
  <2>3. BringUpInv' BY <1>30 DEF dmac_receive, DmaOn, BringUpInv, BringUp
  <2>4. SndInv' BY <1>30 DEF dmac_receive, DmaOn, SndInv
  <2>5. TxInv' BY <1>30 DEF dmac_receive, DmaOn, TxInv, MidReap
  <2>6. RxDmaSafe' BY <1>30 DEF dmac_receive, DmaOn, RxDmaSafe
  <2> QED BY <1>type, <2>1, <2>2, <2>3, <2>4, <2>5, <2>6
<1>31. ASSUME NEW m \in Mbufs, if_output(m) PROVE RunInv'
  <2>1. LockInv' BY <1>31 DEF if_output, LockInv, StartLabels, Threads
  <2>2. QuietInv'
    <3>1. flags'.running = flags.running
      BY <1>31 DEF if_output, Flags
    <3> QED BY <1>31, <3>1 DEF if_output, QuietInv
  <2>3. BringUpInv' BY <1>31 DEF if_output, BringUpInv, BringUp
  <2>4. SndInv' BY <1>31 DEF if_output, SndInv
  <2>5. TxInv' BY <1>31 DEF if_output, TxInv, MidReap
  <2>6. RxDmaSafe' BY <1>31 DEF if_output, RxDmaSafe
  <2> QED BY <1>type, <2>1, <2>2, <2>3, <2>4, <2>5, <2>6
<1>32. ASSUME NEW m \in Mbufs, stack_free(m) PROVE RunInv'
  <2>1. LockInv' BY <1>32 DEF stack_free, m_freem, LockInv, StartLabels
  <2>2. QuietInv' BY <1>32 DEF stack_free, m_freem, QuietInv
  <2>3. BringUpInv' BY <1>32 DEF stack_free, m_freem, BringUpInv, BringUp
  <2>4. SndInv' BY <1>32 DEF stack_free, m_freem, SndInv
  <2>5. TxInv' BY <1>32 DEF stack_free, m_freem, TxInv, MidReap
  <2>6. RxDmaSafe' BY <1>32 DEF stack_free, m_freem, RxDmaSafe
  <2> QED BY <1>type, <2>1, <2>2, <2>3, <2>4, <2>5, <2>6
<1>33. CASE UNCHANGED vars
  <2>1. LockInv' BY <1>33 DEF vars, LockInv
  <2>2. QuietInv' BY <1>33 DEF vars, QuietInv
  <2>3. BringUpInv' BY <1>33 DEF vars, BringUpInv
  <2>4. SndInv' BY <1>33 DEF vars, SndInv
  <2>5. TxInv' BY <1>33 DEF vars, TxInv, MidReap
  <2>6. RxDmaSafe' BY <1>33 DEF vars, RxDmaSafe
  <2> QED BY <1>type, <2>1, <2>2, <2>3, <2>4, <2>5, <2>6
<1> HIDE DEF RunInv, TypeOK
<1> QED
  BY <1>1, <1>2, <1>3, <1>4, <1>5, <1>6, <1>7, <1>8, <1>9, <1>10, <1>11,
     <1>12, <1>13, <1>14, <1>15, <1>16, <1>17, <1>18, <1>19, <1>20, <1>21,
     <1>22, <1>23, <1>24, <1>25, <1>26, <1>27, <1>28, <1>29, <1>30, <1>31,
     <1>32, <1>33 DEF RunNext, ravb_start, ravb_reap_tx, ravb_receive,
     ravb_process_interrupt, ravb_stop

(* The invariant holds in every state of an interface that was brought up  *)
(* and stays up, for every ring size, pool and interleaving.               *)
THEOREM RunInvariant == RunSpec => []RunInv
<1>1. Init => RunInv  BY RunInvInit
<1>2. RunInv /\ [RunNext]_vars => RunInv'  BY RunInvStep
<1> QED BY <1>1, <1>2, PTL DEF RunSpec

(* ravb_reap_tx, in either thread, only frees mbufs of the transmit ring,  *)
(* and each of them once.                                                  *)
THEOREM NeverFreedTwice == RunSpec => []NoDoubleFree
<1>1. RunInv => NoDoubleFree
  <2> SUFFICES ASSUME RunInv PROVE NoDoubleFree
    OBVIOUS
  <2>1. ASSUME NEW t \in Threads, pc[t] \in {"reap", "stopReap"}, ReapMore(t),
               tx_pkts[ix[t].reap] # NULL
        PROVE  owner[tx_pkts[ix[t].reap]] = "tx"
    <3>1. ix[t].reap \in TxIdx /\ tx_bd[ix[t].reap] = "FEMPTY"
      BY <2>1, LocalsFields DEF ReapMore, RunInv, TypeOK
    <3>2. pc[t] = "reap"
      BY <2>1, <3>1 DEF RunInv, QuietInv, BringUpInv, BringUp, Threads
    <3>3. \A k \in TxIdx : ~MidReap(k)
      BY <3>2 DEF MidReap, RunInv, LockInv, StartLabels
    <3> QED BY <2>1, <3>1, <3>3 DEF RunInv, TxInv
  <2>2. ASSUME pc["stack"] = "stopClear" PROVE tx_pkts[ix["stack"].clr] = NULL
    BY <2>2, LocalsFields, ThreadFacts DEF RunInv, TypeOK, QuietInv, BringUpInv, BringUp
  <2> QED BY <2>1, <2>2 DEF NoDoubleFree
<1> QED BY <1>1, RunInvariant, PTL

(* The buffer the DMAC sends from is always one the ring still owns.       *)
THEOREM TransmitFromOwned == RunSpec => []TxDmaSafe
<1>1. RunInv => TxDmaSafe
  BY RegsFields DEF RunInv, TypeOK, TxInv, TxDmaSafe
<1> QED BY <1>1, RunInvariant, PTL

(* The buffers the DMAC writes frames to are the ring's own, all distinct: *)
(* a frame given to the stack is never overwritten.                        *)
THEOREM ReceiveIntoOwned == RunSpec => []RxDmaSafe
<1>1. RunInv => RxDmaSafe
  BY DEF RunInv
<1> QED BY <1>1, RunInvariant, PTL

(* Both together: whatever the stack, the interrupt thread and the DMAC do *)
(* in steady operation, the DMAC stays inside buffers the rings own.       *)
THEOREM DmaInsideRings == RunSpec => []DmaSafe
BY TransmitFromOwned, ReceiveIntoOwned, PTL DEF DmaSafe
-----------------------------------------------------------------------------
(* The ring that ravb_stop clears, whatever the life cycle does: once      *)
(* IFF_RUNNING is off nobody hands out a descriptor, and those that were   *)
(* handed out are cleared one by one.                                      *)
Clear == \A i \in TxIdx : tx_bd[i] # "FSINGLE"

StopInv ==
  /\ pc["intr"] \notin BringUp
  /\ pc["stack"] \in BringUp \ {"stop", "init"} => ~flags.running
  /\ pc["stack"] \in {"stopReap", "stopReapNull"} => ix["stack"].clr = 0
  /\ pc["stack"] = "stopClear" =>
       \A i \in TxIdx : i < ix["stack"].clr => tx_bd[i] # "FSINGLE"
  /\ pc["stack"] = "stopReset" => Clear
  /\ ~flags.running /\ pc["stack"] \in StartLabels \cup {"idle", "init"} => Clear

(* What a step may do to a local record.                                   *)
LEMMA ClrKept ==
  ASSUME NEW x \in [Threads -> Locals], NEW t \in Threads, NEW i, NEW j
  PROVE  /\ [x EXCEPT ![t].tx = i][t].clr = x[t].clr
         /\ [x EXCEPT ![t].reap = i][t].clr = x[t].clr
         /\ [x EXCEPT ![t].rx = i][t].clr = x[t].clr
         /\ [x EXCEPT ![t].tx = i, ![t].reap = j][t].clr = x[t].clr
         /\ [x EXCEPT ![t].reap = i, ![t].clr = j][t].clr = j
         /\ [x EXCEPT ![t].clr = i][t].clr = i
BY DEF Locals

(* The invariant of the cleared ring holds initially ...                   *)
LEMMA StopInit == Init => StopInv
BY ThreadFacts DEF Init, StopInv, BringUp, StartLabels, Clear

(* ... and every step of the life cycle keeps it.                          *)
LEMMA StopStep == TypeOK /\ StopInv /\ [Next]_vars => StopInv'
<1> SUFFICES ASSUME TypeOK, StopInv, [Next]_vars PROVE StopInv'
  OBVIOUS
<1> USE ThreadFacts DEF TypeOK, Goto, tx, rx, intr
\* ravb_start, by either thread: a descriptor is handed out only while running.
<1>1. ASSUME NEW t \in Threads,
             ravb_start_top(t) \/ ravb_start_full(t) \/ ravb_start_empty(t)
             \/ ravb_start_drop(t) \/ ravb_start_kick(t)
      PROVE  StopInv'
  <2>1. /\ pc[t] \in StartLabels /\ pc'[t] \in StartLabels \cup {"idle", "error"}
        /\ t = "stack" => pc'[t] # "error"
        /\ pc' = [pc EXCEPT ![t] = pc'[t]]
    BY <1>1 DEF ravb_start_top, ravb_start_full, ravb_start_empty, ravb_start_drop,
       ravb_start_kick, ReturnFromStart, AfterStart, StartLabels, Threads
  <2>2. tx_bd' = tx_bd /\ flags'.running = flags.running
    BY <1>1 DEF ravb_start_top, ravb_start_full, ravb_start_empty, ravb_start_drop,
       ravb_start_kick, Flags
  <2>3. t # "stack" => ix'["stack"] = ix["stack"]
    BY <1>1 DEF ravb_start_top, ravb_start_full, ravb_start_empty, ravb_start_drop,
       ravb_start_kick, ReturnFromStart
  <2> HIDE DEF TypeOK
  <2> QED BY <2>1, <2>2, <2>3 DEF StopInv, BringUp, StartLabels, Clear, TypeOK
<1>2. ASSUME NEW t \in Threads, ravb_start_put(t) PROVE StopInv'
  <2>1. flags.running /\ flags' = flags /\ ix' = ix
        /\ pc[t] = "dequeue" /\ pc' = [pc EXCEPT ![t] = "kick"]
    BY <1>2 DEF ravb_start_put, CanSend
  <2>2. pc["stack"] \notin BringUp \ {"stop", "init"}
    BY <2>1 DEF StopInv
  <2> QED BY <2>1, <2>2 DEF StopInv, BringUp, StartLabels, Threads
\* ravb_reap_tx, for ravb_start or for ravb_stop, leaves the descriptors alone.
<1>3. ASSUME NEW t \in Threads,
             ravb_reap_free(t) \/ ravb_reap_null(t) \/ ravb_reap_done(t)
      PROVE  StopInv'
  <2>1. tx_bd' = tx_bd /\ flags' = flags
    BY <1>3 DEF ravb_reap_free, ravb_reap_null, ravb_reap_done
  <2>2. ix'["stack"].clr = ix["stack"].clr
    <3>1. CASE t = "stack"
      <4>1. \/ ix' = ix \/ ix' = [ix EXCEPT !["stack"].reap = 0]
            \/ ix' = [ix EXCEPT !["stack"].reap = NextTx(ix["stack"].reap)]
        BY <1>3, <3>1 DEF ravb_reap_free, ravb_reap_null, ravb_reap_done
      <4>2. ix \in [Threads -> Locals]
        OBVIOUS
      <4> HIDE DEF TypeOK
      <4>3. \A i : [ix EXCEPT !["stack"].reap = i]["stack"].clr = ix["stack"].clr
        BY <4>2, ClrKept
      <4> QED BY <4>1, <4>3
    <3>2. CASE t # "stack"
      BY <1>3, <3>2 DEF ravb_reap_free, ravb_reap_null, ravb_reap_done
    <3> QED BY <3>1, <3>2
  <2>3. /\ pc' = [pc EXCEPT ![t] = pc'[t]]
        /\ \/ pc[t] \in {"reap", "reapNull"} /\ pc'[t] \in {"reap", "reapNull", "full"}
           \/ pc[t] \in {"stopReap", "stopReapNull"}
              /\ pc'[t] \in {"stopReap", "stopReapNull", "stopClear"}
    BY <1>3 DEF ravb_reap_free, ravb_reap_null, ravb_reap_done, AfterReap
  <2>4. \A i \in TxIdx : ~(i < 0)
    BY RingAssumption DEF TxIdx
  <2> QED BY <2>1, <2>2, <2>3, <2>4 DEF StopInv, BringUp, StartLabels, Clear, Threads
\* The interrupt thread outside ravb_start, the ISR and the outside world.
<1>4. CASE ravb_dmac_isr_iss \/ ravb_dmac_isr_queue \/ process_rx \/ ravb_receive
           \/ process_tx \/ process_tx_lock \/ ravb_error_interrupt
           \/ ravb_dmac_enable_interrupt
  <2>1. /\ tx_bd' = tx_bd /\ flags' = flags /\ pc'["stack"] = pc["stack"]
        /\ ix'["stack"] = ix["stack"]
    BY <1>4 DEF ravb_dmac_isr_iss, ravb_dmac_isr_queue, process_rx, ravb_receive,
       ravb_receive_done, ravb_receive_error, ravb_receive_frame, ravb_receive_next,
       process_tx, process_tx_lock, ravb_error_interrupt, ravb_dmac_enable_interrupt
  <2>2. pc'["intr"] = pc["intr"] \/ pc'["intr"] \notin BringUp
    BY <1>4 DEF ravb_dmac_isr_iss, ravb_dmac_isr_queue, process_rx, ravb_receive,
       ravb_receive_done, ravb_receive_error, ravb_receive_frame, ravb_receive_next,
       process_tx, process_tx_lock, ravb_error_interrupt, ravb_dmac_enable_interrupt, BringUp
  <2> HIDE DEF TypeOK
  <2> QED BY <2>1, <2>2 DEF StopInv, Clear
<1>5. CASE dmac_receive \/ ravb_mii_callback_up \/ ravb_mii_callback_down
           \/ (\E m \in Mbufs : stack_free(m)) \/ UNCHANGED vars
  <2>1. /\ tx_bd' = tx_bd /\ flags'.running = flags.running
        /\ pc' = pc /\ ix' = ix
    BY <1>5 DEF dmac_receive, ravb_mii_callback_up, ravb_mii_callback_down, stack_free,
       vars, Flags
  <2> HIDE DEF TypeOK
  <2> QED BY <2>1 DEF StopInv, Clear
<1>6. CASE dmac_transmit
  <2>1. \A i \in TxIdx : tx_bd'[i] = "FSINGLE" => tx_bd[i] = "FSINGLE"
    BY <1>6, RegsFields DEF dmac_transmit
  <2>2. flags' = flags /\ pc' = pc /\ ix' = ix
    BY <1>6 DEF dmac_transmit
  <2> HIDE DEF TypeOK
  <2> QED BY <2>1, <2>2 DEF StopInv, Clear
<1>7. CASE \E m \in Mbufs : if_output(m)
  <2>1. /\ tx_bd' = tx_bd /\ flags'.running = flags.running /\ ix' = ix
        /\ pc["stack"] = "idle" /\ pc' \in {pc, [pc EXCEPT !["stack"] = "start"]}
    BY <1>7 DEF if_output, Flags
  <2> QED BY <2>1 DEF StopInv, Clear, BringUp, StartLabels
\* ravb_stop and ravb_init.
<1>8. CASE ravb_stop_flags \/ ravb_stop_off
  <2>1. tx_bd' = tx_bd /\ pc'["intr"] = pc["intr"]
    BY <1>8 DEF ravb_stop_flags, ravb_stop_off
  <2>2. pc'["stack"] = "stopReap" => ix'["stack"].clr = 0 /\ ~flags'.running
    <3>1. CASE ravb_stop_flags
      BY <3>1 DEF ravb_stop_flags
    <3>2. CASE ravb_stop_off
      <4>1. ix'["stack"].clr = 0
        BY <3>2, ClrKept DEF ravb_stop_off
      <4>2. flags' = flags /\ pc["stack"] = "stopWait"
        BY <3>2 DEF ravb_stop_off
      <4> QED BY <4>1, <4>2 DEF StopInv, BringUp
    <3> QED BY <1>8, <3>1, <3>2
  <2>3. pc'["stack"] = "stopWait" => ~flags'.running
    BY <1>8 DEF ravb_stop_flags, ravb_stop_off, Flags
  <2>4. pc'["stack"] \in {"stopWait", "stopReap"}
    BY <1>8 DEF ravb_stop_flags, ravb_stop_off
  <2> QED BY <2>1, <2>2, <2>3, <2>4 DEF StopInv, BringUp, StartLabels
<1>9. CASE ravb_stop_clear
  <2> DEFINE k == ix["stack"].clr
  <2>1. k \in TxIdx /\ NextTx(k) = IF k + 1 = NUM_TX_DESC THEN 0 ELSE k + 1
    BY LocalsFields, ModInc, RingAssumption DEF NextTx, TxIdx
  <2>2. /\ tx_bd' = [tx_bd EXCEPT ![k] = "EEMPTY"] /\ flags' = flags
        /\ ix'["stack"].clr = NextTx(k) /\ pc["stack"] = "stopClear"
        /\ pc' = [pc EXCEPT !["stack"] = IF NextTx(k) = 0 THEN "stopReset" ELSE "stopClear"]
    BY <1>9, ClrKept DEF ravb_stop_clear
  <2>3. ~flags.running /\ \A i \in TxIdx : i < k => tx_bd[i] # "FSINGLE"
    BY <2>2 DEF StopInv, BringUp
  <2> HIDE DEF k
  <2>4. \A i \in TxIdx : i < k + 1 => tx_bd'[i] # "FSINGLE"
    BY <2>1, <2>2, <2>3, RingAssumption DEF TxIdx
  <2>5. NextTx(k) = 0 => \A i \in TxIdx : i < k + 1
    BY <2>1, RingAssumption DEF TxIdx
  <2>6. NextTx(k) # 0 => NextTx(k) = k + 1
    BY <2>1
  <2> QED BY <2>2, <2>3, <2>4, <2>5, <2>6 DEF StopInv, BringUp, StartLabels, Clear
<1>10. CASE ravb_stop_reset
  <2>1. /\ tx_bd' = tx_bd /\ flags' = flags /\ pc'["intr"] = pc["intr"]
        /\ pc["stack"] = "stopReset" /\ pc'["stack"] \in {"init", "idle"}
    BY <1>10 DEF ravb_stop_reset
  <2> QED BY <2>1 DEF StopInv, BringUp, StartLabels, Clear
<1>11. CASE ravb_init_config \/ if_stop
  <2>1. /\ tx_bd' = tx_bd /\ flags' = flags /\ pc'["intr"] = pc["intr"]
        /\ pc["stack"] = "idle" /\ pc'["stack"] \in {"init", "stop"}
    BY <1>11 DEF ravb_init_config, if_stop
  <2> QED BY <2>1 DEF StopInv, BringUp, StartLabels, Clear
<1>12. CASE ravb_init_operation
  <2>1. flags'.running /\ pc'["intr"] = pc["intr"] /\ pc'["stack"] = "idle"
    BY <1>12 DEF ravb_init_operation, Flags
  <2> QED BY <2>1 DEF StopInv, BringUp, StartLabels
<1> HIDE DEF TypeOK
<1> QED
  BY <1>1, <1>2, <1>3, <1>4, <1>5, <1>6, <1>7, <1>8, <1>9, <1>10, <1>11, <1>12
     DEF Next, RunNext, ravb_start, ravb_reap_tx, ravb_process_interrupt, ravb_stop

(* Once ravb_stop has returned, no transmit descriptor is left to the      *)
(* DMAC, however often the interface is stopped, started and               *)
(* re-initialised and wherever the interrupt thread is in ravb_start.      *)
THEOREM StopClearsRing == Spec => []StoppedRingClear
<1>1. StopInv => StoppedRingClear
  BY DEF StopInv, StoppedRingClear, Clear
<1> QED BY <1>1, StopInit, StopStep, InitType, StepType, PTL DEF Spec

-----------------------------------------------------------------------------
(* The transmit ring as a whole.  Between the next descriptor to reap and  *)
(* the next to fill the slots hold packets: first those that were sent,    *)
(* from the DMAC's cursor on those that were not.                          *)

(* Steps along the ring from descriptor a to descriptor b.                 *)
Dist(a, b) == IF b >= a THEN b - a ELSE b + NUM_TX_DESC - a

(* The next descriptor to reap: ravb_reap_tx keeps it in a local.          *)
Reaping(t) == pc[t] \in {"reap", "reapNull"}
Base == IF Reaping("stack") THEN ix["stack"].reap
        ELSE IF Reaping("intr") THEN ix["intr"].reap ELSE tx_cidx

Ring(pkts, bd, base, cur, pidx) ==
  /\ \A i \in TxIdx : pkts[i] # NULL <=> Dist(base, i) < Dist(base, pidx)
  /\ \A i \in TxIdx : bd[i] = "FSINGLE" <=> Dist(cur, i) < Dist(cur, pidx)
  /\ \A i \in TxIdx : pkts[i] # NULL => bd[i] # "EEMPTY"
  /\ Dist(base, cur) <= Dist(base, pidx)

RingInv == Ring(tx_pkts, tx_bd, Base, hw.txcur, tx_pidx)

(* What ravb_start and ravb_reap_tx have read is still so.                 *)
LocalInv ==
  \A t \in Threads :
    /\ pc[t] \in {"reap", "reapNull", "full", "dequeue"} => ix[t].tx = tx_pidx
    /\ pc[t] = "reapNull" =>
         /\ ix[t].reap # tx_pidx /\ tx_bd[ix[t].reap] = "FEMPTY"
         /\ tx_pkts[ix[t].reap] # NULL => owner[tx_pkts[ix[t].reap]] # "tx"
    /\ pc[t] = "dequeue" => NextTx(tx_pidx) # tx_cidx

(* Before the interface runs.                                              *)
AtRest ==
  ~flags.running =>
    /\ tx_pidx = 0 /\ tx_cidx = 0 /\ hw.txcur = 0
    /\ \A t \in Threads : pc[t] \notin {"reap", "reapNull", "full", "kick"}
    /\ pc["stack"] = "stopReap" => ix["stack"].reap = 0
    /\ \A i \in RxIdx : rx_bd[i] = "FEMPTY"

(* The DMAC has been told of what it has to send, and what stops output    *)
(* will be followed by an interrupt.                                       *)
KickInv == tx_bd[hw.txcur] = "FSINGLE" => hw.tsrq0 \/ \E t \in Threads : pc[t] = "kick"

Wakeup == \/ hw.tsrq0 /\ tx_bd[hw.txcur] = "FSINGLE"
          \/ hw.tis \/ pc["intr"] = "txlock"

WakeInv ==
  /\ \A t \in Threads : pc[t] = "full" /\ NextTx(tx_pidx) = tx_cidx => Wakeup
  /\ lock = "none" /\ flags.oactive => NextTx(tx_pidx) = tx_cidx /\ Wakeup

FullInv == /\ RingInv /\ LocalInv /\ AtRest /\ KickInv /\ WakeInv
           /\ NoLeak /\ NoStrandedFrame

(* Distances along the ring.                                               *)
LEMMA NextTxIs ==
  ASSUME NEW a \in TxIdx
  PROVE  NextTx(a) = IF a + 1 = NUM_TX_DESC THEN 0 ELSE a + 1
BY ModInc, RingAssumption DEF NextTx, TxIdx

(* Distances are shorter than the ring, and only equal indices are at      *)
(* distance 0.                                                             *)
LEMMA DistType ==
  ASSUME NEW a \in TxIdx, NEW b \in TxIdx
  PROVE  /\ Dist(a, b) \in Nat /\ Dist(a, b) < NUM_TX_DESC
         /\ Dist(a, b) = 0 <=> a = b
BY RingAssumption DEF Dist, TxIdx

(* Two slots at the same distance from a third are the same slot.          *)
LEMMA DistInj ==
  ASSUME NEW a \in TxIdx, NEW b \in TxIdx, NEW c \in TxIdx, Dist(a, b) = Dist(a, c)
  PROVE  b = c
BY RingAssumption DEF Dist, TxIdx

(* A step of the near end, and of the far end.                             *)
LEMMA DistNear ==
  ASSUME NEW a \in TxIdx, NEW b \in TxIdx
  PROVE  /\ a # b => Dist(NextTx(a), b) = Dist(a, b) - 1
         /\ Dist(NextTx(a), a) = NUM_TX_DESC - 1
BY NextTxIs, RingAssumption DEF Dist, TxIdx

(* The successor of a slot is one further away, unless it is the slot      *)
(* counted from.                                                           *)
LEMMA DistFar ==
  ASSUME NEW a \in TxIdx, NEW b \in TxIdx
  PROVE  /\ NextTx(b) # a => Dist(a, NextTx(b)) = Dist(a, b) + 1
         /\ NextTx(b) = a => Dist(a, b) = NUM_TX_DESC - 1
         /\ NextTx(b) # b
BY NextTxIs, RingAssumption DEF Dist, TxIdx

(* A descriptor between two others.                                        *)
LEMMA DistBetween ==
  ASSUME NEW a \in TxIdx, NEW b \in TxIdx, NEW c \in TxIdx, Dist(a, b) <= Dist(a, c)
  PROVE  /\ Dist(b, c) = Dist(a, c) - Dist(a, b)
         /\ a # b => Dist(b, a) = NUM_TX_DESC - Dist(a, b)
BY RingAssumption DEF Dist, TxIdx


(* What fills, sends and reaps a descriptor keeps the ring in order.       *)
LEMMA RingPut ==
  ASSUME NEW pkts \in [TxIdx -> Mbufs \cup {NULL}], NEW bd \in [TxIdx -> TxTypes],
         NEW b \in TxIdx, NEW c \in TxIdx, NEW p \in TxIdx, NEW m \in Mbufs,
         Ring(pkts, bd, b, c, p), NextTx(p) # b
  PROVE  /\ Ring([pkts EXCEPT ![p] = m], [bd EXCEPT ![p] = "FSINGLE"], b, c, NextTx(p))
         /\ pkts[p] = NULL
<1>1. NextTx(p) \in TxIdx /\ Dist(b, NextTx(p)) = Dist(b, p) + 1
  BY NextTxType, DistFar
<1>2. NextTx(p) # c
  BY <1>1, DistType DEF Ring
<1>3. Dist(c, NextTx(p)) = Dist(c, p) + 1
  BY <1>2, DistFar
<1>4. \A i \in TxIdx :
        /\ Dist(b, i) < Dist(b, p) + 1 <=> (Dist(b, i) < Dist(b, p) \/ i = p)
        /\ Dist(c, i) < Dist(c, p) + 1 <=> (Dist(c, i) < Dist(c, p) \/ i = p)
  <2> SUFFICES ASSUME NEW i \in TxIdx
               PROVE  /\ Dist(b, i) < Dist(b, p) + 1 <=> (Dist(b, i) < Dist(b, p) \/ i = p)
                      /\ Dist(c, i) < Dist(c, p) + 1 <=> (Dist(c, i) < Dist(c, p) \/ i = p)
    OBVIOUS
  <2>1. Dist(b, i) \in Nat /\ Dist(b, p) \in Nat /\ Dist(c, i) \in Nat /\ Dist(c, p) \in Nat
    BY DistType
  <2>2. (Dist(b, i) = Dist(b, p) <=> i = p) /\ (Dist(c, i) = Dist(c, p) <=> i = p)
    BY DistInj
  <2> QED BY <2>1, <2>2
<1>5. Dist(b, c) <= Dist(b, p) + 1
  BY DistType DEF Ring
<1>6. pkts[p] = NULL
  BY DistType DEF Ring
<1> DEFINE f == [pkts EXCEPT ![p] = m]
           g == [bd EXCEPT ![p] = "FSINGLE"]
<1>7. \A i \in TxIdx :
        /\ f[i] # NULL <=> (pkts[i] # NULL \/ i = p)
        /\ g[i] = "FSINGLE" <=> (bd[i] = "FSINGLE" \/ i = p)
        /\ g[i] = "EEMPTY" <=> (bd[i] = "EEMPTY" /\ i # p)
  BY PoolAssumption
<1> HIDE DEF f, g
<1>8. Ring(f, g, b, c, NextTx(p))
  BY <1>1, <1>3, <1>4, <1>5, <1>7 DEF Ring
<1> QED BY <1>6, <1>8 DEF f, g

(* The DMAC sends the packet at its cursor and goes on to the next slot.   *)
LEMMA RingSend ==
  ASSUME NEW pkts \in [TxIdx -> Mbufs \cup {NULL}], NEW bd \in [TxIdx -> TxTypes],
         NEW b \in TxIdx, NEW c \in TxIdx, NEW p \in TxIdx,
         Ring(pkts, bd, b, c, p), bd[c] = "FSINGLE"
  PROVE  Ring(pkts, [bd EXCEPT ![c] = "FEMPTY"], b, NextTx(c), p)
<1>1. c # p
  BY DistType DEF Ring
<1>2. NextTx(c) \in TxIdx /\ Dist(NextTx(c), p) = Dist(c, p) - 1
  BY <1>1, NextTxType, DistNear
<1>3. \A i \in TxIdx : i # c => Dist(NextTx(c), i) = Dist(c, i) - 1
  BY DistNear
<1>4. ~(Dist(NextTx(c), c) < Dist(c, p) - 1)
  BY DistNear, DistType, RingAssumption
<1>5. Dist(b, c) < Dist(b, p)
  BY <1>1, DistType, DistInj DEF Ring
<1>6. Dist(b, NextTx(c)) <= Dist(b, p)
  BY <1>5, DistFar, DistType, RingAssumption
<1> DEFINE g == [bd EXCEPT ![c] = "FEMPTY"]
<1>7. \A i \in TxIdx :
        /\ g[i] = "FSINGLE" <=> (bd[i] = "FSINGLE" /\ i # c)
        /\ g[i] = "EEMPTY" <=> (bd[i] = "EEMPTY" /\ i # c)
  OBVIOUS
<1> HIDE DEF g
<1>8. \A i \in TxIdx : g[i] = "FSINGLE" <=> Dist(NextTx(c), i) < Dist(NextTx(c), p)
  BY <1>2, <1>3, <1>4, <1>7, DistType DEF Ring
<1>9. Ring(pkts, g, b, NextTx(c), p)
  BY <1>6, <1>7, <1>8 DEF Ring
<1> QED BY <1>9 DEF g

(* ravb_reap_tx frees the oldest packet, which has been sent.              *)
LEMMA RingReap ==
  ASSUME NEW pkts \in [TxIdx -> Mbufs \cup {NULL}], NEW bd \in [TxIdx -> TxTypes],
         NEW b \in TxIdx, NEW c \in TxIdx, NEW p \in TxIdx,
         Ring(pkts, bd, b, c, p), b # p, bd[b] = "FEMPTY"
  PROVE  Ring([pkts EXCEPT ![b] = NULL], bd, NextTx(b), c, p)
<1>1. b # c
  BY DistType DEF Ring
<1>2. NextTx(b) \in TxIdx /\ Dist(NextTx(b), p) = Dist(b, p) - 1
      /\ Dist(NextTx(b), c) = Dist(b, c) - 1
  BY <1>1, NextTxType, DistNear
<1>3. \A i \in TxIdx : i # b => Dist(NextTx(b), i) = Dist(b, i) - 1
  BY DistNear
<1>4. ~(Dist(NextTx(b), b) < Dist(b, p) - 1)
  BY DistNear, DistType, RingAssumption
<1>5. Dist(b, c) - 1 <= Dist(b, p) - 1
  BY DistType DEF Ring
<1> DEFINE f == [pkts EXCEPT ![b] = NULL]
<1>7. \A i \in TxIdx : f[i] # NULL <=> (pkts[i] # NULL /\ i # b)
  OBVIOUS
<1> HIDE DEF f
<1>8. \A i \in TxIdx : f[i] # NULL <=> Dist(NextTx(b), i) < Dist(NextTx(b), p)
  BY <1>2, <1>3, <1>4, <1>7, DistType DEF Ring
<1>9. Ring(f, bd, NextTx(b), c, p)
  BY <1>2, <1>5, <1>7, <1>8 DEF Ring
<1> QED BY <1>9 DEF f

(* In a full ring whose oldest packet is not sent the DMAC stands there.   *)
LEMMA RingFull ==
  ASSUME NEW pkts \in [TxIdx -> Mbufs \cup {NULL}], NEW bd \in [TxIdx -> TxTypes],
         NEW b \in TxIdx, NEW c \in TxIdx, NEW p \in TxIdx,
         Ring(pkts, bd, b, c, p), NextTx(p) = b, bd[b] # "FEMPTY"
  PROVE  b # p /\ bd[c] = "FSINGLE"
<1>1. b # p /\ Dist(b, p) = NUM_TX_DESC - 1
  BY DistFar
<1>2. bd[b] = "FSINGLE"
  BY <1>1, DistType DEF Ring, TxTypes
<1>3. b = c
  <2> SUFFICES ASSUME b # c PROVE FALSE
    OBVIOUS
  <2>1. Dist(c, b) = NUM_TX_DESC - Dist(b, c) /\ Dist(c, p) = Dist(b, p) - Dist(b, c)
    BY DistBetween DEF Ring
  <2>2. Dist(c, b) < Dist(c, p)
    BY <1>2 DEF Ring
  <2> QED BY <1>1, <2>1, <2>2, DistType, RingAssumption
<1> QED BY <1>1, <1>2, <1>3

(* A ring that is not in use.                                              *)
LEMMA RingUnused ==
  ASSUME NEW pkts, NEW bd, NEW b \in TxIdx,
         \A i \in TxIdx : pkts[i] = NULL /\ bd[i] = "EEMPTY"
  PROVE  Ring(pkts, bd, b, b, b)
BY DistType DEF Ring

(* Steps that leave the transmit path alone: the interrupt service routine *)
(* and the interrupt thread outside ravb_start, the link, a consumed packet*)
(* and a received frame.                                                   *)
Aside ==
  \/ ravb_dmac_isr_iss \/ ravb_dmac_isr_queue \/ process_rx
  \/ ravb_receive_done \/ ravb_receive_error \/ ravb_receive_frame \/ ravb_receive_next
  \/ ravb_error_interrupt \/ ravb_dmac_enable_interrupt
  \/ ravb_mii_callback_up \/ ravb_mii_callback_down
  \/ (\E m \in Mbufs : stack_free(m)) \/ dmac_receive

(* The steps of the receive path and of the handler leave the transmit ring*)
(* and its threads alone.                                                  *)
LEMMA AsideFrame ==
  ASSUME RunInv, Aside
  PROVE  /\ UNCHANGED <<tx_bd, tx_pkts, tx_pidx, tx_cidx, snd, lock>>
         /\ hw'.txcur = hw.txcur /\ hw'.tsrq0 = hw.tsrq0 /\ hw'.tis = hw.tis
         /\ flags'.running = flags.running /\ flags'.oactive = flags.oactive
         /\ pc'["stack"] = pc["stack"] /\ ix'["stack"] = ix["stack"]
         /\ pc["intr"] \notin StartLabels \/ pc'["intr"] = pc["intr"]
         /\ pc'["intr"] \notin StartLabels \/ pc'["intr"] = pc["intr"]
         /\ pc["intr"] = "txlock" <=> pc'["intr"] = "txlock"
         /\ ix'["intr"].tx = ix["intr"].tx /\ ix'["intr"].reap = ix["intr"].reap
<1> USE ThreadFacts DEF RunInv, TypeOK, Goto, tx, rx, intr
<1>1. CASE ravb_dmac_isr_iss \/ ravb_dmac_isr_queue \/ process_rx
  BY <1>1 DEF ravb_dmac_isr_iss, ravb_dmac_isr_queue, process_rx, Regs, StartLabels
<1>2. CASE ravb_receive_done \/ ravb_receive_error \/ ravb_receive_frame \/ ravb_receive_next
  BY <1>2 DEF ravb_receive_done, ravb_receive_error, ravb_receive_frame, ravb_receive_next,
     StartLabels, Locals
<1>3. CASE ravb_error_interrupt \/ ravb_dmac_enable_interrupt
  BY <1>3 DEF ravb_error_interrupt, ravb_dmac_enable_interrupt, Regs, StartLabels
<1>4. CASE ravb_mii_callback_up \/ ravb_mii_callback_down
           \/ (\E m \in Mbufs : stack_free(m)) \/ dmac_receive
  BY <1>4 DEF ravb_mii_callback_up, ravb_mii_callback_down, stack_free, dmac_receive,
     Regs, Flags
<1> QED BY <1>1, <1>2, <1>3, <1>4 DEF Aside

(* The steps of steady operation, in groups.                               *)
Bring == \/ ~flags.running /\ ravb_init_config
         \/ ravb_stop_flags \/ ravb_stop_off \/ ravb_stop_clear \/ ravb_stop_reset

(* The steps of steady operation: those aside, bringing the interface up,  *)
(* and those of the transmit ring.                                         *)
LEMMA RunSteps ==
  ASSUME RunNext
  PROVE  \/ Aside \/ Bring \/ ravb_init_operation
         \/ process_tx \/ process_tx_lock \/ dmac_transmit
         \/ \E m \in Mbufs : if_output(m)
         \/ \E t \in Threads :
              \/ ravb_start_top(t) \/ ravb_start_full(t) \/ ravb_start_empty(t)
              \/ ravb_start_drop(t) \/ ravb_start_put(t) \/ ravb_start_kick(t)
              \/ ravb_reap_free(t) \/ ravb_reap_null(t) \/ ravb_reap_done(t)
BY DEF RunNext, Aside, Bring, ravb_start, ravb_reap_tx, ravb_receive,
       ravb_process_interrupt, ravb_stop

(* Who reaps, and who does not.                                            *)
LEMMA BaseFacts ==
  ASSUME TypeOK, LockInv
  PROVE  /\ Base \in TxIdx
         /\ \A t \in Threads : Reaping(t) => Base = ix[t].reap
         /\ (\A t \in Threads : ~Reaping(t)) => Base = tx_cidx
         /\ \A t, u \in Threads : pc[t] \in StartLabels /\ u # t => pc[u] \notin StartLabels
<1>1. \A t, u \in Threads : pc[t] \in StartLabels /\ u # t => pc[u] \notin StartLabels
  BY DEF LockInv
<1>2. ix["stack"].reap \in TxIdx /\ ix["intr"].reap \in TxIdx /\ tx_cidx \in TxIdx
  BY LocalsFields, ThreadFacts DEF TypeOK
<1> QED BY <1>1, <1>2, ThreadFacts DEF Base, Reaping, StartLabels, Threads

(* The interface, once up, stays up; the way up is behind it.              *)
LEMMA BringIsDown ==
  ASSUME RunInv, Bring
  PROVE  ~flags.running /\ ~flags'.running
<1>1. CASE ~flags.running /\ ravb_init_config
  BY <1>1 DEF ravb_init_config
<1>2. CASE ravb_stop_flags
  BY <1>2 DEF ravb_stop_flags, RunInv, BringUpInv, BringUp, TypeOK, Flags
<1>3. CASE ravb_stop_off \/ ravb_stop_clear \/ ravb_stop_reset
  BY <1>3 DEF ravb_stop_off, ravb_stop_clear, ravb_stop_reset, RunInv, BringUpInv, BringUp
<1> QED BY <1>1, <1>2, <1>3 DEF Bring

(* IFF_RUNNING changes only when ravb_init_operation sets it.              *)
LEMMA RunningStep ==
  ASSUME RunInv, [RunNext]_vars
  PROVE  \/ flags'.running = flags.running
         \/ ravb_init_operation /\ ~flags.running /\ flags'.running
<1>0. flags.running \in BOOLEAN /\ flags'.running \in BOOLEAN
  BY StepType DEF RunInv, Next, TypeOK, Flags
<1> USE DEF RunInv, TypeOK, Flags
<1>1. CASE Aside
  BY <1>1, AsideFrame
<1>2. CASE Bring
  BY <1>0, <1>2, BringIsDown
<1>3. CASE ravb_init_operation
  BY <1>3 DEF ravb_init_operation
<1>4. CASE process_tx \/ process_tx_lock \/ dmac_transmit
           \/ (\E m \in Mbufs : if_output(m)) \/ UNCHANGED vars
  BY <1>4 DEF process_tx, process_tx_lock, dmac_transmit, if_output, vars
<1>5. ASSUME NEW t \in Threads,
             \/ ravb_start_top(t) \/ ravb_start_full(t) \/ ravb_start_empty(t)
             \/ ravb_start_drop(t) \/ ravb_start_put(t) \/ ravb_start_kick(t)
             \/ ravb_reap_free(t) \/ ravb_reap_null(t) \/ ravb_reap_done(t)
      PROVE  flags'.running = flags.running
  BY <1>5 DEF ravb_start_top, ravb_start_full, ravb_start_empty, ravb_start_drop,
     ravb_start_put, ravb_start_kick, ravb_reap_free, ravb_reap_null, ravb_reap_done
<1> HIDE DEF RunInv, TypeOK
<1> QED BY <1>1, <1>2, <1>3, <1>4, <1>5, RunSteps

(* Before the interface runs the transmit ring and the receive ring stay   *)
(* as ravb_attach left them.                                               *)
LEMMA RestStep ==
  ASSUME RunInv, AtRest, [RunNext]_vars
  PROVE  AtRest'
<1> SUFFICES ASSUME ~flags'.running PROVE AtRest'
  BY DEF AtRest
<1>0. ~flags.running
  BY RunningStep
<1>r. /\ tx_pidx = 0 /\ tx_cidx = 0 /\ hw.txcur = 0
      /\ \A t \in Threads : pc[t] \notin {"reap", "reapNull", "full", "kick"}
      /\ pc["stack"] = "stopReap" => ix["stack"].reap = 0
      /\ \A i \in RxIdx : rx_bd[i] = "FEMPTY"
  BY <1>0 DEF AtRest
<1>q. /\ \A i \in TxIdx : tx_pkts[i] = NULL /\ tx_bd[i] = "EEMPTY"
      /\ hw.opc = "CONFIG" /\ pc["intr"] = "idle" /\ ient = "off"
  BY <1>0 DEF RunInv, QuietInv
<1>n. NextTx(0) # 0
  BY DistFar, ZeroIdx
<1> SUFFICES /\ tx_pidx' = 0 /\ tx_cidx' = 0 /\ hw'.txcur = 0
             /\ \A t \in Threads : pc'[t] \notin {"reap", "reapNull", "full", "kick"}
             /\ pc'["stack"] = "stopReap" => ix'["stack"].reap = 0
             /\ \A i \in RxIdx : rx_bd'[i] = "FEMPTY"
  BY DEF AtRest
<1> USE ThreadFacts DEF RunInv, TypeOK, Goto, tx, rx, intr
<1>1. CASE Aside
  <2>1. rx_bd' = rx_bd
    BY <1>1, <1>q DEF Aside, ravb_dmac_isr_iss, ravb_dmac_isr_queue, process_rx,
       ravb_receive_done, ravb_receive_error, ravb_receive_frame, ravb_receive_next,
       ravb_error_interrupt, ravb_dmac_enable_interrupt, ravb_mii_callback_up,
       ravb_mii_callback_down, stack_free, dmac_receive, DmaOn
  <2>2. \A t \in Threads : pc'[t] = pc[t] \/ pc'[t] \notin StartLabels
    BY <1>1, AsideFrame DEF Threads
  <2> QED BY <1>r, <2>1, <2>2, <1>1, AsideFrame DEF StartLabels
<1>2. CASE ~flags.running /\ ravb_init_config
  BY <1>2, <1>r DEF ravb_init_config, Regs
<1>3. CASE ravb_stop_flags \/ ravb_stop_clear
  BY <1>3, <1>r DEF ravb_stop_flags, ravb_stop_clear
<1>4. CASE ravb_stop_off
  BY <1>4, <1>r DEF ravb_stop_off, Regs, Locals
<1>5. CASE ravb_stop_reset
  BY <1>5, <1>r DEF ravb_stop_reset
<1>6. CASE ravb_init_operation
  BY <1>6 DEF ravb_init_operation, Flags
<1>7. CASE process_tx \/ process_tx_lock \/ dmac_transmit \/ UNCHANGED vars
  BY <1>7, <1>q, <1>r DEF process_tx, process_tx_lock, dmac_transmit, DmaOn, vars
<1>8. CASE \E m \in Mbufs : if_output(m)
  BY <1>8, <1>r DEF if_output
<1>9. ASSUME NEW t \in Threads,
             \/ ravb_start_top(t) \/ ravb_start_full(t) \/ ravb_start_empty(t)
             \/ ravb_start_drop(t) \/ ravb_start_put(t) \/ ravb_start_kick(t)
      PROVE  AtRest'
  <2>1. UNCHANGED <<tx_pidx, tx_cidx, hw, rx_bd>>
    BY <1>0, <1>9, <1>r DEF ravb_start_top, ravb_start_full, ravb_start_empty, ravb_start_drop,
       ravb_start_put, CanSend, ravb_start_kick
  <2>2. /\ pc' = [pc EXCEPT ![t] = pc'[t]]
        /\ pc'[t] \notin {"reap", "reapNull", "full", "kick", "stopReap"}
        /\ t # "stack" => ix'["stack"] = ix["stack"]
    BY <1>0, <1>9, <1>r, <1>n DEF ravb_start_top, ravb_start_full, ravb_start_empty,
       ravb_start_drop, ravb_start_put, CanSend, ravb_start_kick, ReturnFromStart, AfterStart
  <2>3. \A u \in Threads : pc'[u] \notin {"reap", "reapNull", "full", "kick"}
    BY <1>r, <2>2
  <2>4. pc'["stack"] = "stopReap" => ix'["stack"].reap = 0
    BY <1>r, <2>2
  <2> HIDE DEF RunInv, TypeOK
  <2> QED BY <1>r, <2>1, <2>3, <2>4 DEF AtRest
<1>10. ASSUME NEW t \in Threads,
              ravb_reap_free(t) \/ ravb_reap_null(t) \/ ravb_reap_done(t)
       PROVE  AtRest'
  <2>1. t = "stack" /\ pc[t] = "stopReap" /\ ravb_reap_done(t)
    <3>1. ix[t].reap \in TxIdx
      BY LocalsFields
    <3>2. ~ReapMore(t)
      BY <3>1, <1>q DEF ReapMore
    <3> QED BY <1>10, <1>q, <1>r, <3>2 DEF ravb_reap_free, ravb_reap_null, ravb_reap_done,
              BringUpInv, Threads
  <2> QED BY <2>1, <1>r DEF ravb_reap_done, AfterReap, AtRest
<1> HIDE DEF RunInv, TypeOK
<1> QED BY <1>1, <1>2, <1>3, <1>4, <1>5, <1>6, <1>7, <1>8, <1>9, <1>10, RunSteps
        DEF Bring, AtRest

(* Bringing the interface up, no thread is in ravb_start.                  *)
LEMMA BringAlone ==
  ASSUME RunInv, Bring \/ ravb_init_operation
  PROVE  \A t \in Threads : pc[t] \notin StartLabels /\ pc'[t] \notin StartLabels
<1>1. pc["stack"] \in BringUp \cup {"idle"} /\ pc'["stack"] \in BringUp \cup {"idle"}
  BY ThreadFacts DEF Bring, ravb_init_config, ravb_stop_flags, ravb_stop_off, ravb_stop_clear,
     ravb_stop_reset, ravb_init_operation, Goto, BringUp, RunInv, TypeOK
<1>2. pc'["intr"] = pc["intr"]
  BY ThreadFacts DEF Bring, ravb_init_config, ravb_stop_flags, ravb_stop_off, ravb_stop_clear,
     ravb_stop_reset, ravb_init_operation, Goto, RunInv, TypeOK
<1>3. ~flags.running
  <2>1. CASE Bring
    BY <2>1, BringIsDown
  <2>2. CASE ravb_init_operation
    BY <2>2 DEF ravb_init_operation, RunInv, BringUpInv, BringUp
  <2> QED BY <2>1, <2>2
<1>4. pc["intr"] = "idle"
  BY <1>3 DEF RunInv, QuietInv
<1> QED BY <1>1, <1>2, <1>4 DEF Threads, BringUp, StartLabels

(* No mbuf becomes one of the transmit ring outside ravb_start.            *)
LEMMA AsideOwner ==
  ASSUME RunInv, Aside, NEW m \in Mbufs, owner'[m] = "tx"
  PROVE  owner[m] = "tx"
BY DEF Aside, ravb_dmac_isr_iss, ravb_dmac_isr_queue, process_rx,
   ravb_receive_done, ravb_receive_error, ravb_receive_frame, ravb_receive_next,
   ravb_error_interrupt, ravb_dmac_enable_interrupt, ravb_mii_callback_up,
   ravb_mii_callback_down, stack_free, dmac_receive, m_freem, RunInv, TypeOK

(* What ravb_start and ravb_reap_tx have read stays so until they use it.  *)
LEMMA LocalStep ==
  ASSUME RunInv, AtRest, LocalInv, [RunNext]_vars
  PROVE  LocalInv'
<1>t. TypeOK /\ TypeOK' /\ LockInv
  BY StepType DEF RunInv, Next
<1>b. \A t, u \in Threads : pc[t] \in StartLabels /\ u # t => pc[u] \notin StartLabels
  BY <1>t, BaseFacts
<1>x. \A t \in Threads : ix[t].tx \in TxIdx /\ ix[t].reap \in TxIdx
  BY <1>t, LocalsFields DEF TypeOK
<1>1. CASE Aside
  <2>1. \A t \in Threads : pc'[t] \in StartLabels =>
          pc'[t] = pc[t] /\ ix'[t].tx = ix[t].tx /\ ix'[t].reap = ix[t].reap
    BY <1>1, AsideFrame DEF Threads
  <2>2. UNCHANGED <<tx_bd, tx_pkts, tx_pidx, tx_cidx>>
    BY <1>1, AsideFrame
  <2>3. \A i \in TxIdx : tx_pkts[i] # NULL /\ owner[tx_pkts[i]] # "tx" => owner'[tx_pkts[i]] # "tx"
    BY <1>1, <1>t, AsideOwner DEF TypeOK
  <2> QED BY <1>x, <2>1, <2>2, <2>3 DEF LocalInv, StartLabels
<1>2. CASE Bring \/ ravb_init_operation
  BY <1>2, BringAlone DEF LocalInv, StartLabels
<1>3. CASE process_tx \/ process_tx_lock
  <2>1. UNCHANGED <<tx_bd, tx_pkts, tx_pidx, tx_cidx, owner, ix>>
    BY <1>3 DEF process_tx, process_tx_lock, tx
  <2>2. \A t \in Threads : pc'[t] = pc[t] \/ pc'[t] \in {"error", "txlock", "start"}
    BY <1>3, <1>t DEF process_tx, process_tx_lock, Goto, TypeOK
  <2> QED BY <2>1, <2>2 DEF LocalInv
<1>4. CASE dmac_transmit
  <2>1. UNCHANGED <<tx_pkts, tx_pidx, tx_cidx, owner, ix, pc>>
    BY <1>4 DEF dmac_transmit
  <2>2. \A i \in TxIdx : tx_bd[i] = "FEMPTY" => tx_bd'[i] = "FEMPTY"
    BY <1>4, <1>t, RegsFields DEF dmac_transmit, TypeOK
  <2> QED BY <1>x, <2>1, <2>2 DEF LocalInv
<1>5. ASSUME NEW m \in Mbufs, if_output(m) PROVE LocalInv'
  <2>1. UNCHANGED <<tx_bd, tx_pkts, tx_pidx, tx_cidx, ix>>
    BY <1>5 DEF if_output, tx
  <2>2. \A t \in Threads : pc'[t] = pc[t] \/ pc'[t] = "start"
    BY <1>5, <1>t DEF if_output, Goto, TypeOK
  <2>3. \A n \in Mbufs : owner[n] # "tx" => owner'[n] # "tx"
    BY <1>5, <1>t DEF if_output, TypeOK
  <2> QED BY <1>x, <1>t, <2>1, <2>2, <2>3 DEF LocalInv, TypeOK
<1>6. ASSUME NEW t \in Threads,
             \/ ravb_start_top(t) \/ ravb_start_full(t) \/ ravb_start_empty(t)
             \/ ravb_start_drop(t) \/ ravb_start_kick(t)
      PROVE  LocalInv'
  <2>1. UNCHANGED <<tx_bd, tx_pkts, tx_pidx, tx_cidx>> /\ pc[t] \in StartLabels
    BY <1>6 DEF ravb_start_top, ravb_start_full, ravb_start_empty, ravb_start_drop,
       ravb_start_kick, tx, StartLabels
  <2>2. \A u \in Threads : u # t => pc'[u] = pc[u] /\ pc'[u] \notin StartLabels
    BY <1>6, <1>b, <1>t, <2>1 DEF ravb_start_top, ravb_start_full, ravb_start_empty, ravb_start_drop,
       ravb_start_kick, ReturnFromStart, Goto, TypeOK
  <2>3. /\ pc'[t] \in {"reap", "full", "dequeue"} => ix'[t].tx = tx_pidx
        /\ pc'[t] # "reapNull"
        /\ pc'[t] = "dequeue" => NextTx(tx_pidx) # tx_cidx
    BY <1>6, <1>t DEF ravb_start_top, ravb_start_full, ravb_start_empty, ravb_start_drop,
       ravb_start_kick, ReturnFromStart, AfterStart, Goto, TypeOK, Locals, LocalInv
  <2> QED BY <2>1, <2>2, <2>3 DEF LocalInv, StartLabels
<1>7. ASSUME NEW t \in Threads, ravb_start_put(t) PROVE LocalInv'
  <2>1. pc[t] = "dequeue" /\ pc' = [pc EXCEPT ![t] = "kick"]
    BY <1>7 DEF ravb_start_put, Goto
  <2>2. \A u \in Threads : pc'[u] \notin {"reap", "reapNull", "full", "dequeue"}
    BY <1>b, <1>t, <2>1 DEF StartLabels, TypeOK
  <2> QED BY <2>2 DEF LocalInv
<1>8. ASSUME NEW t \in Threads, ravb_reap_free(t) PROVE LocalInv'
  <2>1. /\ ix[t].reap # tx_pidx /\ tx_bd[ix[t].reap] = "FEMPTY"
        /\ UNCHANGED <<tx_bd, tx_pkts, tx_pidx, tx_cidx, ix>>
    BY <1>8 DEF ravb_reap_free, ReapMore, tx
  <2>2. pc[t] = "reap" /\ pc' = [pc EXCEPT ![t] = "reapNull"]
    BY <1>8, <2>1, <1>x DEF ravb_reap_free, Goto, RunInv, QuietInv, BringUpInv, BringUp, Threads
  <2>3. tx_pkts[ix[t].reap] # NULL => owner'[tx_pkts[ix[t].reap]] # "tx"
    BY <1>8, <1>t, <1>x DEF ravb_reap_free, m_freem, TypeOK
  <2>4. \A u \in Threads : u # t => pc'[u] = pc[u] /\ pc'[u] \notin StartLabels
    BY <1>b, <1>t, <2>2 DEF StartLabels, TypeOK
  <2>5. ix[t].tx = tx_pidx /\ pc'[t] = "reapNull"
    BY <1>t, <2>2 DEF LocalInv, TypeOK
  <2> QED BY <2>1, <2>3, <2>4, <2>5 DEF LocalInv, StartLabels
<1>9. ASSUME NEW t \in Threads, ravb_reap_null(t) PROVE LocalInv'
  <2>1. pc[t] = "reapNull" /\ pc' = [pc EXCEPT ![t] = "reap"]
    BY <1>9 DEF ravb_reap_null, Goto, RunInv, BringUpInv, BringUp, Threads
  <2>2. ix'[t].tx = ix[t].tx /\ tx_pidx' = tx_pidx
    BY <1>9, <1>t DEF ravb_reap_null, TypeOK, Locals
  <2>3. \A u \in Threads : u # t => pc'[u] \notin StartLabels
    BY <1>b, <1>t, <2>1 DEF StartLabels, TypeOK
  <2>4. ix[t].tx = tx_pidx /\ pc'[t] = "reap"
    BY <1>t, <2>1 DEF LocalInv, TypeOK
  <2> QED BY <2>2, <2>3, <2>4 DEF LocalInv, StartLabels
<1>10. ASSUME NEW t \in Threads, ravb_reap_done(t) PROVE LocalInv'
  <2>0. pc[t] \in {"reap", "stopReap"}
        /\ pc' = [pc EXCEPT ![t] = IF pc[t] = "stopReap" THEN "stopClear" ELSE "full"]
    BY <1>10 DEF ravb_reap_done, AfterReap, Goto
  <2>1. CASE pc[t] = "reap"
    <3>1. ix'[t].tx = ix[t].tx /\ tx_pidx' = tx_pidx
      BY <1>10, <1>t DEF ravb_reap_done, TypeOK, Locals
    <3>2. \A u \in Threads : u # t => pc'[u] \notin StartLabels
      BY <1>b, <1>t, <2>0, <2>1 DEF StartLabels, TypeOK
    <3>3. ix[t].tx = tx_pidx /\ pc'[t] = "full"
      BY <1>t, <2>0, <2>1 DEF LocalInv, TypeOK
    <3> QED BY <3>1, <3>2, <3>3 DEF LocalInv, StartLabels
  <2>2. CASE pc[t] = "stopReap"
    <3>1. t = "stack" /\ ~flags.running
      BY <2>2 DEF RunInv, BringUpInv, BringUp, Threads
    <3>2. pc["intr"] = "idle"
      BY <3>1 DEF RunInv, QuietInv
    <3>3. \A u \in Threads : pc'[u] \in {"idle", "stopClear"}
      BY <1>t, <2>0, <2>2, <3>1, <3>2 DEF Threads, TypeOK
    <3> QED BY <3>3 DEF LocalInv
  <2> QED BY <2>0, <2>1, <2>2
<1>11. CASE UNCHANGED vars
  BY <1>11 DEF vars, tx, LocalInv
<1> QED BY <1>1, <1>2, <1>3, <1>4, <1>5, <1>6, <1>7, <1>8, <1>9, <1>10, <1>11, RunSteps

(* Nothing but filling, sending and reaping a descriptor changes the ring. *)
LEMMA RingSame ==
  ASSUME RingInv, UNCHANGED <<tx_pkts, tx_bd, tx_pidx>>, hw'.txcur = hw.txcur, Base' = Base
  PROVE  RingInv'
BY DEF RingInv, Ring

(* Every step keeps the packets between the consumer and the producer      *)
(* index.                                                                  *)
LEMMA RingStep ==
  ASSUME RunInv, RunInv', AtRest, AtRest', LocalInv, RingInv, [RunNext]_vars
  PROVE  RingInv'
<1>t. TypeOK /\ TypeOK' /\ LockInv /\ LockInv'
  BY DEF RunInv
<1>b. /\ Base \in TxIdx
      /\ \A t \in Threads : Reaping(t) => Base = ix[t].reap
      /\ (\A t \in Threads : ~Reaping(t)) => Base = tx_cidx
      /\ \A t, u \in Threads : pc[t] \in StartLabels /\ u # t => pc[u] \notin StartLabels
  BY <1>t, BaseFacts
<1>c. /\ Base' \in TxIdx
      /\ \A t \in Threads : Reaping(t)' => Base' = ix'[t].reap
      /\ (\A t \in Threads : ~Reaping(t)') => Base' = tx_cidx'
      /\ \A t, u \in Threads : pc'[t] \in StartLabels /\ u # t => pc'[u] \notin StartLabels
  <2>1. \A t, u \in Threads : pc'[t] \in StartLabels /\ u # t => pc'[u] \notin StartLabels
    BY <1>t DEF LockInv
  <2>2. ix'["stack"].reap \in TxIdx /\ ix'["intr"].reap \in TxIdx /\ tx_cidx' \in TxIdx
    BY <1>t, LocalsFields, ThreadFacts DEF TypeOK
  <2> QED BY <2>1, <2>2, ThreadFacts DEF Base, Reaping, StartLabels, Threads
<1>x. \A t \in Threads : ix[t].tx \in TxIdx /\ ix[t].reap \in TxIdx
  BY <1>t, LocalsFields DEF TypeOK
<1>y. /\ tx_pkts \in [TxIdx -> Mbufs \cup {NULL}] /\ tx_bd \in [TxIdx -> TxTypes]
      /\ tx_pidx \in TxIdx /\ hw.txcur \in TxIdx
  BY <1>t, RegsFields DEF TypeOK
<1>0. CASE ~flags'.running
  <2>1. tx_pidx' = 0 /\ tx_cidx' = 0 /\ hw'.txcur = 0 /\ Base' = 0
    BY <1>0, <1>c DEF AtRest, Reaping
  <2>2. \A i \in TxIdx : tx_pkts'[i] = NULL /\ tx_bd'[i] = "EEMPTY"
    BY <1>0 DEF RunInv, QuietInv
  <2> QED BY <2>1, <2>2, RingUnused, ZeroIdx DEF RingInv
<1>1. CASE Aside
  <2>1. Base' = Base
    BY <1>1, AsideFrame, <1>t DEF Base, Reaping, StartLabels
  <2> QED BY <1>1, <2>1, AsideFrame, RingSame
<1>2. CASE Bring
  BY <1>0, <1>2, BringIsDown
<1>3. CASE ravb_init_operation
  <2>1. ~flags.running
    BY <1>3 DEF ravb_init_operation, RunInv, BringUpInv, BringUp
  <2>2. hw'.txcur = 0 /\ UNCHANGED <<tx_pkts, tx_bd, tx_pidx, tx_cidx>>
    BY <1>3, <1>t DEF ravb_init_operation, tx, TypeOK, Regs
  <2>3. \A t \in Threads : ~Reaping(t)'
    BY <1>3, BringAlone DEF Reaping, StartLabels
  <2>4. tx_pidx' = 0 /\ Base' = 0
    BY <1>c, <2>1, <2>2, <2>3 DEF AtRest
  <2>5. \A i \in TxIdx : tx_pkts'[i] = NULL /\ tx_bd'[i] = "EEMPTY"
    BY <2>1, <2>2 DEF RunInv, QuietInv
  <2> QED BY <2>2, <2>4, <2>5, RingUnused, ZeroIdx DEF RingInv
<1>4. CASE process_tx \/ process_tx_lock
  <2>1. UNCHANGED <<tx_pkts, tx_bd, tx_pidx, tx_cidx, ix>> /\ hw'.txcur = hw.txcur
    BY <1>4, <1>t DEF process_tx, process_tx_lock, tx, TypeOK, Regs
  <2>2. \A t \in Threads : Reaping(t)' <=> Reaping(t)
    BY <1>4, <1>t DEF process_tx, process_tx_lock, Goto, TypeOK, Reaping
  <2>3. Base' = Base
    BY <2>1, <2>2, ThreadFacts DEF Base
  <2> QED BY <2>1, <2>3, RingSame
<1>5. ASSUME NEW m \in Mbufs, if_output(m) PROVE RingInv'
  <2>1. UNCHANGED <<tx_pkts, tx_bd, tx_pidx, tx_cidx, ix, hw>>
    BY <1>5 DEF if_output, tx
  <2>2. \A t \in Threads : Reaping(t)' <=> Reaping(t)
    BY <1>5, <1>t DEF if_output, Goto, TypeOK, Reaping
  <2>3. Base' = Base
    BY <2>1, <2>2, ThreadFacts DEF Base
  <2> QED BY <2>1, <2>3, RingSame
<1>6. ASSUME NEW t \in Threads,
             \/ ravb_start_top(t) \/ ravb_start_full(t) \/ ravb_start_empty(t)
             \/ ravb_start_drop(t) \/ ravb_start_kick(t)
      PROVE  RingInv'
  <2>1. UNCHANGED <<tx_pkts, tx_bd, tx_pidx, tx_cidx>> /\ hw'.txcur = hw.txcur
    BY <1>6, <1>t DEF ravb_start_top, ravb_start_full, ravb_start_empty, ravb_start_drop,
       ravb_start_kick, tx, TypeOK, Regs
  <2>2. pc[t] \in StartLabels /\ ~Reaping(t)
    BY <1>6 DEF ravb_start_top, ravb_start_full, ravb_start_empty, ravb_start_drop,
       ravb_start_kick, StartLabels, Reaping
  <2>3. Base = tx_cidx
    BY <1>b, <2>2 DEF Reaping, StartLabels
  <2>4. Reaping(t)' => ix'[t].reap = tx_cidx
    BY <1>6, <1>t DEF ravb_start_top, ravb_start_full, ravb_start_empty, ravb_start_drop,
       ravb_start_kick, ReturnFromStart, AfterStart, Goto, Reaping, TypeOK, Locals
  <2>5. \A u \in Threads : u # t => ~Reaping(u)'
    BY <1>6, <1>b, <1>t, <2>2 DEF ravb_start_top, ravb_start_full, ravb_start_empty,
       ravb_start_drop, ravb_start_kick, ReturnFromStart, Goto, Reaping, TypeOK, StartLabels
  <2>6. Base' = tx_cidx
    BY <1>c, <2>1, <2>4, <2>5
  <2> QED BY <2>1, <2>3, <2>6, RingSame
<1>7. ASSUME NEW t \in Threads, ravb_start_put(t) PROVE RingInv'
  <2>1. pc[t] = "dequeue" /\ pc' = [pc EXCEPT ![t] = "kick"] /\ snd # <<>>
        /\ UNCHANGED <<tx_cidx, hw>>
    BY <1>7 DEF ravb_start_put, Goto
  <2>2. ix[t].tx = tx_pidx /\ NextTx(tx_pidx) # tx_cidx
    BY <2>1 DEF LocalInv
  <2>3. Base = tx_cidx /\ Base' = tx_cidx
    <3>1. \A u \in Threads : ~Reaping(u) /\ ~Reaping(u)'
      BY <1>b, <1>t, <2>1 DEF Reaping, StartLabels, TypeOK
    <3> QED BY <1>b, <1>c, <2>1, <3>1
  <2>4. Head(snd) \in Mbufs
    BY <1>t, <2>1 DEF TypeOK
  <2>5. PICK m \in Mbufs : tx_pkts' = [tx_pkts EXCEPT ![tx_pidx] = m]
    BY <1>7, <2>2, <2>4 DEF ravb_start_put
  <2>6. tx_bd' = [tx_bd EXCEPT ![tx_pidx] = "FSINGLE"] /\ tx_pidx' = NextTx(tx_pidx)
    BY <1>7, <2>2 DEF ravb_start_put
  <2>7. Ring([tx_pkts EXCEPT ![tx_pidx] = m], [tx_bd EXCEPT ![tx_pidx] = "FSINGLE"],
             Base, hw.txcur, NextTx(tx_pidx))
    BY <1>b, <1>y, <2>2, <2>3, RingPut DEF RingInv
  <2> QED BY <2>1, <2>3, <2>5, <2>6, <2>7 DEF RingInv
<1>8. ASSUME NEW t \in Threads, ravb_reap_free(t) PROVE RingInv'
  <2>1. UNCHANGED <<tx_pkts, tx_bd, tx_pidx, tx_cidx, ix, hw>>
    BY <1>8 DEF ravb_reap_free, tx
  <2>2. pc'[t] = "reapNull" /\ pc[t] = "reap"
    BY <1>8, <1>t DEF ravb_reap_free, Goto, TypeOK, RunInv, BringUpInv, BringUp, Threads
  <2>3. Base' = Base
    BY <1>b, <1>c, <2>1, <2>2 DEF Reaping
  <2> QED BY <2>1, <2>3, RingSame
<1>9. ASSUME NEW t \in Threads, ravb_reap_null(t) PROVE RingInv'
  <2>1. pc[t] = "reapNull" /\ pc' = [pc EXCEPT ![t] = "reap"]
    BY <1>9 DEF ravb_reap_null, Goto, RunInv, BringUpInv, BringUp, Threads
  <2>2. Base = ix[t].reap /\ Base # tx_pidx /\ tx_bd[Base] = "FEMPTY"
    BY <1>b, <2>1 DEF Reaping, LocalInv
  <2>3. tx_pkts' = [tx_pkts EXCEPT ![Base] = NULL] /\ UNCHANGED <<tx_bd, tx_pidx, hw>>
    BY <1>9, <2>2 DEF ravb_reap_null
  <2>4. ix'[t].reap = NextTx(ix[t].reap) /\ pc'[t] = "reap"
    BY <1>9, <1>t, <2>1 DEF ravb_reap_null, TypeOK, Locals
  <2>5. Base' = NextTx(Base)
    BY <1>c, <2>2, <2>4 DEF Reaping
  <2>6. Ring([tx_pkts EXCEPT ![Base] = NULL], tx_bd, NextTx(Base), hw.txcur, tx_pidx)
    BY <1>b, <1>y, <2>2, RingReap DEF RingInv
  <2> QED BY <2>3, <2>5, <2>6 DEF RingInv
<1>10. ASSUME NEW t \in Threads, ravb_reap_done(t), flags'.running PROVE RingInv'
  <2>1. UNCHANGED <<tx_pkts, tx_bd, tx_pidx, hw, flags>> /\ tx_cidx' = ix[t].reap
    BY <1>10 DEF ravb_reap_done
  <2>2. pc[t] = "reap" /\ pc' = [pc EXCEPT ![t] = "full"]
    BY <1>10, <2>1 DEF ravb_reap_done, AfterReap, Goto, RunInv, BringUpInv, BringUp, Threads
  <2>3. Base = ix[t].reap
    BY <1>b, <2>2 DEF Reaping
  <2>4. \A u \in Threads : ~Reaping(u)'
    BY <1>b, <1>t, <2>2 DEF Reaping, StartLabels, TypeOK
  <2>5. Base' = Base
    BY <1>c, <2>1, <2>3, <2>4
  <2> QED BY <2>1, <2>5, RingSame
<1>11. CASE dmac_transmit
  <2>1. UNCHANGED <<tx_pkts, tx_pidx, tx_cidx, ix, pc>>
    BY <1>11 DEF dmac_transmit
  <2>2. Base' = Base
    BY <2>1 DEF Base, Reaping
  <2>3. CASE tx_bd[hw.txcur] = "FSINGLE"
    <3>1. tx_bd' = [tx_bd EXCEPT ![hw.txcur] = "FEMPTY"] /\ hw'.txcur = NextTx(hw.txcur)
      BY <1>11, <1>t, <2>3 DEF dmac_transmit, TypeOK, Regs
    <3>2. Ring(tx_pkts, [tx_bd EXCEPT ![hw.txcur] = "FEMPTY"], Base, NextTx(hw.txcur), tx_pidx)
      BY <1>b, <1>y, <2>3, RingSend DEF RingInv
    <3> QED BY <2>1, <2>2, <3>1, <3>2 DEF RingInv
  <2>4. CASE tx_bd[hw.txcur] # "FSINGLE"
    <3>1. tx_bd' = tx_bd /\ hw'.txcur = hw.txcur
      BY <1>11, <1>t, <2>4 DEF dmac_transmit, TypeOK, Regs
    <3> QED BY <2>1, <2>2, <3>1, RingSame
  <2> QED BY <2>3, <2>4
<1>12. CASE UNCHANGED vars
  BY <1>12, RingSame DEF vars, tx, Base, Reaping
<1> QED BY <1>0, <1>1, <1>2, <1>3, <1>4, <1>5, <1>6, <1>7, <1>8, <1>9, <1>10, <1>11, <1>12, RunSteps

(* The DMAC is told of every packet.                                       *)
LEMMA KickStep ==
  ASSUME RunInv, RunInv', KickInv, [RunNext]_vars
  PROVE  KickInv'
<1>t. TypeOK /\ TypeOK' /\ hw'.txcur \in TxIdx
  BY RegsFields DEF RunInv, TypeOK
<1>0. CASE ~flags'.running
  BY <1>0, <1>t DEF RunInv, QuietInv, KickInv
<1>1. CASE Aside
  <2>1. \A t \in Threads : pc[t] = "kick" => pc'[t] = "kick"
    BY <1>1, AsideFrame DEF Threads, StartLabels
  <2> QED BY <1>1, <2>1, AsideFrame DEF KickInv
<1>2. CASE Bring
  BY <1>0, <1>2, BringIsDown
<1>3. CASE ravb_init_operation
  <2>1. ~flags.running /\ tx_bd' = tx_bd
    BY <1>3 DEF ravb_init_operation, RunInv, BringUpInv, BringUp, tx
  <2> QED BY <1>t, <2>1 DEF RunInv, QuietInv, KickInv
<1>4. CASE process_tx \/ process_tx_lock \/ (\E m \in Mbufs : if_output(m)) \/ UNCHANGED vars
  <2>1. tx_bd' = tx_bd /\ hw'.txcur = hw.txcur /\ hw'.tsrq0 = hw.tsrq0
    BY <1>4, <1>t DEF process_tx, process_tx_lock, if_output, vars, tx, TypeOK, Regs
  <2>2. \A t \in Threads : pc[t] = "kick" => pc'[t] = "kick"
    BY <1>4, <1>t DEF process_tx, process_tx_lock, if_output, vars, Goto, TypeOK
  <2> QED BY <2>1, <2>2 DEF KickInv
<1>5. CASE dmac_transmit
  BY <1>5, <1>t DEF dmac_transmit, KickInv, TypeOK, Regs
<1>6. ASSUME NEW t \in Threads,
             \/ ravb_start_top(t) \/ ravb_start_full(t) \/ ravb_start_empty(t)
             \/ ravb_start_drop(t) \/ ravb_reap_free(t) \/ ravb_reap_null(t) \/ ravb_reap_done(t)
      PROVE  KickInv'
  <2>1. UNCHANGED <<tx_bd, hw>> /\ pc[t] # "kick"
    BY <1>6 DEF ravb_start_top, ravb_start_full, ravb_start_empty, ravb_start_drop,
       ravb_reap_free, ravb_reap_null, ravb_reap_done, tx
  <2>2. \A u \in Threads : u # t => pc'[u] = pc[u]
    BY <1>6, <1>t DEF ravb_start_top, ravb_start_full, ravb_start_empty, ravb_start_drop,
       ravb_reap_free, ravb_reap_null, ravb_reap_done, ReturnFromStart, Goto, TypeOK
  <2> QED BY <2>1, <2>2 DEF KickInv
<1>7. ASSUME NEW t \in Threads, ravb_start_put(t) \/ ravb_start_kick(t) PROVE KickInv'
  BY <1>7, <1>t DEF ravb_start_put, ravb_start_kick, Goto, KickInv, TypeOK, Regs
<1> QED BY <1>0, <1>1, <1>2, <1>3, <1>4, <1>5, <1>6, <1>7, RunSteps

(* A wake-up that is due stays due until the interrupt thread takes the    *)
(* lock.                                                                   *)
Keeps ==
  \/ Aside \/ process_tx \/ dmac_transmit \/ (\E m \in Mbufs : if_output(m)) \/ UNCHANGED vars
  \/ \E t \in Threads :
       \/ ravb_start_top(t) \/ ravb_start_full(t) \/ ravb_start_empty(t)
       \/ ravb_start_drop(t) \/ ravb_start_kick(t)
       \/ ravb_reap_free(t) \/ ravb_reap_null(t) \/ ravb_reap_done(t)

(* A transmit interrupt that is to come stays to come in the steps that    *)
(* Keeps describes.                                                        *)
LEMMA WakeupKept ==
  ASSUME RunInv, Keeps, Wakeup
  PROVE  Wakeup'
<1>t. TypeOK /\ hw.txcur \in TxIdx
  BY RegsFields DEF RunInv, TypeOK
<1>1. CASE Aside
  BY <1>1, AsideFrame DEF Wakeup
<1>2. CASE process_tx
  BY <1>2, <1>t, ThreadFacts DEF process_tx, Goto, TypeOK, Regs, Wakeup, tx
<1>3. CASE dmac_transmit
  BY <1>3, <1>t DEF dmac_transmit, Wakeup, TypeOK, Regs
<1>4. CASE (\E m \in Mbufs : if_output(m)) \/ UNCHANGED vars
  <2>1. UNCHANGED <<tx_bd, hw>>
    BY <1>4 DEF if_output, vars, tx
  <2>2. pc'["intr"] = pc["intr"]
    BY <1>4, <1>t, ThreadFacts DEF if_output, vars, Goto, TypeOK
  <2> QED BY <2>1, <2>2 DEF Wakeup
<1>5. ASSUME NEW t \in Threads,
             \/ ravb_start_top(t) \/ ravb_start_full(t) \/ ravb_start_empty(t)
             \/ ravb_start_drop(t) \/ ravb_start_kick(t)
             \/ ravb_reap_free(t) \/ ravb_reap_null(t) \/ ravb_reap_done(t)
      PROVE  Wakeup'
  <2>1. UNCHANGED tx_bd /\ hw'.txcur = hw.txcur /\ (hw.tsrq0 => hw'.tsrq0) /\ hw'.tis = hw.tis
    BY <1>5, <1>t DEF ravb_start_top, ravb_start_full, ravb_start_empty, ravb_start_drop,
       ravb_start_kick, ravb_reap_free, ravb_reap_null, ravb_reap_done, tx, TypeOK, Regs
  <2>2. pc[t] # "txlock" /\ \A u \in Threads : u # t => pc'[u] = pc[u]
    BY <1>5, <1>t DEF ravb_start_top, ravb_start_full, ravb_start_empty, ravb_start_drop,
       ravb_start_kick, ravb_reap_free, ravb_reap_null, ravb_reap_done, ReturnFromStart,
       Goto, TypeOK
  <2> QED BY <2>1, <2>2, ThreadFacts DEF Wakeup
<1> QED BY <1>1, <1>2, <1>3, <1>4, <1>5 DEF Keeps

(* ravb_start comes to its second look at the ring from ravb_reap_tx only, *)
(* and while it is there nobody else moves the ring's indices.             *)
LEMMA FullStays ==
  ASSUME RunInv, [RunNext]_vars, NEW t \in Threads, pc'[t] = "full", ~ravb_reap_done(t)
  PROVE  pc[t] = "full" /\ UNCHANGED <<tx_pidx, tx_cidx>> /\ Keeps
<1>t. TypeOK /\ LockInv
  BY DEF RunInv
<1>b. \A v, u \in Threads : pc[v] \in StartLabels /\ u # v => pc[u] \notin StartLabels
  BY <1>t, BaseFacts
<1>1. pc[t] = "full"
  <2>1. CASE Aside
    BY <2>1, AsideFrame DEF StartLabels, Threads
  <2>2. CASE Bring \/ ravb_init_operation
    BY <2>2, BringAlone DEF StartLabels
  <2>3. CASE process_tx \/ process_tx_lock \/ dmac_transmit
             \/ (\E m \in Mbufs : if_output(m)) \/ UNCHANGED vars
    BY <2>3, <1>t DEF process_tx, process_tx_lock, dmac_transmit, if_output, vars, Goto, TypeOK
  <2>4. ASSUME NEW u \in Threads,
               \/ ravb_start_top(u) \/ ravb_start_full(u) \/ ravb_start_empty(u)
               \/ ravb_start_drop(u) \/ ravb_start_put(u) \/ ravb_start_kick(u)
               \/ ravb_reap_free(u) \/ ravb_reap_null(u) \/ ravb_reap_done(u)
        PROVE  pc[t] = "full"
    BY <2>4, <1>t DEF ravb_start_top, ravb_start_full, ravb_start_empty, ravb_start_drop,
       ravb_start_put, ravb_start_kick, ravb_reap_free, ravb_reap_null, ravb_reap_done,
       ReturnFromStart, AfterStart, Goto, TypeOK
  <2> QED BY <2>1, <2>2, <2>3, <2>4, RunSteps
<1>2. ~process_tx_lock /\ ~Bring /\ ~ravb_init_operation
  BY <1>1, <1>t, BringAlone DEF process_tx_lock, LockInv, StartLabels, Threads
<1>3. \A u \in Threads : ~ravb_start_put(u) /\ ~ravb_reap_done(u)
  <2> SUFFICES ASSUME NEW u \in Threads PROVE ~ravb_start_put(u) /\ ~ravb_reap_done(u)
    OBVIOUS
  <2>1. CASE u = t
    BY <1>1, <2>1 DEF ravb_start_put
  <2>2. CASE u # t
    <3>1. ~ravb_start_put(u) /\ pc[u] # "reap"
      BY <1>1, <1>b, <2>2 DEF ravb_start_put, StartLabels
    <3>2. pc[u] # "stopReap"
      <4> SUFFICES ASSUME pc[u] = "stopReap" PROVE FALSE
        OBVIOUS
      <4>1. u = "stack" /\ t = "intr" /\ ~flags.running
        BY <2>2 DEF RunInv, BringUpInv, BringUp, Threads
      <4> QED BY <1>1, <4>1 DEF RunInv, QuietInv
    <3> QED BY <3>1, <3>2 DEF ravb_reap_done
  <2> QED BY <2>1, <2>2
<1>4. UNCHANGED <<tx_pidx, tx_cidx>>
  <2>1. CASE Aside
    BY <2>1, AsideFrame
  <2>2. CASE process_tx \/ dmac_transmit
             \/ (\E m \in Mbufs : if_output(m)) \/ UNCHANGED vars
    BY <2>2 DEF process_tx, dmac_transmit, if_output, vars, tx
  <2>3. ASSUME NEW u \in Threads,
               \/ ravb_start_top(u) \/ ravb_start_full(u) \/ ravb_start_empty(u)
               \/ ravb_start_drop(u) \/ ravb_start_kick(u)
               \/ ravb_reap_free(u) \/ ravb_reap_null(u)
        PROVE  UNCHANGED <<tx_pidx, tx_cidx>>
    BY <2>3 DEF ravb_start_top, ravb_start_full, ravb_start_empty, ravb_start_drop,
       ravb_start_kick, ravb_reap_free, ravb_reap_null, tx
  <2> QED BY <1>2, <1>3, <2>1, <2>2, <2>3, RunSteps
<1>5. Keeps
  BY <1>2, <1>3, RunSteps DEF Keeps
<1> QED BY <1>1, <1>4, <1>5

(* Output that stops for want of descriptors is woken up again.            *)
LEMMA WakeStep ==
  ASSUME RunInv, RunInv', AtRest, LocalInv, RingInv, KickInv, WakeInv, [RunNext]_vars
  PROVE  WakeInv'
<1>t. TypeOK /\ TypeOK' /\ LockInv /\ LockInv'
  BY DEF RunInv
<1>b. /\ Base \in TxIdx
      /\ \A t \in Threads : Reaping(t) => Base = ix[t].reap
      /\ \A t, u \in Threads : pc[t] \in StartLabels /\ u # t => pc[u] \notin StartLabels
  BY <1>t, BaseFacts
<1>y. /\ tx_pkts \in [TxIdx -> Mbufs \cup {NULL}] /\ tx_bd \in [TxIdx -> TxTypes]
      /\ tx_pidx \in TxIdx /\ hw.txcur \in TxIdx
  BY <1>t, RegsFields DEF TypeOK
<1>x. \A t \in Threads : ix[t].reap \in TxIdx
  BY <1>t, LocalsFields DEF TypeOK
<1>1. ASSUME NEW t \in Threads, pc'[t] = "full", NextTx(tx_pidx') = tx_cidx' PROVE Wakeup'
  <2>1. CASE ravb_reap_done(t)
    <3>1. /\ pc[t] = "reap" /\ ~ReapMore(t) /\ tx_cidx' = ix[t].reap
          /\ UNCHANGED <<tx_pidx, tx_bd, hw>>
      BY <1>1, <2>1, <1>t DEF ravb_reap_done, AfterReap, Goto, TypeOK
    <3>2. Base = ix[t].reap /\ NextTx(tx_pidx) = Base
      BY <1>1, <1>b, <3>1 DEF Reaping
    <3>3. Base # tx_pidx
      BY <3>2, <1>y, DistFar
    <3>4. tx_bd[Base] # "FEMPTY"
      BY <3>1, <3>2, <3>3 DEF ReapMore
    <3>5. tx_bd[hw.txcur] = "FSINGLE"
      BY <1>b, <1>y, <3>2, <3>4, RingFull DEF RingInv
    <3>6. \A u \in Threads : pc[u] # "kick"
      BY <1>b, <3>1 DEF StartLabels
    <3>7. hw.tsrq0
      BY <3>5, <3>6 DEF KickInv
    <3> QED BY <3>1, <3>5, <3>7 DEF Wakeup
  <2>2. CASE ~ravb_reap_done(t)
    <3>1. Wakeup
      BY <1>1, <2>2, FullStays DEF WakeInv
    <3> QED BY <1>1, <2>2, <3>1, FullStays, WakeupKept
  <2> QED BY <2>1, <2>2
<1>2. ASSUME lock' = "none", flags'.oactive PROVE NextTx(tx_pidx') = tx_cidx' /\ Wakeup'
  <2>1. CASE \E t \in Threads : ravb_start_full(t)
    <3>1. PICK t \in Threads : ravb_start_full(t)
      BY <2>1
    <3>2. lock = t /\ ix[t].tx = tx_pidx /\ pc[t] = "full"
      BY <3>1, <1>t DEF ravb_start_full, LockInv, StartLabels, LocalInv
    <3>3. NextTx(tx_pidx) = tx_cidx /\ UNCHANGED <<tx_pidx, tx_cidx>>
      BY <1>2, <3>1, <3>2, ThreadFacts DEF ravb_start_full, tx, Threads
    <3>4. pc'["intr"] = "txlock" <=> pc["intr"] = "txlock"
      BY <3>1, <1>t DEF ravb_start_full, ReturnFromStart, AfterStart, Goto, TypeOK, Threads
    <3>5. Wakeup
      BY <3>2, <3>3 DEF WakeInv
    <3>6. UNCHANGED <<tx_bd, hw>>
      BY <3>1 DEF ravb_start_full, tx
    <3> QED BY <3>3, <3>4, <3>5, <3>6 DEF Wakeup
  <2>2. CASE Aside \/ process_tx \/ dmac_transmit \/ (\E m \in Mbufs : if_output(m))
             \/ UNCHANGED vars
    <3>1. lock = "none" /\ flags.oactive /\ UNCHANGED <<tx_pidx, tx_cidx>>
      BY <1>2, <2>2, AsideFrame DEF process_tx, dmac_transmit, if_output, vars, tx
    <3>2. NextTx(tx_pidx) = tx_cidx /\ Wakeup
      BY <3>1 DEF WakeInv
    <3> QED BY <2>2, <3>1, <3>2, WakeupKept DEF Keeps
  <2>3. CASE process_tx_lock
    BY <1>2, <2>3 DEF process_tx_lock
  <2>4. CASE Bring \/ ravb_init_operation \/ \E t \in Threads : ravb_reap_done(t) /\ pc[t] = "stopReap"
    <3>1. lock' = lock /\ flags'.oactive = flags.oactive
      BY <2>4, <1>t DEF Bring, ravb_init_config, ravb_stop_flags, ravb_stop_off, ravb_stop_clear,
         ravb_stop_reset, ravb_init_operation, ravb_reap_done, TypeOK, Flags
    <3>2. NextTx(tx_pidx) = tx_cidx
      BY <1>2, <3>1 DEF WakeInv
    <3>3. ~flags.running
      BY <2>4, BringIsDown DEF ravb_init_operation, RunInv, BringUpInv, BringUp, Threads
    <3>4. tx_pidx = 0 /\ tx_cidx = 0
      BY <3>3 DEF AtRest
    <3> QED BY <3>2, <3>4, DistFar, ZeroIdx
  <2>5. ASSUME NEW t \in Threads,
               \/ ravb_start_top(t) \/ ravb_start_drop(t) \/ ravb_start_put(t)
               \/ ravb_start_kick(t) \/ ravb_reap_free(t) \/ ravb_reap_null(t)
               \/ ravb_reap_done(t) /\ pc[t] # "stopReap"
        PROVE  FALSE
    <3>1. pc[t] \in StartLabels
      BY <2>5, <1>x DEF ravb_start_top, ravb_start_drop, ravb_start_put, ravb_start_kick,
         ravb_reap_free, ravb_reap_null, ravb_reap_done, ReapMore, StartLabels,
         RunInv, QuietInv, BringUpInv, BringUp, Threads
    <3>2. lock' = lock
      BY <2>5 DEF ravb_start_top, ravb_start_drop, ravb_start_put, ravb_start_kick,
         ravb_reap_free, ravb_reap_null, ravb_reap_done
    <3> QED BY <1>2, <1>t, <3>1, <3>2 DEF LockInv, Threads
  <2>6. ASSUME NEW t \in Threads, ravb_start_empty(t) PROVE FALSE
    BY <1>2, <1>t, <2>6 DEF ravb_start_empty, TypeOK, Flags
  <2> QED BY <2>1, <2>2, <2>3, <2>4, <2>5, <2>6, RunSteps
<1> QED BY <1>1, <1>2 DEF WakeInv

(* Nothing the driver holds slips out of the rings: a slot is filled only  *)
(* when it is empty, and emptied only after its mbuf was freed.            *)
LEMMA LeakSame ==
  ASSUME NoLeak, UNCHANGED <<tx_pkts, rx_pkts>>,
         \A m \in Mbufs : owner'[m] \in {"tx", "rx"} => owner'[m] = owner[m]
  PROVE  NoLeak'
BY DEF NoLeak

(* No step loses an mbuf: it goes from one slot or owner to another.       *)
LEMMA LeakStep ==
  ASSUME RunInv, LocalInv, RingInv, NoLeak, [RunNext]_vars
  PROVE  NoLeak'
<1>t. TypeOK /\ LockInv
  BY DEF RunInv
<1>x. \A t \in Threads : ix[t].tx \in TxIdx /\ ix[t].reap \in TxIdx
  BY <1>t, LocalsFields DEF TypeOK
<1>1. CASE Aside /\ ~ravb_receive_frame
  <2>1. UNCHANGED <<tx_pkts, rx_pkts>>
    BY <1>1, AsideFrame DEF Aside, ravb_dmac_isr_iss, ravb_dmac_isr_queue, process_rx,
       ravb_receive_done, ravb_receive_error, ravb_receive_next,
       ravb_error_interrupt, ravb_dmac_enable_interrupt, ravb_mii_callback_up,
       ravb_mii_callback_down, stack_free, dmac_receive, rx
  <2>2. \A m \in Mbufs : owner'[m] \in {"tx", "rx"} => owner'[m] = owner[m]
    BY <1>1, <1>t DEF Aside, ravb_dmac_isr_iss, ravb_dmac_isr_queue, process_rx,
       ravb_receive_done, ravb_receive_error, ravb_receive_next,
       ravb_error_interrupt, ravb_dmac_enable_interrupt, ravb_mii_callback_up,
       ravb_mii_callback_down, stack_free, dmac_receive, m_freem, TypeOK
  <2> QED BY <2>1, <2>2, LeakSame
<1>2. CASE ravb_receive_frame
  <2>1. CASE UNCHANGED <<rx_pkts, owner>>
    BY <1>2, <2>1, LeakSame DEF ravb_receive_frame, tx
  <2>2. ASSUME NEW n \in Mbufs, owner[n] = "pool",
               rx_pkts' = [rx_pkts EXCEPT ![rx_idx] = n],
               owner' = [owner EXCEPT ![n] = "rx", ![rx_pkts[rx_idx]] = "stack"]
        PROVE  NoLeak'
    <3>1. rx_idx \in RxIdx /\ rx_pkts[rx_idx] \in Mbufs /\ UNCHANGED tx_pkts
      BY <1>2, <1>t DEF ravb_receive_frame, tx, TypeOK
    <3>2. \A m \in Mbufs : owner'[m] = "tx" => owner[m] = "tx"
      BY <1>t, <2>2, <3>1 DEF TypeOK
    <3>3. ASSUME NEW m \in Mbufs, owner'[m] = "rx"
          PROVE  \E i \in RxIdx : rx_pkts'[i] = m
      <4>1. CASE m = n
        BY <1>t, <2>2, <3>1, <4>1 DEF TypeOK
      <4>2. CASE m # n
        <5>1. owner[m] = "rx" /\ m # rx_pkts[rx_idx]
          BY <1>t, <2>2, <3>1, <3>3, <4>2 DEF TypeOK
        <5>2. PICK i \in RxIdx : rx_pkts[i] = m
          BY <5>1 DEF NoLeak
        <5>3. i # rx_idx
          BY <5>1, <5>2
        <5> QED BY <1>t, <2>2, <5>2, <5>3 DEF TypeOK
      <4> QED BY <4>1, <4>2
    <3> QED BY <3>1, <3>2, <3>3 DEF NoLeak
  <2> QED BY <1>2, <2>1, <2>2 DEF ravb_receive_frame
<1>3. CASE Bring \/ ravb_init_operation
  <2>1. UNCHANGED <<tx_pkts, rx_pkts>>
    BY <1>3 DEF Bring, ravb_init_config, ravb_stop_flags, ravb_stop_off, ravb_stop_clear,
       ravb_stop_reset, ravb_init_operation, tx, rx
  <2>2. \A m \in Mbufs : owner'[m] \in {"tx", "rx"} => owner'[m] = owner[m]
    BY <1>3, <1>t DEF Bring, ravb_init_config, ravb_stop_flags, ravb_stop_off, ravb_stop_clear,
       ravb_stop_reset, ravb_init_operation, m_freem, TypeOK
  <2> QED BY <2>1, <2>2, LeakSame
<1>4. CASE process_tx \/ process_tx_lock \/ dmac_transmit \/ UNCHANGED vars
  BY <1>4, LeakSame DEF process_tx, process_tx_lock, dmac_transmit, vars, tx, rx
<1>5. ASSUME NEW m \in Mbufs, if_output(m) PROVE NoLeak'
  BY <1>5, <1>t, LeakSame DEF if_output, tx, rx, TypeOK
<1>6. ASSUME NEW t \in Threads,
             \/ ravb_start_top(t) \/ ravb_start_full(t) \/ ravb_start_empty(t)
             \/ ravb_start_drop(t) \/ ravb_start_kick(t)
             \/ ravb_reap_free(t) \/ ravb_reap_done(t)
      PROVE  NoLeak'
  <2>1. UNCHANGED <<tx_pkts, rx_pkts>>
    BY <1>6 DEF ravb_start_top, ravb_start_full, ravb_start_empty, ravb_start_drop,
       ravb_start_kick, ravb_reap_free, ravb_reap_done, tx, rx
  <2>2. \A m \in Mbufs : owner'[m] \in {"tx", "rx"} => owner'[m] = owner[m]
    BY <1>6, <1>t DEF ravb_start_top, ravb_start_full, ravb_start_empty, ravb_start_drop,
       ravb_start_kick, ravb_reap_free, ravb_reap_done, m_freem, TypeOK
  <2> QED BY <2>1, <2>2, LeakSame
<1>7. ASSUME NEW t \in Threads, ravb_reap_null(t) PROVE NoLeak'
  <2>1. pc[t] = "reapNull"
    BY <1>7 DEF ravb_reap_null, RunInv, BringUpInv, BringUp, Threads
  <2>2. /\ tx_pkts' = [tx_pkts EXCEPT ![ix[t].reap] = NULL]
        /\ UNCHANGED <<rx_pkts, owner>>
    BY <1>7 DEF ravb_reap_null, rx
  <2>3. ASSUME NEW m \in Mbufs, owner[m] = "tx" PROVE \E i \in TxIdx : tx_pkts'[i] = m
    <3>1. PICK i \in TxIdx : tx_pkts[i] = m
      BY <2>3 DEF NoLeak
    <3>2. i # ix[t].reap
      BY <2>1, <2>3, <3>1, PoolAssumption DEF LocalInv
    <3> QED BY <1>t, <2>2, <3>1, <3>2 DEF TypeOK
  <2> QED BY <2>2, <2>3 DEF NoLeak
<1>8. ASSUME NEW t \in Threads, ravb_start_put(t) PROVE NoLeak'
  <2>1. pc[t] = "dequeue" /\ ix[t].tx = tx_pidx /\ NextTx(tx_pidx) # tx_cidx
    BY <1>8 DEF ravb_start_put, LocalInv
  <2>2. PICK n \in Mbufs :
          /\ tx_pkts' = [tx_pkts EXCEPT ![ix[t].tx] = n]
          /\ owner'[n] = "tx"
          /\ \A m \in Mbufs : m # n /\ owner'[m] \in {"tx", "rx"} => owner'[m] = owner[m]
    <3>1. Head(snd) \in Mbufs
      BY <1>8, <1>t DEF ravb_start_put, TypeOK
    <3>2. CASE /\ tx_pkts' = [tx_pkts EXCEPT ![ix[t].tx] = Head(snd)]
               /\ owner' = [owner EXCEPT ![Head(snd)] = "tx"]
      BY <1>t, <3>1, <3>2 DEF TypeOK
    <3>3. ASSUME NEW n \in Mbufs, owner[n] = "pool",
                 tx_pkts' = [tx_pkts EXCEPT ![ix[t].tx] = n],
                 owner' = [owner EXCEPT ![n] = "tx", ![Head(snd)] = "pool"]
          PROVE  /\ owner'[n] = "tx"
                 /\ \A m \in Mbufs : m # n /\ owner'[m] \in {"tx", "rx"} => owner'[m] = owner[m]
      <4>1. owner[Head(snd)] = "snd"
        BY <1>8, <1>t DEF ravb_start_put, RunInv, SndInv, TypeOK
      <4> QED BY <1>t, <3>1, <3>3, <4>1 DEF TypeOK
    <3> QED BY <1>8, <3>2, <3>3 DEF ravb_start_put
  <2>3. Base = tx_cidx
    BY <1>t, <2>1, BaseFacts DEF Reaping, StartLabels
  <2>4. tx_pkts[tx_pidx] = NULL
    <3>1. hw.txcur \in TxIdx
      BY <1>t, RegsFields DEF TypeOK
    <3>2. Ring(tx_pkts, tx_bd, tx_cidx, hw.txcur, tx_pidx)
      BY <2>3 DEF RingInv
    <3> QED BY <1>t, <2>1, <3>1, <3>2, RingPut DEF TypeOK
  <2>5. UNCHANGED rx_pkts
    BY <1>8 DEF ravb_start_put, rx
  <2>6. ASSUME NEW m \in Mbufs, owner'[m] = "tx" PROVE \E i \in TxIdx : tx_pkts'[i] = m
    <3>1. CASE m = n
      BY <1>t, <1>x, <2>2, <3>1 DEF TypeOK
    <3>2. CASE m # n
      <4>1. PICK i \in TxIdx : tx_pkts[i] = m
        BY <2>2, <2>6, <3>2 DEF NoLeak
      <4>2. i # ix[t].tx
        BY <2>1, <2>4, <4>1, PoolAssumption
      <4> QED BY <1>t, <2>2, <4>1, <4>2 DEF TypeOK
    <3> QED BY <3>1, <3>2
  <2> QED BY <2>2, <2>5, <2>6 DEF NoLeak
<1> QED BY <1>1, <1>2, <1>3, <1>4, <1>5, <1>6, <1>7, <1>8, RunSteps

(* No received frame is left behind without an interrupt to come.          *)
LEMMA StrandSame ==
  ASSUME NoStrandedFrame, UNCHANGED <<rx_bd, rx_idx>>, hw'.ris0 = hw.ris0,
         pc["intr"] \in {"recv", "recvNext"} => pc'["intr"] \in {"recv", "recvNext"}
  PROVE  NoStrandedFrame'
BY DEF NoStrandedFrame

(* No step leaves a received frame without the receive status raised.      *)
LEMMA StrandStep ==
  ASSUME RunInv, AtRest, NoStrandedFrame, [RunNext]_vars
  PROVE  NoStrandedFrame'
<1>t. TypeOK /\ hw.rxcur \in RxIdx /\ rx_idx \in RxIdx
  BY RegsFields DEF RunInv, TypeOK
<1>1. CASE ravb_dmac_isr_iss \/ ravb_dmac_isr_queue \/ ravb_error_interrupt
           \/ ravb_dmac_enable_interrupt \/ ravb_mii_callback_up \/ ravb_mii_callback_down
           \/ \E m \in Mbufs : stack_free(m)
  <2>1. UNCHANGED <<rx_bd, rx_idx>> /\ hw'.ris0 = hw.ris0
    BY <1>1, <1>t DEF ravb_dmac_isr_iss, ravb_dmac_isr_queue, ravb_error_interrupt,
       ravb_dmac_enable_interrupt, ravb_mii_callback_up, ravb_mii_callback_down, stack_free, rx,
       TypeOK, Regs
  <2>2. pc'["intr"] = pc["intr"] \/ pc["intr"] \in {"error", "enable"}
    BY <1>1 DEF ravb_dmac_isr_iss, ravb_dmac_isr_queue, ravb_error_interrupt,
       ravb_dmac_enable_interrupt, ravb_mii_callback_up, ravb_mii_callback_down, stack_free
  <2> QED BY <2>1, <2>2, StrandSame
<1>2. CASE process_rx
  <2>1. UNCHANGED <<rx_bd, rx_idx>> /\ pc["intr"] = "idle"
    BY <1>2 DEF process_rx, rx
  <2>2. pc'["intr"] = "recv" \/ hw' = hw
    BY <1>2, <1>t, ThreadFacts DEF process_rx, Goto, TypeOK
  <2> QED BY <2>1, <2>2 DEF NoStrandedFrame
<1>3. CASE ravb_receive_done
  BY <1>3 DEF ravb_receive_done, NoStrandedFrame, rx
<1>4. CASE ravb_receive_error \/ ravb_receive_frame \/ ravb_receive_next
  <2>1. pc'["intr"] \in {"recv", "recvNext"}
    BY <1>4, <1>t, ThreadFacts DEF ravb_receive_error, ravb_receive_frame, ravb_receive_next,
       Goto, TypeOK
  <2> QED BY <2>1 DEF NoStrandedFrame
<1>5. CASE dmac_receive
  <2>1. UNCHANGED <<rx_idx, pc>>
    BY <1>5 DEF dmac_receive
  <2>2. CASE rx_bd[hw.rxcur] = "FEMPTY"
    <3>1. hw'.ris0
      BY <1>5, <1>t, <2>2 DEF dmac_receive, TypeOK, Regs
    <3> QED BY <3>1 DEF NoStrandedFrame
  <2>3. CASE rx_bd[hw.rxcur] # "FEMPTY"
    <3>1. UNCHANGED rx_bd /\ hw'.ris0 = hw.ris0
      BY <1>5, <1>t, <2>3 DEF dmac_receive, TypeOK, Regs
    <3> QED BY <2>1, <3>1, StrandSame
  <2> QED BY <2>2, <2>3
<1>6. CASE Bring
  <2>1. ~flags.running /\ rx_bd' = rx_bd
    BY <1>6, BringIsDown DEF Bring, ravb_init_config, ravb_stop_flags, ravb_stop_off,
       ravb_stop_clear, ravb_stop_reset, rx
  <2>2. rx_idx' \in RxIdx
    BY <1>6, <1>t, ZeroIdx DEF Bring, ravb_init_config, ravb_stop_flags, ravb_stop_off,
       ravb_stop_clear, ravb_stop_reset, rx
  <2> QED BY <2>1, <2>2 DEF AtRest, NoStrandedFrame
<1>7. CASE ravb_init_operation \/ process_tx \/ process_tx_lock \/ dmac_transmit
           \/ (\E m \in Mbufs : if_output(m)) \/ UNCHANGED vars
  <2>1. UNCHANGED <<rx_bd, rx_idx>> /\ hw'.ris0 = hw.ris0
    BY <1>7, <1>t DEF ravb_init_operation, process_tx, process_tx_lock, dmac_transmit, if_output,
       vars, rx, TypeOK, Regs
  <2>2. pc'["intr"] = pc["intr"] \/ pc["intr"] \in {"process_tx", "txlock"}
    BY <1>7, <1>t, ThreadFacts DEF ravb_init_operation, process_tx, process_tx_lock,
       dmac_transmit, if_output, vars, Goto, TypeOK
  <2> QED BY <2>1, <2>2, StrandSame
<1>8. ASSUME NEW t \in Threads,
             \/ ravb_start_top(t) \/ ravb_start_full(t) \/ ravb_start_empty(t)
             \/ ravb_start_drop(t) \/ ravb_start_put(t) \/ ravb_start_kick(t)
             \/ ravb_reap_free(t) \/ ravb_reap_null(t) \/ ravb_reap_done(t)
      PROVE  NoStrandedFrame'
  <2>1. UNCHANGED <<rx_bd, rx_idx>>
    BY <1>8 DEF ravb_start_top, ravb_start_full, ravb_start_empty, ravb_start_drop,
       ravb_start_put, ravb_start_kick, ravb_reap_free, ravb_reap_null, ravb_reap_done, rx
  <2>2. hw'.ris0 = hw.ris0
    BY <1>8, <1>t DEF ravb_start_top, ravb_start_full, ravb_start_empty, ravb_start_drop,
       ravb_start_put, ravb_start_kick, ravb_reap_free, ravb_reap_null, ravb_reap_done,
       TypeOK, Regs
  <2>3. pc[t] \notin {"recv", "recvNext"} /\ \A u \in Threads : u # t => pc'[u] = pc[u]
    BY <1>8, <1>t DEF ravb_start_top, ravb_start_full, ravb_start_empty, ravb_start_drop,
       ravb_start_put, ravb_start_kick, ravb_reap_free, ravb_reap_null, ravb_reap_done,
       ReturnFromStart, Goto, TypeOK
  <2> QED BY <2>1, <2>2, <2>3, StrandSame, ThreadFacts
<1> QED BY <1>1, <1>2, <1>3, <1>4, <1>5, <1>6, <1>7, <1>8, RunSteps DEF Aside

(* Before the interface runs nothing is in a ring and nobody holds a lock. *)
LEMMA FullInit == Init => FullInv
<1> SUFFICES ASSUME Init PROVE FullInv
  OBVIOUS
<1>1. \A t \in Threads : pc[t] = "idle"
  BY DEF Init
<1>2. Base = 0 /\ hw.txcur = 0 /\ tx_pidx = 0
  BY <1>1, ThreadFacts DEF Init, Base, Reaping
<1>3. RingInv
  BY <1>2, RingUnused, ZeroIdx DEF Init, RingInv
<1>4. LocalInv /\ AtRest
  BY <1>1, <1>2, ThreadFacts DEF Init, LocalInv, AtRest
<1>5. KickInv /\ WakeInv
  BY <1>1, <1>2, ZeroIdx DEF Init, KickInv, WakeInv
<1>6. NoLeak /\ NoStrandedFrame
  BY ZeroIdx DEF Init, NoLeak, NoStrandedFrame
<1> QED BY <1>3, <1>4, <1>5, <1>6 DEF FullInv

(* In steady operation the transmit ring is in order, its users have a     *)
(* true picture of it, and neither a wake-up nor a packet is lost.         *)
THEOREM RingInvariant == RunSpec => [](RunInv /\ FullInv)
<1>1. Init => RunInv /\ FullInv
  BY RunInvInit, FullInit
<1>2. RunInv /\ FullInv /\ [RunNext]_vars => (RunInv /\ FullInv)'
  <2> SUFFICES ASSUME RunInv, FullInv, [RunNext]_vars PROVE RunInv' /\ FullInv'
    OBVIOUS
  <2>0. RingInv /\ LocalInv /\ AtRest /\ KickInv /\ WakeInv /\ NoLeak /\ NoStrandedFrame
    BY DEF FullInv
  <2>1. RunInv'
    BY RunInvStep
  <2>2. AtRest' /\ LocalInv' /\ NoStrandedFrame' /\ NoLeak'
    BY <2>0, RestStep, LocalStep, StrandStep, LeakStep
  <2>3. RingInv'
    BY <2>0, <2>1, <2>2, RingStep
  <2>4. KickInv' /\ WakeInv'
    BY <2>0, <2>1, KickStep, WakeStep
  <2> QED BY <2>1, <2>2, <2>3, <2>4 DEF FullInv
<1> QED BY <1>1, <1>2, PTL DEF RunSpec

(* Every mbuf the driver holds is in a slot of one of its rings, where     *)
(* ravb_reap_tx, ravb_receive or ravb_cleanup finds it.                    *)
THEOREM NothingLeaks == RunSpec => []NoLeak
<1>1. FullInv => NoLeak
  BY DEF FullInv
<1> QED BY <1>1, RingInvariant, PTL

(* When ravb_start gives up for want of a descriptor, and IFF_OACTIVE      *)
(* keeps io-pkt from calling it again, the transmit interrupt that will    *)
(* call it is still to come.                                               *)
THEOREM OutputIsWoken == RunSpec => []OactiveHasWakeup
<1>1. FullInv => OactiveHasWakeup
  BY DEF FullInv, WakeInv, Wakeup, OactiveHasWakeup
<1> QED BY <1>1, RingInvariant, PTL

(* ravb_receive leaves no frame in the ring without the receive status     *)
(* raised for it.                                                          *)
THEOREM NoFrameIsStranded == RunSpec => []NoStrandedFrame
<1>1. FullInv => NoStrandedFrame
  BY DEF FullInv
<1> QED BY <1>1, RingInvariant, PTL

=============================================================================
