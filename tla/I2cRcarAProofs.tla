--------------------------- MODULE I2cRcarAProofs ---------------------------
(* Machine-checked facts about I2cRcarA, for every transfer length.  They  *)
(* hold on a quiet bus: no NACK, no lost arbitration, and a time-out       *)
(* expires only when the bus is dead.  The runs show why each of these     *)
(* premises is needed.                                                     *)
EXTENDS I2cRcarA, TLAPS

QuietBus == Faults \subseteq {"hang"} /\ Late = FALSE /\ SendAfterHeld = FALSE

(* The three values ICMIER has while a transfer runs.                      *)
Wanted   == IF Sending THEN "MDE" ELSE "MDR"
Full     == Errors \cup {"MST", "MAT", Wanted}
StopOnly == Errors \cup {"MST"}
LastOnly == Errors \cup {"MDT"}

(* Between two transfers the controller stands still: the bus is free, or  *)
(* hung, or held after a send without STOP, and the handler has nothing    *)
(* to do.                                                                  *)
Parked ==
  /\ msr \subseteq {"MDE", "MDT"}
  /\ bus \in {"idle", "hung", "data"}
  /\ "ESG" \notin mcr \/ bus = "hung"
  /\ bus = "data" => "MDE" \in msr
  /\ line.sh = 0

Silent ==
  \/ ier = {}
  \/ bus \in {"idle", "hung"} /\ (~Asserted \/ msr \subseteq {"MDT"})

(* A transfer is being set up: no flag that it will enable is raised.      *)
Prepared ==
  /\ msr \subseteq {"MDE", "MDT"}
  /\ "MDE" \in msr => ~Sending
  /\ status = {}
  /\ Sending => line.full

(* The stages of a transfer: START given; address sent; bytes on their     *)
(* way in one direction or the other.                                      *)
Started ==
  /\ ier = Full /\ msr = {} /\ mcr = {"MIE", "ESG"}
  /\ bus \in {"idle", "data", "addr", "hung"}
  /\ Sending => line.full
  /\ line.sh = 0
  /\ len = 0 => Sending

Addressed ==
  /\ ier = Full /\ msr = {"MAT", Wanted}
  /\ bus = "data"
  /\ Sending => line.full
  /\ line.sh = 0
  /\ len = 0 => Sending

SendMasks ==
  \/ ier = Full /\ mcr = {"MIE"}
  \/ ier = StopOnly /\ mcr = {"MIE", "FSB"} /\ len = 0 /\ req.stop
  \/ ier = LastOnly /\ mcr = {"MIE"} /\ len = 0 /\ ~req.stop

(* The next byte waits in ICTXD, moves, or moves while the next one waits; *)
(* or the last byte of a send without STOP has gone.                       *)
SendData ==
  \/ line.full /\ line.sh = 0 /\ msr \subseteq {"MDT"} /\ ("MDT" \in ier => msr = {})
  \/ /\ ~line.full /\ line.sh # 0 /\ msr \subseteq {"MDT", "MDE"}
     /\ "MDT" \in ier => msr # {"MDT", "MDE"}
     /\ ier = Full => "MDE" \in msr
  \/ line.full /\ line.sh # 0 /\ msr \subseteq {"MDT"} /\ ier = Full
  \/ ~line.full /\ line.sh = 0 /\ msr = {"MDE", "MDT"} /\ ier = LastOnly

SendEnd ==
  /\ line.sh = 0
  /\ \/ bus = "hung" /\ msr \subseteq {"MDE", "MDT"} /\ (~Asserted \/ msr \subseteq {"MDT"})
     \/ bus = "stop" /\ ier = StopOnly /\ msr \subseteq {"MDE", "MDT"}
     \/ bus = "idle" /\ ier = StopOnly /\ "MST" \in msr /\ msr \subseteq {"MDE", "MDT", "MST"}

Sends == Sending /\ SendMasks /\ ((bus = "data" /\ SendData) \/ SendEnd)

Receives ==
  /\ ~Sending
  /\ ier = Full
  /\ mcr = IF req.stop /\ len <= 1 THEN {"MIE", "FSB"} ELSE {"MIE"}
  /\ line.sh = 0
  /\ \/ bus \in {"data", "hung"} /\ msr = {} /\ len > 0
     \/ bus = "data" /\ msr = {"MDR"} /\ len > 0 /\ mcr = {"MIE"}
     \/ bus = "stop" /\ mcr = {"MIE", "FSB"} /\ msr = (IF len > 0 THEN {"MDR"} ELSE {})
     \/ bus = "idle" /\ len = 0 /\ msr = {"MST"}

Running == status = {} /\ (Started \/ Addressed \/ Sends \/ Receives)
Ended   == ier = {} /\ Parked /\ event /\ status = {"DONE"}

(* The stage the controller is in, for each place of the client's thread.  *)
Out   == {"idle", "reset", "poll", "lines", "len", "enable"}
Stage ==
  /\ dev # "up" => pc = "idle"
  /\ line.full => line.txd # 0
  /\ pc \in Out => Parked /\ Silent
  /\ pc \in {"reset", "poll", "lines"} => bus # "data"
  /\ pc \in {"len", "enable", "go"} => Prepared
  /\ pc = "go" => Parked /\ ier = Full
  /\ pc = "wait" => Running \/ Ended
  /\ pc = "len" => buf = (IF Sending THEN 2 ELSE 1)
  /\ pc \in {"enable", "go"} => (len = 0 => Sending)

QuietInv == TypeOK /\ NoOverrun /\ Stage

(* What the assignments to the data registers do to their type.            *)
LEMMA LineUpdate ==
  ASSUME NEW l \in Lines, NEW b \in 0 .. MaxLen, NEW f \in BOOLEAN,
         NEW r \in 0 .. MaxLen + 1
  PROVE  /\ [l EXCEPT !.sh = 0] \in Lines
         /\ [l EXCEPT !.txd = b, !.full = f] \in Lines
         /\ [l EXCEPT !.full = f, !.sh = b] \in Lines
         /\ [l EXCEPT !.sh = 0, !.rx = 0] \in Lines
         /\ [l EXCEPT !.rx = r] \in Lines
         /\ l.txd \in 0 .. MaxLen /\ l.sh \in 0 .. MaxLen /\ l.rx \in 0 .. MaxLen + 1
         /\ l.full \in BOOLEAN
<1>0. 0 \in 0 .. MaxLen /\ 0 \in 0 .. MaxLen + 1
  BY I2cAssumption
<1>1. /\ [l EXCEPT !.sh = 0] \in Lines
      /\ [l EXCEPT !.sh = 0, !.rx = 0] \in Lines
  BY <1>0 DEF Lines
<1>2. /\ [l EXCEPT !.txd = b, !.full = f] \in Lines
      /\ [l EXCEPT !.full = f, !.sh = b] \in Lines
      /\ [l EXCEPT !.rx = r] \in Lines
  BY DEF Lines
<1>3. /\ l.txd \in 0 .. MaxLen /\ l.sh \in 0 .. MaxLen /\ l.rx \in 0 .. MaxLen + 1
      /\ l.full \in BOOLEAN
  BY DEF Lines
<1> QED
  BY <1>1, <1>2, <1>3

(* A history grows by a byte of its own type.                              *)
LEMMA AppendType ==
  ASSUME NEW S, NEW s \in Seq(S), NEW e \in S
  PROVE  Append(s, e) \in Seq(S)
OBVIOUS

(* Histories start empty.                                                  *)
LEMMA EmptyHistory ==
  <<>> \in Seq(1 .. MaxLen) /\ <<>> \in Seq(0 .. MaxLen + 1) /\ NoData \in Lines
<1>1. 0 \in 0 .. MaxLen /\ 0 \in 0 .. MaxLen + 1
  BY I2cAssumption
<1> QED
  BY <1>1 DEF NoData, Lines

(* A byte that is not the last one received raises the count by one, the   *)
(* bytes beyond MaxLen do not.                                             *)
LEMMA RxCount ==
  ASSUME NEW l \in Lines
  PROVE  (IF l.rx > MaxLen THEN l.rx ELSE l.rx + 1) \in 0 .. MaxLen + 1
BY I2cAssumption DEF Lines

(* The state after rcar_i2c_init is well typed and inside the buffer.      *)
LEMMA InitInBuffer == Init => TypeOK /\ NoOverrun
<1> SUFFICES ASSUME Init PROVE TypeOK /\ NoOverrun
  OBVIOUS
<1>1. req \in Requests /\ req.len = 1
  BY DEF Init
<1>2. buf \in 1 .. MaxLen + 1 /\ len \in 0 .. MaxLen /\ NoOverrun
  BY <1>1, I2cAssumption DEF Init, NoOverrun
<1> QED
  BY <1>1, <1>2, EmptyHistory DEF Init, TypeOK, Bits, Labels, Phases, MsrFlags

(* While no transfer is waited for the handler has nothing to do.          *)
LEMMA HandlerSilent ==
  ASSUME Stage, pc # "wait", TypeOK
  PROVE  ~rcar_i2c_intr
<1>1. CASE pc \in Out
  <2>1. ~Asserted \/ msr \subseteq {"MDT"}
    BY <1>1 DEF Stage, Silent, Asserted
  <2>2. msr \subseteq {"MDT"} => msr \cap {"MAT", "MDR", "MST", "MDE", "MNR", "MAL"} = {}
    OBVIOUS
  <2> QED
    BY <2>1, <2>2 DEF rcar_i2c_intr, intr_mat, intr_mdr, intr_mst, intr_mde_byte,
       intr_mde_last, intr_mde_done, intr_mnr, intr_mal, OnMat, OnMdr, OnMst, OnMde,
       AfterMde, AfterMdr, Handler
<1>2. CASE pc = "go"
  <2>1. ~Asserted
    BY <1>2 DEF Stage, Prepared, Asserted, Full, Wanted, Errors
  <2> QED
    BY <2>1 DEF rcar_i2c_intr, intr_mat, intr_mdr, intr_mst, intr_mde_byte,
       intr_mde_last, intr_mde_done, intr_mnr, intr_mal, OnMat, OnMdr, OnMst, OnMde,
       AfterMde, AfterMdr, Handler
<1> QED
  BY <1>1, <1>2 DEF TypeOK, Labels, Out

(* Every step of the client, the handler and the controller keeps the      *)
(* position inside the buffer and every variable in its type.              *)
LEMMA StepInBuffer == QuietInv /\ [Next]_vars => TypeOK' /\ NoOverrun'
<1> SUFFICES ASSUME TypeOK, NoOverrun, Stage, [Next]_vars
             PROVE  TypeOK' /\ NoOverrun'
  BY DEF QuietInv
<1> USE I2cAssumption
<1>l. /\ \A b \in 0 .. MaxLen : [line EXCEPT !.txd = b, !.full = TRUE] \in Lines
      /\ [line EXCEPT !.sh = 0] \in Lines /\ [line EXCEPT !.sh = 0, !.rx = 0] \in Lines
      /\ [line EXCEPT !.full = FALSE, !.sh = line.txd] \in Lines
      /\ [line EXCEPT !.rx = IF @ > MaxLen THEN @ ELSE @ + 1] \in Lines
      /\ line.sh \in 0 .. MaxLen /\ line.rx \in 0 .. MaxLen + 1
  BY LineUpdate, RxCount DEF TypeOK
<1>h. rcar_i2c_intr => pc = "wait"
  BY HandlerSilent
<1>r. /\ req.len \in 1 .. MaxLen /\ buf \in Int /\ len \in Int
      /\ rcar_i2c_intr /\ len > 0 => buf \in 0 .. MaxLen
      /\ rcar_i2c_intr => buf + len = req.len + 1
  BY <1>h DEF TypeOK, NoOverrun, Requests
<1>0. CASE \E r \in Requests : xfer_setup(r)
  <2> PICK r \in Requests : xfer_setup(r)
    BY <1>0
  <2>1. r.len \in 1 .. MaxLen /\ r.dir \in {"send", "recv"}
    BY DEF Requests
  <2>0. 1 \in 0 .. MaxLen /\ line \in Lines
    BY DEF TypeOK
  <2>2. line' \in Lines
    BY <1>l, <2>0, Zenon DEF xfer_setup
  <2>3. buf' \in 1 .. MaxLen + 1 /\ len' \in 0 .. MaxLen /\ NoOverrun'
    BY <2>1 DEF xfer_setup, NoOverrun, TypeOK
  <2> QED
    BY <2>2, <2>3, EmptyHistory DEF xfer_setup, TypeOK, regs, Labels, Phases, MsrFlags
<1>1. CASE xfer_empty
  BY <1>1, <1>l, <1>r DEF xfer_empty, TypeOK, NoOverrun, Requests, thread, data, regs,
     extern, MsrFlags, Bits, Labels, Phases
<1>b. CASE xfer_len
  <2>1. buf = IF Sending THEN 2 ELSE 1
    BY <1>b DEF xfer_len, Stage
  <2>2. len' \in 0 .. MaxLen /\ NoOverrun'
    BY <1>b, <1>r, <2>1 DEF xfer_len, NoOverrun
  <2> QED
    BY <1>b, <2>2 DEF xfer_len, TypeOK, regs, extern, Labels
<1>2. CASE xfer_enable
  BY <1>2, <1>l, <1>r DEF xfer_enable, Errors, Sending, TypeOK, NoOverrun, Requests, thread,
     data, regs, extern, MsrFlags, Bits, Labels, Phases
<1>3. CASE xfer_go
  BY <1>3, <1>l, <1>r DEF xfer_go, TypeOK, NoOverrun, Requests, thread, data, regs, extern,
     MsrFlags, Bits, Labels, Phases
<1>4. CASE wait_event
  BY <1>4, <1>l, <1>r DEF wait_event, TypeOK, NoOverrun, Requests, thread, data, regs,
     extern, MsrFlags, Bits, Labels, Phases
<1>5. CASE wait_timeout
  BY <1>5, <1>l, <1>r DEF wait_timeout, TypeOK, NoOverrun, Requests, thread, data, regs,
     extern, MsrFlags, Bits, Labels, Phases
<1>6. CASE force_stop_skip
  BY <1>6, <1>l, <1>r DEF force_stop_skip, TypeOK, NoOverrun, Requests, thread, data, regs,
     extern, MsrFlags, Bits, Labels, Phases
<1>7. CASE force_stop_fsb
  BY <1>7, <1>l, <1>r DEF force_stop_fsb, TypeOK, NoOverrun, Requests, thread, data, regs,
     extern, MsrFlags, Bits, Labels, Phases
<1>8. CASE force_stop_polled
  BY <1>8, <1>l, <1>r DEF force_stop_polled, TypeOK, NoOverrun, Requests, thread, data,
     regs, extern, MsrFlags, Bits, Labels, Phases
<1>9. CASE rcar_i2c_reset_done
  BY <1>9, <1>l, <1>r DEF rcar_i2c_reset_done, TypeOK, NoOverrun, Requests, thread, data,
     regs, extern, MsrFlags, Bits, Labels, Phases
<1>10. CASE fini_unmap
  BY <1>10, <1>l, <1>r DEF fini_unmap, TypeOK, NoOverrun, Requests, thread, data, regs,
     extern, MsrFlags, Bits, Labels, Phases
<1>11. CASE fini_detach
  BY <1>11, <1>l, <1>r DEF fini_detach, TypeOK, NoOverrun, Requests, thread, data, regs,
     extern, MsrFlags, Bits, Labels, Phases
<1>12. CASE rcar_i2c_init
  BY <1>12, EmptyHistory DEF rcar_i2c_init, TypeOK, NoOverrun, Requests, thread, data, regs,
     extern, MsrFlags, Bits, Labels, Phases
<1>13. CASE intr_mat
  BY <1>13, <1>l, <1>r, <1>h DEF rcar_i2c_intr, intr_mat, Errors, TypeOK, NoOverrun,
     Requests, thread, data, regs, extern, MsrFlags, Bits, Labels, Phases
<1>14. CASE intr_mdr
  <2>1. buf' \in 1 .. MaxLen + 1 /\ len' \in 0 .. MaxLen /\ NoOverrun'
    BY <1>14, <1>r, <1>h DEF rcar_i2c_intr, intr_mdr, OnMdr, TypeOK, NoOverrun, thread
  <2>2. stored' \in Seq(0 .. MaxLen + 1)
    BY <1>14, <1>l, AppendType DEF intr_mdr, TypeOK
  <2>3. /\ msr' \subseteq MsrFlags /\ ier' \subseteq MsrFlags
        /\ mcr' \subseteq {"MIE", "ESG", "FSB"}
        /\ bus' \in Phases /\ line' \in Lines
        /\ status' \subseteq Bits /\ event' \in BOOLEAN
    BY <1>14, <1>l DEF intr_mdr, Finish, TypeOK, MsrFlags, Phases, Bits
  <2> QED
    BY <1>14, <2>1, <2>2, <2>3 DEF intr_mdr, TypeOK, thread
<1>15. CASE intr_mst
  BY <1>15, <1>l, <1>r, <1>h DEF rcar_i2c_intr, intr_mst, Finish, TypeOK, NoOverrun,
     Requests, thread, data, regs, extern, MsrFlags, Bits, Labels, Phases
<1>16. CASE intr_mde_byte
  <2>1. line' \in Lines
    BY <1>16, <1>l, <1>r DEF rcar_i2c_intr, intr_mde_byte
  <2>2. buf' \in 1 .. MaxLen + 1 /\ len' \in 0 .. MaxLen /\ NoOverrun'
    BY <1>16, <1>r, <1>h DEF rcar_i2c_intr, intr_mde_byte, TypeOK, NoOverrun, thread
  <2> QED
    BY <1>16, <2>1, <2>2 DEF intr_mde_byte, TypeOK, thread, MsrFlags
<1>17. CASE intr_mde_last
  BY <1>17, <1>l, <1>r, <1>h DEF rcar_i2c_intr, intr_mde_last, Errors, TypeOK,
     NoOverrun, Requests, thread, data, regs, extern, MsrFlags, Bits, Labels, Phases
<1>18. CASE intr_mde_done
  BY <1>18, <1>l, <1>r, <1>h DEF rcar_i2c_intr, intr_mde_done, TypeOK, NoOverrun,
     Requests, thread, data, regs, extern, MsrFlags, Bits, Labels, Phases
<1>19. CASE intr_mnr
  BY <1>19, <1>l, <1>r, <1>h DEF rcar_i2c_intr, intr_mnr, TypeOK, NoOverrun, Requests,
     thread, data, regs, extern, MsrFlags, Bits, Labels, Phases
<1>20. CASE intr_mal
  BY <1>20, <1>l, <1>r, <1>h DEF rcar_i2c_intr, intr_mal, Finish, TypeOK, NoOverrun,
     Requests, thread, data, regs, extern, MsrFlags, Bits, Labels, Phases
<1>21. CASE hw_start
  BY <1>21, <1>l, <1>r DEF hw_start, TypeOK, NoOverrun, Requests, thread, data, regs,
     extern, MsrFlags, Bits, Labels, Phases
<1>22. CASE hw_address
  BY <1>22, <1>l, <1>r DEF hw_address, Raise, Fault, TypeOK, NoOverrun, Requests, thread,
     data, regs, extern, MsrFlags, Bits, Labels, Phases
<1>23. CASE hw_load
  BY <1>23, <1>l, <1>r DEF hw_load, Raise, TypeOK, NoOverrun, Requests, thread, data, regs,
     extern, MsrFlags, Bits, Labels, Phases
<1>24. CASE hw_shift
  <2>0. line.sh # 0 /\ wire' \in {Append(wire, line.sh), wire}
    BY <1>24, Zenon DEF hw_shift
  <2>a. line.sh \in 0 .. MaxLen
    BY <1>l, Zenon
  <2>1. line.sh \in 1 .. MaxLen
    <3>1. ASSUME NEW x \in 0 .. MaxLen, x # 0 PROVE x \in 1 .. MaxLen
      BY <3>1
    <3> QED
      BY <3>1, <2>0, <2>a, Zenon
  <2>b. wire \in Seq(1 .. MaxLen)
    BY DEF TypeOK
  <2>2. wire' \in Seq(1 .. MaxLen)
    BY <2>0, <2>1, <2>b, AppendType, Zenon
  <2>3. msr' \subseteq MsrFlags /\ bus' \in Phases
    BY <1>24 DEF hw_shift, Raise, Fault, TypeOK, MsrFlags, Phases
  <2> QED
    BY <1>24, <1>l, <2>2, <2>3 DEF hw_shift, TypeOK, NoOverrun, thread, data
<1>25. CASE hw_receive
  BY <1>25, <1>l, <1>r DEF hw_receive, Raise, Fault, TypeOK, NoOverrun, Requests, thread,
     data, regs, extern, MsrFlags, Bits, Labels, Phases
<1>26. CASE hw_stop
  BY <1>26, <1>l, <1>r DEF hw_stop, Raise, TypeOK, NoOverrun, Requests, thread, data, regs,
     extern, MsrFlags, Bits, Labels, Phases
<1>27. CASE hw_resume
  BY <1>27, <1>l, <1>r DEF hw_resume, TypeOK, NoOverrun, Requests, thread, data, regs,
     extern, MsrFlags, Bits, Labels, Phases
<1>s. CASE UNCHANGED vars
  BY <1>s DEF TypeOK, NoOverrun, vars, thread, data, regs, extern
<1> QED
  BY <1>0, <1>1, <1>b, <1>2, <1>3, <1>4, <1>5, <1>6, <1>7, <1>8, <1>9, <1>10, <1>11,
     <1>12, <1>13,
     <1>14, <1>15, <1>16, <1>17, <1>18, <1>19, <1>20, <1>21, <1>22, <1>23, <1>24, <1>25,
     <1>26, <1>27, <1>s
  DEF Next, client, rcar_i2c_intr, hardware


(* The initial state is a parked one.                                      *)
LEMMA InitStage == Init => Stage
<1> SUFFICES ASSUME Init PROVE Stage
  OBVIOUS
<1>1. line.sh = 0 /\ ~line.full
  BY DEF Init, NoData
<1> QED
  BY <1>1 DEF Init, Stage, Out, Parked, Silent

(* Every step takes the controller from one stage to the next.             *)
LEMMA StepStage == QuietBus /\ QuietInv /\ [Next]_vars => Stage'
<1> SUFFICES ASSUME QuietBus, TypeOK, NoOverrun, Stage, [Next]_vars
             PROVE  Stage'
  BY DEF QuietInv
<1>t. /\ req.dir \in {"send", "recv"} /\ req.len \in Nat \ {0} /\ req.stop \in BOOLEAN
      /\ len \in Nat /\ buf \in Nat \ {0} /\ line \in Lines /\ line.full \in BOOLEAN
      /\ pc \in Labels /\ bus \in Phases
  BY I2cAssumption DEF TypeOK, Requests, Lines
<1>0. CASE \E r \in Requests : xfer_setup(r)
  <2> PICK r \in Requests : xfer_setup(r)
    BY <1>0
  <2>1. r.dir \in {"send", "recv"}
    BY DEF Requests
  <2>2. /\ line'.sh = line.sh
        /\ line'.full => line'.txd # 0
        /\ r.dir = "send" => line'.full
    <3>1. CASE r.dir = "send"
      <4>1. line' = [line EXCEPT !.txd = 1, !.full = TRUE]
        BY <3>1 DEF xfer_setup
      <4> QED
        BY <4>1, <1>t DEF Lines
    <3>2. CASE r.dir # "send"
      BY <3>2 DEF xfer_setup, Stage
    <3> QED
      BY <3>1, <3>2
  <2> QED
    BY <1>t, <2>1, <2>2 DEF xfer_setup, QuietBus, Held, Stage, Out, Parked, Silent,
       Prepared, Asserted, Sending, Lines, regs
<1>1. CASE xfer_empty
  BY <1>1, <1>t DEF xfer_empty, Stage, Out, Parked, Silent, Prepared, Asserted, Sending,
     thread, data, regs, extern
<1>2. CASE xfer_len
  BY <1>2, <1>t DEF xfer_len, Stage, Out, Parked, Silent, Prepared, Asserted, Full,
     Wanted, Errors, Sending, Labels, Phases, thread, data, regs, extern
<1>3. CASE xfer_enable
  BY <1>3, <1>t DEF xfer_enable, Stage, Out, Parked, Silent, Prepared, Asserted, Full,
     Wanted, Errors, Sending, Labels, Phases, thread, data, regs, extern
<1>4. CASE xfer_go
  BY <1>4, <1>t DEF xfer_go, Stage, Out, Parked, Silent, Prepared, Asserted, Running,
     Ended, Started, Addressed, Sends, SendMasks, SendData, SendEnd, Receives, Full,
     Wanted, StopOnly, LastOnly, Errors, Sending, Labels, Phases, Lines, thread, data,
     regs, extern
<1>5. CASE wait_event
  BY <1>5, <1>t DEF wait_event, Stage, Out, Parked, Silent, Prepared, Asserted, Running,
     Ended, Started, Addressed, Sends, SendMasks, SendData, SendEnd, Receives, Full,
     Wanted, StopOnly, LastOnly, Errors, Sending, Labels, Phases, thread, data, regs,
     extern
<1>6. CASE wait_timeout
  <2>1. pc = "wait" /\ ~event /\ BusDead
    BY <1>6 DEF wait_timeout, QuietBus
  <2>2. Running
    BY <2>1 DEF Stage, Ended
  <2>3. msr \subseteq {"MDE", "MDT"} /\ bus \in {"hung", "idle"} /\ line.sh = 0
    BY <2>1, <2>2, <1>t DEF BusDead, Quiet, Asserted, Running, Started, Addressed,
       Sends, SendData, SendEnd, Receives, SendMasks, Full, Wanted, StopOnly, LastOnly,
       Errors, Sending
  <2>4. "ESG" \notin mcr \/ bus = "hung"
    BY <2>1, <2>3 DEF BusDead
  <2>5. ~Asserted \/ msr \subseteq {"MDT"}
    BY <2>1, <2>2, <2>3 DEF BusDead, Quiet
  <2> QED
    BY <1>6, <2>1, <2>3, <2>4, <2>5 DEF wait_timeout, Stage, Out, Parked, Silent, Asserted,
       data, regs, extern
<1>7. CASE force_stop_skip
  BY <1>7, <1>t DEF force_stop_skip, Stage, Out, Parked, Silent, Prepared, Asserted,
     Sending, thread, data, regs, extern
<1>8. CASE force_stop_fsb
  BY <1>8, <1>t DEF force_stop_fsb, Stage, Out, Parked, Silent, Prepared, Asserted,
     Sending, Lines, thread, data, regs, extern
<1>9. CASE force_stop_polled
  BY <1>9, <1>t DEF force_stop_polled, Stage, Out, Parked, Silent, Prepared, Asserted,
     Sending, thread, data, regs, extern
<1>10. CASE rcar_i2c_reset_done
  BY <1>10, <1>t DEF rcar_i2c_reset_done, Stage, Out, Parked, Silent, Prepared,
     Asserted, Sending, Lines, thread, data, regs, extern
<1>11. CASE fini_unmap
  BY <1>11, <1>t DEF fini_unmap, Stage, Out, Parked, Silent, Prepared, Asserted,
     Sending, Lines, thread, data, regs, extern
<1>12. CASE fini_detach
  BY <1>12, <1>t DEF fini_detach, Stage, Out, Parked, Silent, Prepared, Asserted,
     Sending, thread, data, regs, extern
<1>13. CASE rcar_i2c_init
  BY <1>13, <1>t DEF rcar_i2c_init, NoData, Stage, Out, Parked, Silent, Prepared,
     Asserted, Sending, Lines, thread, data, regs, extern
<1>14. CASE intr_mat
  BY <1>14, <1>t, HandlerSilent DEF intr_mat, OnMat, Handler, Stage, Out, Parked,
     Silent, Prepared, Asserted, Running, Ended, Started, Addressed, Sends, SendMasks,
     SendData, SendEnd, Receives, Full, Wanted, StopOnly, LastOnly, Errors, Sending,
     Labels, Phases, Lines, thread, data, regs, extern, rcar_i2c_intr
<1>15. CASE intr_mdr
  <2>1. pc = "wait" /\ Running
    BY <1>15, HandlerSilent DEF rcar_i2c_intr, intr_mdr, OnMdr, Handler, Asserted,
       Ended, Stage
  <2>2. Receives /\ status = {}
    BY <1>15, <2>1 DEF intr_mdr, OnMdr, Running, Started, Addressed, Sends, SendData,
       SendEnd, Receives
  <2>3. CASE len = 1 /\ ~req.stop
    <3>1. Ended'
      BY <1>15, <2>3, <1>t DEF intr_mdr, Finish, Ended, Parked, Lines
    <3> QED
      BY <1>15, <2>1, <2>3, <3>1, <1>t DEF intr_mdr, Finish, Stage, Out, thread, Lines
  <2>4. CASE ~(len = 1 /\ ~req.stop)
    <3>0. /\ len' = len - 1 /\ msr' = {} /\ ier' = ier /\ bus' = bus /\ line' = line
          /\ mcr' = (IF len = 2 /\ req.stop THEN {"MIE", "FSB"} ELSE mcr)
          /\ status' = status /\ thread' = thread
      BY <1>15, <2>2, <2>4 DEF intr_mdr, OnMdr, Receives
    <3>a. {"MIE", "FSB"} # {"MIE"} /\ {"MDR"} # {}
      OBVIOUS
    <3>b. "MDR" \in msr /\ len > 0
      BY <1>15 DEF intr_mdr, OnMdr
    <3>1. ASSUME bus = "data", mcr = {"MIE"} PROVE Receives'
      <4>1. len > 1
        BY <3>a, <3>1, <3>b, <2>2, <2>4, <1>t DEF Receives
      <4> QED
        BY <3>0, <3>1, <4>1, <2>2, <1>t DEF Receives, Full, Wanted, Sending, thread
    <3>2. ASSUME bus = "stop", mcr = {"MIE", "FSB"} PROVE Receives'
      <4>1. len = 1 /\ req.stop
        BY <3>a, <3>2, <3>b, <2>2, <1>t DEF Receives
      <4> QED
        BY <3>0, <3>2, <4>1, <2>2, <1>t DEF Receives, Full, Wanted, Sending, thread
    <3>3. Receives'
      BY <3>1, <3>2, <3>b, <2>2 DEF Receives
    <3> QED
      BY <3>0, <3>3, <2>1, <2>2 DEF Stage, Out, Running, thread
  <2> QED
    BY <2>3, <2>4
<1>16. CASE intr_mst
  BY <1>16, <1>t, HandlerSilent DEF intr_mst, OnMst, AfterMdr, Handler, Finish, Stage,
     Out, Parked, Silent, Prepared, Asserted, Running, Ended, Started, Addressed, Sends,
     SendMasks, SendData, SendEnd, Receives, Full, Wanted, StopOnly, LastOnly, Errors,
     Sending, Labels, Phases, Lines, thread, data, regs, extern, rcar_i2c_intr
<1>17. CASE intr_mde_byte
  BY <1>17, <1>t, HandlerSilent DEF intr_mde_byte, OnMde, AfterMdr, Handler, Stage, Out,
     Parked, Silent, Prepared, Asserted, Running, Ended, Started, Addressed, Sends,
     SendMasks, SendData, SendEnd, Receives, Full, Wanted, StopOnly, LastOnly, Errors,
     Sending, Labels, Phases, Lines, thread, data, regs, extern, rcar_i2c_intr
<1>18. CASE intr_mde_last
  <2>1. pc = "wait" /\ Running
    BY <1>18, HandlerSilent DEF rcar_i2c_intr, intr_mde_last, OnMde, AfterMdr, Handler,
       Asserted, Ended, Stage
  <2>2. Sends /\ status = {} /\ msr \subseteq {"MDE", "MDT"}
    BY <1>18, <2>1 DEF intr_mde_last, OnMde, AfterMdr, Running, Started, Addressed,
       Sends, SendData, SendEnd, Receives
  <2>3. bus = "data" /\ ~line.full /\ line.sh # 0 /\ ier = Full /\ mcr = {"MIE"}
    BY <1>18, <2>2 DEF intr_mde_last, OnMde, AfterMdr, Handler, Asserted, Sends,
       SendData, SendEnd, SendMasks, Full, Wanted, StopOnly, LastOnly, Errors, Sending
  <2>4. Sends'
    BY <1>18, <2>2, <2>3 DEF intr_mde_last, Sends, SendMasks, SendData, Full, Wanted,
       StopOnly, LastOnly, Errors, Sending, thread, data, extern
  <2> QED
    BY <1>18, <2>1, <2>2, <2>4 DEF intr_mde_last, Stage, Out, Running, thread, data, extern
<1>19. CASE intr_mde_done
  BY <1>19, <1>t, HandlerSilent DEF intr_mde_done, OnMde, AfterMdr, Handler, Stage, Out,
     Parked, Silent, Prepared, Asserted, Running, Ended, Started, Addressed, Sends,
     SendMasks, SendData, SendEnd, Receives, Full, Wanted, StopOnly, LastOnly, Errors,
     Sending, Labels, Phases, Lines, thread, data, regs, extern, rcar_i2c_intr
<1>20. CASE intr_mnr
  BY <1>20, <1>t, HandlerSilent DEF intr_mnr, AfterMde, AfterMdr, Handler, Stage, Out,
     Parked, Silent, Prepared, Asserted, Running, Ended, Started, Addressed, Sends,
     SendMasks, SendData, SendEnd, Receives, Full, Wanted, StopOnly, LastOnly, Errors,
     Sending, Labels, Phases, Lines, thread, data, regs, extern, rcar_i2c_intr
<1>21. CASE intr_mal
  BY <1>21, <1>t, HandlerSilent DEF intr_mal, AfterMde, AfterMdr, Handler, Finish,
     Stage, Out, Parked, Silent, Prepared, Asserted, Running, Ended, Started, Addressed,
     Sends, SendMasks, SendData, SendEnd, Receives, Full, Wanted, StopOnly, LastOnly,
     Errors, Sending, Labels, Phases, Lines, thread, data, regs, extern, rcar_i2c_intr
<1>22. CASE hw_start
  BY <1>22, <1>t DEF hw_start, Quiet, Waiting, Stage, Out, Parked, Silent, Prepared,
     Asserted, Running, Ended, Started, Addressed, Sends, SendMasks, SendData, SendEnd,
     Receives, Full, Wanted, StopOnly, LastOnly, Errors, Sending, Labels, Phases, Lines,
     thread, data, regs, extern
<1>23. CASE hw_address
  BY <1>23, <1>t DEF hw_address, Quiet, Raise, Fault, QuietBus, Stage, Out, Parked,
     Silent, Prepared, Asserted, Running, Ended, Started, Addressed, Sends, SendMasks,
     SendData, SendEnd, Receives, Full, Wanted, StopOnly, LastOnly, Errors, Sending,
     Labels, Phases, Lines, thread, data, regs, extern
<1>24. CASE hw_load
  <2>1. pc = "wait" /\ Running
    BY <1>24, <1>t DEF hw_load, Waiting, Stage, Out, Parked, Ended, Labels
  <2>2. Sends /\ status = {} /\ bus = "data" /\ msr \subseteq {"MDT"} /\ ("MDT" \in ier => msr = {})
    BY <1>24, <2>1 DEF hw_load, Waiting, Wanted, Running, Started, Addressed, Sends,
       SendData, SendEnd, Receives
  <2>3. line'.sh # 0 /\ ~line'.full
    BY <1>24, <1>t DEF hw_load, Stage, Lines
  <2>4. Sends'
    BY <1>24, <2>2, <2>3 DEF hw_load, Raise, Sends, SendMasks, SendData, Full, Wanted,
       StopOnly, LastOnly, Errors, Sending, thread, data
  <2> QED
    BY <1>24, <2>1, <2>2, <2>3, <2>4 DEF hw_load, Stage, Out, Running, thread, data
<1>25. CASE hw_shift
  <2>1. pc = "wait" /\ Running
    BY <1>25, <1>t DEF hw_shift, Stage, Out, Parked, Ended, Labels
  <2>2. Sends /\ status = {} /\ bus = "data" /\ SendData /\ SendMasks
    BY <1>25, <2>1 DEF hw_shift, Running, Started, Addressed, Sends, SendData, SendEnd,
       Receives
  <2>3. line'.sh = 0 /\ line'.full = line.full /\ line'.txd = line.txd
    BY <1>25, <1>t DEF hw_shift, Lines
  <2>4. CASE bus' = "hung" /\ msr' = msr
    <3>0. ~Asserted \/ msr \subseteq {"MDT"}
      BY <1>25, <2>2 DEF hw_shift, Quiet, SendData
    <3>1. SendEnd'
      BY <1>25, <2>2, <2>3, <2>4, <3>0 DEF hw_shift, SendEnd, SendData, Asserted
    <3>2. Sends'
      BY <1>25, <2>2, <3>1 DEF hw_shift, Sends, SendMasks, Full, Wanted, Sending,
         thread, data
    <3> QED
      BY <1>25, <2>1, <2>2, <2>3, <2>4, <3>2 DEF hw_shift, Stage, Out, Running, thread, data
  <2>5. CASE "FSB" \in mcr /\ bus' = "stop" /\ msr' = msr
    <3>1. Sends'
      BY <1>25, <2>2, <2>3, <2>5 DEF hw_shift, Sends, SendMasks, SendData, SendEnd,
         Full, Wanted, StopOnly, LastOnly, Errors, Sending, thread, data
    <3> QED
      BY <1>25, <2>1, <2>2, <2>3, <2>5, <3>1 DEF hw_shift, Stage, Out, Running, thread, data
  <2>6. CASE /\ "FSB" \notin mcr /\ bus' = bus
             /\ msr' = msr \cup {"MDT"} \cup (IF line.full THEN {} ELSE {"MDE"})
    <3>0. SendData'
      BY <1>25, <2>2, <2>3, <2>6 DEF hw_shift, Quiet, Asserted, Sends, SendMasks, SendData,
         Full, Wanted, StopOnly, LastOnly, Errors, Sending, thread, data
    <3>1. Sends'
      BY <1>25, <2>2, <2>6, <3>0 DEF hw_shift, Sends, SendMasks, Full, Wanted, Sending,
         thread, data
    <3> QED
      BY <1>25, <2>1, <2>2, <2>3, <2>6, <3>1 DEF hw_shift, Stage, Out, Running, thread, data
  <2> QED
    BY <1>25, <2>4, <2>5, <2>6 DEF hw_shift, Raise, Fault, QuietBus
<1>26. CASE hw_receive
  BY <1>26, <1>t DEF hw_receive, Quiet, Raise, Fault, Waiting, QuietBus, Stage, Out,
     Parked, Silent, Prepared, Asserted, Running, Ended, Started, Addressed, Sends,
     SendMasks, SendData, SendEnd, Receives, Full, Wanted, StopOnly, LastOnly, Errors,
     Sending, Labels, Phases, Lines, thread, data, regs, extern
<1>27. CASE hw_stop
  BY <1>27, <1>t DEF hw_stop, Quiet, Raise, Stage, Out, Parked, Silent, Prepared,
     Asserted, Running, Ended, Started, Addressed, Sends, SendMasks, SendData, SendEnd,
     Receives, Full, Wanted, StopOnly, LastOnly, Errors, Sending, Labels, Phases, Lines,
     thread, data, regs, extern
<1>28. CASE hw_resume
  BY <1>28, <1>t DEF hw_resume, QuietBus, Stage, Out, Parked, Silent, Prepared,
     Asserted, Sending, thread, data, regs, extern
<1>s. CASE UNCHANGED vars
  BY <1>s DEF vars, Stage, Out, Parked, Silent, Prepared, Asserted, Running, Ended,
     Started, Addressed, Sends, SendMasks, SendData, SendEnd, Receives, Full, Wanted,
     StopOnly, LastOnly, Errors, Sending, thread, data, regs, extern
<1> QED
  BY <1>0, <1>1, <1>2, <1>3, <1>4, <1>5, <1>6, <1>7, <1>8, <1>9, <1>10, <1>11, <1>12,
     <1>13, <1>14, <1>15, <1>16, <1>17, <1>18, <1>19, <1>20, <1>21, <1>22, <1>23, <1>24,
     <1>25, <1>26, <1>27, <1>28, <1>s DEF Next, client, rcar_i2c_intr, hardware

(* On a quiet bus the invariant holds in every state.                      *)
LEMMA QuietInvariant == ASSUME QuietBus PROVE Spec => []QuietInv
<1>1. Init => QuietInv
  BY InitInBuffer, InitStage DEF QuietInv
<1>2. QuietInv /\ [Next]_vars => QuietInv'
  BY QuietBus, StepInBuffer, StepStage DEF QuietInv
<1> QED
  BY <1>1, <1>2, PTL DEF Spec

(* For every transfer length and every sequence of transfers on a quiet    *)
(* bus, dead slaves and time-outs included, the handler never moves        *)
(* dev->buf past the end of the request it belongs to.                     *)
THEOREM HandlerInBuffer == ASSUME QuietBus PROVE Spec => []NoOverrun
<1>1. QuietInv => NoOverrun
  BY DEF QuietInv
<1> QED
  BY <1>1, QuietInvariant, PTL

(* On a quiet bus the handler leaves the client's buffer alone once the    *)
(* operation has returned, also when it returned because of a time-out.    *)
THEOREM HandlerLeavesBuffer == ASSUME QuietBus PROVE Spec => BufferPrivate
<1>1. QuietInv /\ [Next]_vars => [pc = "idle" /\ pc' = "idle" => UNCHANGED <<buf, len>>]_vars
  <2> SUFFICES ASSUME QuietInv, Next, pc = "idle", pc' = "idle"
               PROVE  UNCHANGED <<buf, len>>
    BY DEF vars
  <2>1. ~rcar_i2c_intr
    BY HandlerSilent DEF QuietInv
  <2> QED
    BY <2>1 DEF Next, client, hardware, xfer_empty, xfer_setup, xfer_len, xfer_enable,
       xfer_go, wait_event, wait_timeout, force_stop_skip, force_stop_fsb,
       force_stop_polled, rcar_i2c_reset_done, fini_unmap, fini_detach, rcar_i2c_init,
       hw_start, hw_address, hw_load, hw_shift, hw_receive, hw_stop, hw_resume, data
<1> QED
  BY <1>1, QuietInvariant, PTL DEF Spec, BufferPrivate
-----------------------------------------------------------------------------
(* Which bytes have gone where.  Of the buf - 1 bytes a send has taken     *)
(* from the buffer all are on the wire but those in the two registers; a   *)
(* receive has stored buf - 1 bytes and the controller may hold the next.  *)
Count(n) == [i \in 1 .. n |-> i]

Fresh ==
  /\ wire = <<>> /\ stored = <<>>
  /\ buf = IF Sending THEN 2 ELSE 1
  /\ Sending => line.txd = 1

Gone == buf - 1 - (IF line.full THEN 1 ELSE 0) - (IF line.sh # 0 THEN 1 ELSE 0)

Sent ==
  /\ Gone \in Nat /\ wire = Count(Gone)
  /\ line.full => line.txd = buf - 1
  /\ line.sh # 0 => line.sh = Gone + 1
  /\ bus # "data" => ~line.full

Received ==
  /\ stored = Count(buf - 1)
  /\ line.rx = IF "MDR" \in msr THEN buf ELSE buf - 1

Complete == (IF Sending THEN wire ELSE stored) = Count(req.len)

(* Before the handler has seen the address go out, and after it.           *)
Begins == "ESG" \in mcr \/ "MAT" \in msr

Moved ==
  /\ pc \in {"reset", "poll", "lines"} => tmo
  /\ pc = "idle" /\ result = {"DONE"} => Complete
  /\ pc \in {"len", "enable", "go"} => Fresh
  /\ pc = "wait" /\ status = {} /\ Begins =>
       /\ Fresh
       /\ bus = "addr" \/ "MAT" \in msr => line.rx = 0
  /\ pc = "wait" /\ status = {} /\ ~Begins /\ bus # "hung" =>
       IF Sending THEN Sent ELSE Received
  /\ pc = "wait" /\ status = {"DONE"} => Complete

(* One byte after another.                                                 *)
LEMMA CountNext ==
  ASSUME NEW n \in Nat
  PROVE  Count(n + 1) = Append(Count(n), n + 1) /\ Count(0) = <<>>
<1>1. Count(n) \in Seq(Nat) /\ Len(Count(n)) = n /\ Count(0) = <<>>
  BY DEF Count
<1>2. Append(Count(n), n + 1) \in Seq(Nat) /\ Len(Append(Count(n), n + 1)) = n + 1
  BY <1>1
<1>3. \A k \in 1 .. n + 1 : Append(Count(n), n + 1)[k] = k
  BY <1>1 DEF Count
<1> QED BY <1>1, <1>2, <1>3 DEF Count

(* The controller and the handler have work only in the stages of a        *)
(* transfer.                                                               *)
LEMMA HandlerRuns ==
  ASSUME TypeOK, Stage, rcar_i2c_intr
  PROVE  /\ pc = "wait" /\ Running /\ status = {}
         /\ Started \/ Addressed \/ Sends \/ Receives
         /\ Asserted /\ ~intr_mnr /\ ~intr_mal
<1>1. pc = "wait" /\ Asserted
  BY HandlerSilent DEF rcar_i2c_intr, intr_mat, intr_mdr, intr_mst, intr_mde_byte,
     intr_mde_last, intr_mde_done, intr_mnr, intr_mal, OnMat, OnMdr, OnMst, OnMde,
     AfterMde, AfterMdr, Handler
<1>2. Running
  BY <1>1 DEF Stage, Ended, Asserted
<1>3. "MNR" \notin msr /\ "MAL" \notin msr
  BY <1>2 DEF Running, Started, Addressed, Sends, SendData, SendEnd, Receives, Wanted
<1> QED BY <1>1, <1>2, <1>3 DEF Running, intr_mnr, intr_mal

(* Nothing has been moved yet.                                             *)
LEMMA InitMoved == Init => Moved
BY DEF Init, Moved

(* Every step of the client, the handler and the bus keeps track of each   *)
(* byte.                                                                   *)
LEMMA StepMoved == QuietBus /\ QuietInv /\ Moved /\ [Next]_vars => Moved'
<1> SUFFICES ASSUME QuietBus, TypeOK, NoOverrun, Stage, Moved, [Next]_vars
             PROVE  Moved'
  BY DEF QuietInv
<1>t. /\ req.dir \in {"send", "recv"} /\ req.len \in 1 .. MaxLen /\ req.stop \in BOOLEAN
      /\ len \in Nat /\ buf \in Nat \ {0} /\ line \in Lines /\ line.full \in BOOLEAN
      /\ line.sh \in Nat /\ line.rx \in Nat /\ line.txd \in Nat /\ MaxLen \in Nat
      /\ pc \in Labels /\ bus \in Phases
  BY I2cAssumption DEF TypeOK, Requests, Lines
<1>0. ASSUME NEW r \in Requests, xfer_setup(r) PROVE Moved'
  <2>1. r.dir = "send" => line'.txd = 1
    BY <1>0, <1>t DEF xfer_setup, Lines
  <2> QED BY <1>0, <2>1 DEF xfer_setup, Moved, Fresh, Sending
<1>1. CASE xfer_empty \/ rcar_i2c_init
  BY <1>1 DEF xfer_empty, rcar_i2c_init, Moved, Stage
<1>2. CASE xfer_len \/ xfer_enable
  BY <1>2 DEF xfer_len, xfer_enable, Moved, Fresh, Sending, extern, data
<1>3. CASE xfer_go
  BY <1>3 DEF xfer_go, Moved, Fresh, Begins, Sending, Stage, Prepared, Parked, extern, data
<1>4. CASE wait_event
  <2>1. CASE "DONE" \in status
    BY <1>4, <2>1 DEF wait_event, Stage, Running, Ended, Moved, Complete, Sending, extern
  <2>2. CASE "DONE" \notin status
    BY <1>4, <2>2 DEF wait_event, Moved, Fresh, Begins, Sent, Gone, Received, Complete, Sending,
       extern, regs
  <2> QED BY <2>1, <2>2
<1>5. CASE wait_timeout
  BY <1>5 DEF wait_timeout, Moved
<1>6. CASE force_stop_skip \/ force_stop_fsb \/ force_stop_polled
  BY <1>6 DEF force_stop_skip, force_stop_fsb, force_stop_polled, Moved
<1>7. CASE rcar_i2c_reset_done
  BY <1>7 DEF rcar_i2c_reset_done, Moved
<1>8. CASE fini_unmap \/ fini_detach
  BY <1>8 DEF fini_unmap, fini_detach, Moved, Complete, Sending, Stage, extern
<1>9. CASE intr_mat
  <2>1. pc = "wait" /\ status = {} /\ Addressed
    BY <1>9, HandlerRuns DEF rcar_i2c_intr, intr_mat, OnMat, Started, Sends, SendData, SendEnd,
       Receives
  <2>2. Fresh /\ line.rx = 0
    BY <1>9, <2>1 DEF intr_mat, OnMat, Moved, Begins
  <2>3. ~Begins'
    BY <1>9 DEF intr_mat, Begins
  <2>4. /\ pc' = "wait" /\ status' = {} /\ bus' = "data" /\ Sending' = Sending
        /\ UNCHANGED <<wire, stored, buf, line>>
    BY <1>9, <2>1 DEF intr_mat, Addressed, Sending, thread, data, extern
  <2>5. Sending => Sent'
    <3> SUFFICES ASSUME Sending PROVE Sent'
      OBVIOUS
    <3>1. buf' = 2 /\ line'.full /\ line'.sh = 0 /\ line'.txd = 1 /\ wire' = <<>>
      BY <2>1, <2>2, <2>4 DEF Addressed, Fresh
    <3>2. Gone' = 0
      BY <3>1 DEF Gone
    <3>3. Count(0) = <<>>
      BY CountNext
    <3> QED BY <2>4, <3>1, <3>2, <3>3 DEF Sent
  <2>6. ~Sending => Received'
    BY <1>9, <2>1, <2>2, <2>4, CountNext DEF intr_mat, Addressed, Wanted, Fresh, Received
  <2> QED BY <2>3, <2>4, <2>5, <2>6 DEF Moved
<1>10. CASE intr_mdr
  <2>1. /\ pc = "wait" /\ status = {} /\ Receives /\ ~Sending
        /\ "MDR" \in msr /\ len > 0 /\ "MAT" \notin msr
    BY <1>10, HandlerRuns DEF rcar_i2c_intr, intr_mdr, OnMdr, Started, Addressed, Sends,
       SendData, SendEnd, Receives
  <2>2. Received
    BY <2>1 DEF Moved, Begins, Receives
  <2>3. stored' = Count(buf) /\ buf' = buf + 1 /\ pc' = "wait" /\ req' = req
    <3>1. stored' = Append(Count(buf - 1), buf)
      BY <1>10, <2>1, <2>2 DEF intr_mdr, Received
    <3>2. buf - 1 \in Nat /\ buf - 1 + 1 = buf
      BY <1>t
    <3>3. Count(buf) = Append(Count(buf - 1), buf)
      BY <3>2, CountNext
    <3> QED BY <1>10, <2>1, <3>1, <3>3 DEF intr_mdr, thread
  <2>4. CASE len = 1 /\ ~req.stop
    <3>1. status' = {"DONE"} /\ buf = req.len
      BY <1>10, <1>t, <2>1, <2>4 DEF intr_mdr, Finish, NoOverrun
    <3> QED BY <2>1, <2>3, <3>1 DEF Moved, Complete, Sending
  <2>5. CASE ~(len = 1 /\ ~req.stop)
    <3>1. status' = {} /\ line' = line /\ "MDR" \notin msr' /\ ~Begins'
      BY <1>10, <2>1, <2>5 DEF intr_mdr, Begins, Receives
    <3>2. Received'
      BY <1>t, <2>1, <2>2, <2>3, <3>1 DEF Received
    <3> QED BY <2>1, <2>3, <3>1, <3>2 DEF Moved, Sending
  <2> QED BY <2>4, <2>5
<1>11. CASE intr_mst
  <2>1. pc = "wait" /\ "MST" \in msr /\ (Sends \/ Receives)
    BY <1>11, HandlerRuns DEF rcar_i2c_intr, intr_mst, OnMst, AfterMdr, Started, Addressed, Wanted
  <2>2. bus = "idle" /\ len = 0 /\ line.sh = 0 /\ ~Begins
    BY <2>1 DEF Sends, SendData, SendEnd, SendMasks, Receives, StopOnly, Full, LastOnly, Errors,
       Wanted, Begins
  <2>3. buf - 1 = req.len
    BY <1>t, <2>1, <2>2 DEF NoOverrun
  <2>4. status = {}
    BY <1>11, HandlerRuns DEF rcar_i2c_intr
  <2>5. Complete
    <3>1. CASE Sending
      <4>1. Sent
        BY <2>1, <2>2, <2>4, <3>1 DEF Moved
      <4> QED BY <1>t, <2>2, <2>3, <3>1, <4>1 DEF Sent, Gone, Complete
    <3>2. CASE ~Sending
      <4>1. Received
        BY <2>1, <2>2, <2>4, <3>2 DEF Moved
      <4> QED BY <2>3, <3>2, <4>1 DEF Received, Complete
    <3> QED BY <3>1, <3>2
  <2> QED BY <1>11, <2>1, <2>5 DEF intr_mst, Finish, Moved, Complete, Sending, thread
<1>12. CASE intr_mde_byte \/ intr_mde_last \/ intr_mde_done
  <2>1. pc = "wait" /\ status = {} /\ Sends /\ "MDE" \in msr /\ "MAT" \notin msr
    BY <1>12, HandlerRuns DEF rcar_i2c_intr, intr_mde_byte, intr_mde_last, intr_mde_done, OnMde,
       AfterMdr, Started, Addressed, Receives
  <2>2. bus = "data" /\ ~line.full /\ Sending /\ ~Begins
    <3>1. Asserted
      BY <1>12, HandlerRuns DEF rcar_i2c_intr
    <3> QED BY <1>12, <2>1, <3>1 DEF Sends, SendData, SendEnd, SendMasks, Asserted, StopOnly, Full,
       LastOnly, Errors, Wanted, Begins, intr_mde_byte, intr_mde_last, intr_mde_done, OnMde, AfterMdr
  <2>3. Sent
    BY <2>1, <2>2 DEF Moved
  <2>4. CASE intr_mde_byte
    <3>1. line.sh # 0
      <4>1. SendData /\ SendMasks
        BY <2>1, <2>2 DEF Sends, SendEnd
      <4>2. "MDT" \notin ier
        BY <2>2, <2>4, <4>1 DEF SendMasks, intr_mde_byte, Full, Wanted, Errors, StopOnly
      <4> QED BY <2>2, <4>1, <4>2 DEF SendData, LastOnly
    <3>2. line'.sh = line.sh /\ line'.full /\ line'.txd = buf /\ buf' = buf + 1
      BY <2>4, <1>t DEF intr_mde_byte, Lines
    <3>3. Gone' = Gone /\ UNCHANGED <<wire, bus>>
      BY <1>t, <2>2, <2>4, <3>1, <3>2 DEF Gone, intr_mde_byte
    <3>4. Sent'
      BY <1>t, <2>2, <2>3, <3>1, <3>2, <3>3 DEF Sent
    <3> QED BY <2>1, <2>2, <2>4, <3>4 DEF intr_mde_byte, Moved, Begins, Sending, thread
  <2>5. CASE intr_mde_last
    BY <2>1, <2>2, <2>3, <2>5 DEF intr_mde_last, Moved, Begins, Sending, Sent, Gone, thread, data,
       extern
  <2>6. CASE intr_mde_done
    <3>1. line.sh = 0 /\ len = 0
      <4>1. "MDT" \in ier /\ len = 0 /\ Asserted
        BY <2>6 DEF intr_mde_done, OnMde, AfterMdr, Handler
      <4>2. SendData /\ SendMasks
        BY <2>1, <2>2 DEF Sends, SendEnd
      <4>3. ier = LastOnly
        BY <2>2, <4>1, <4>2 DEF SendMasks, Full, Wanted, Errors, StopOnly
      <4>4. "MDT" \in msr
        BY <2>1, <2>2, <4>1, <4>2, <4>3 DEF Asserted, LastOnly, Errors, SendData
      <4>5. msr \subseteq {"MDT", "MDE"} => msr = {"MDT", "MDE"}
        BY <2>1, <4>4
      <4> QED BY <2>2, <4>1, <4>2, <4>5 DEF SendData
    <3>2. Gone = req.len
      BY <1>t, <2>1, <2>2, <3>1 DEF Gone, NoOverrun
    <3>3. Complete
      BY <2>2, <2>3, <3>2 DEF Sent, Complete
    <3> QED BY <2>1, <2>6, <3>3 DEF intr_mde_done, Moved, Complete, Sending, thread, extern
  <2> QED BY <1>12, <2>4, <2>5, <2>6
<1>13. CASE intr_mnr \/ intr_mal
  BY <1>13, HandlerRuns DEF rcar_i2c_intr
<1>14. CASE hw_start
  <2>1. pc = "wait" /\ status = {} /\ Started
    BY <1>14, <1>t DEF hw_start, Stage, Out, Parked, Ended, Running, Started, Addressed, Sends,
       SendData, SendEnd, SendMasks, Receives, Labels, Waiting, Wanted
  <2>2. Fresh /\ line'.rx = 0 /\ line'.txd = line.txd
    BY <1>14, <1>t, <2>1 DEF hw_start, Moved, Begins, Lines
  <2> QED BY <1>14, <2>1, <2>2 DEF hw_start, Moved, Fresh, Begins, Sending, thread, data, regs
<1>15. CASE hw_address
  <2>1. pc = "wait" /\ status = {} /\ Started
    BY <1>15, <1>t DEF hw_address, Stage, Out, Parked, Ended, Running, Started, Addressed, Sends,
       SendData, SendEnd, SendMasks, Receives, Labels
  <2>2. Fresh /\ line.rx = 0 /\ "ESG" \in mcr
    BY <1>15, <2>1 DEF hw_address, Moved, Begins, Started
  <2> QED BY <1>15, <2>1, <2>2 DEF hw_address, Moved, Fresh, Begins, Sending, thread, data
<1>16. CASE hw_load
  <2>1. pc = "wait" /\ status = {} /\ Sends /\ bus = "data" /\ msr \subseteq {"MDT"}
    BY <1>16, <1>t DEF hw_load, Waiting, Stage, Out, Parked, Ended, Running, Started, Addressed,
       Sends, SendData, SendEnd, Receives, Labels, Wanted
  <2>2. ~Begins /\ Sending /\ line.full /\ line.sh = 0 /\ line.txd # 0
    BY <1>16, <2>1 DEF hw_load, Begins, Stage
  <2>3. Sent
    BY <2>1, <2>2 DEF Moved
  <2>4. ~line'.full /\ line'.sh = line.txd
    BY <1>16, <1>t DEF hw_load, Lines
  <2>5. Gone' = Gone /\ line.txd = Gone + 1 /\ UNCHANGED <<wire, bus>>
    BY <1>16, <1>t, <2>2, <2>3, <2>4 DEF hw_load, Gone, Sent, data
  <2>6. Sent'
    BY <2>3, <2>4, <2>5 DEF Sent
  <2> QED BY <1>16, <2>1, <2>2, <2>6 DEF hw_load, Raise, Moved, Begins, Sending, thread, data
<1>17. CASE hw_shift
  <2>1. pc = "wait" /\ status = {} /\ Sends /\ bus = "data" /\ SendData /\ SendMasks
    BY <1>17, <1>t DEF hw_shift, Stage, Out, Parked, Ended, Running, Started, Addressed,
       Sends, SendData, SendEnd, Receives, Labels
  <2>2. ~Begins /\ Sending /\ line.sh # 0
    BY <1>17, <2>1 DEF hw_shift, Begins, Sends, SendData, SendMasks
  <2>3. Sent
    BY <2>1, <2>2 DEF Moved
  <2>4. line'.full = line.full /\ line'.sh = 0 /\ line'.txd = line.txd
    BY <1>17, <1>t DEF hw_shift, Lines
  <2>5. /\ pc' = "wait" /\ status' = {} /\ Sending' /\ ~Begins'
        /\ UNCHANGED <<buf, mcr>>
    BY <1>17, <2>1, <2>2 DEF hw_shift, Raise, Fault, QuietBus, Begins, Sending, thread, data
  <2>6. CASE bus' = "hung"
    BY <2>5, <2>6 DEF Moved
  <2>7. CASE bus' # "hung"
    <3>1. wire' = Append(wire, line.sh) /\ bus' = IF "FSB" \in mcr THEN "stop" ELSE "data"
      BY <1>17, <2>1, <2>7 DEF hw_shift, Fault, QuietBus
    <3>2. Gone' = Gone + 1 /\ Gone \in Nat
      BY <1>t, <2>2, <2>3, <2>4, <2>5 DEF Gone, Sent
    <3>3. wire' = Count(Gone')
      BY <2>2, <2>3, <3>1, <3>2, CountNext DEF Sent
    <3>4. "FSB" \in mcr => ~line.full
      BY <2>1, <2>2 DEF SendData, SendMasks, StopOnly, Full, Wanted, Errors
    <3>5. Sent'
      BY <2>3, <2>4, <2>5, <3>1, <3>2, <3>3, <3>4 DEF Sent
    <3> QED BY <2>5, <3>5 DEF Moved
  <2> QED BY <2>6, <2>7
<1>18. CASE hw_receive
  <2>1. pc = "wait" /\ status = {} /\ Receives /\ bus = "data" /\ msr = {} /\ len > 0
    BY <1>18, <1>t DEF hw_receive, Waiting, Stage, Out, Parked, Ended, Running, Started, Addressed,
       Sends, Receives, Labels, Wanted
  <2>2. ~Begins /\ ~Sending
    BY <1>18, <2>1 DEF hw_receive, Begins
  <2>3. Received
    BY <2>1, <2>2 DEF Moved
  <2>4. line.rx = buf - 1 /\ line.rx < MaxLen
    BY <1>t, <2>1, <2>3 DEF Received, NoOverrun
  <2>5. pc' = "wait" /\ status' = {} /\ ~Sending' /\ UNCHANGED <<stored, buf, mcr>>
    BY <1>18, <2>1, <2>2 DEF hw_receive, Sending, thread, data
  <2>6. CASE bus' = "hung"
    BY <1>18, <2>1, <2>2, <2>5, <2>6 DEF hw_receive, Raise, Fault, QuietBus, Moved, Begins
  <2>7. CASE bus' # "hung"
    <3>1. msr' = {"MDR"} /\ line' = [line EXCEPT !.rx = IF @ > MaxLen THEN @ ELSE @ + 1]
      BY <1>18, <2>1, <2>7 DEF hw_receive, Raise, Fault, QuietBus
    <3>2. line'.rx = buf
      BY <1>t, <2>4, <3>1 DEF Lines
    <3>3. Received' /\ ~Begins'
      BY <2>2, <2>3, <2>5, <3>1, <3>2 DEF Received, Begins
    <3> QED BY <2>5, <3>3 DEF Moved
  <2> QED BY <2>6, <2>7
<1>19. CASE hw_stop
  <2>1. pc = "wait" /\ status = {} /\ (Sends \/ Receives) /\ ~Begins
    BY <1>19, <1>t DEF hw_stop, Stage, Out, Parked, Ended, Running, Started, Addressed,
       Sends, SendMasks, SendData, SendEnd, Receives, Labels, Begins
  <2>2. IF Sending THEN Sent ELSE Received
    BY <1>19, <2>1 DEF hw_stop, Moved
  <2>3. IF Sending' THEN Sent' ELSE Received'
    BY <1>19, <2>2 DEF hw_stop, Raise, Sent, Gone, Received, Sending, thread, data
  <2> QED BY <1>19, <2>1, <2>3 DEF hw_stop, Raise, Moved, Begins, thread, data
<1>20. CASE hw_resume
  BY <1>20 DEF hw_resume, QuietBus
<1>21. CASE UNCHANGED vars
  BY <1>21 DEF vars, thread, data, regs, extern, Moved, Fresh, Begins, Sent, Gone, Received,
     Complete, Sending
<1> QED
  BY <1>0, <1>1, <1>2, <1>3, <1>4, <1>5, <1>6, <1>7, <1>8, <1>9, <1>10, <1>11, <1>12, <1>13,
     <1>14, <1>15, <1>16, <1>17, <1>18, <1>19, <1>20, <1>21
  DEF Next, client, rcar_i2c_intr, hardware

(* On a quiet bus an operation that reports I2C_STATUS_DONE and no error   *)
(* has moved every byte of its buffer, each once and in order, whatever    *)
(* the length, the direction and the transfers before it.                  *)
THEOREM DoneHasMoved == ASSUME QuietBus PROVE Spec => []DoneMeansMoved
<1>1. Init => Moved
  BY InitMoved
<1>2. QuietInv /\ Moved /\ [Next]_vars => Moved'
  BY QuietBus, StepMoved
<1>3. Moved => DoneMeansMoved
  BY DEF Moved, Complete, Count, DoneMeansMoved
<1> QED BY <1>1, <1>2, <1>3, QuietInvariant, PTL DEF Spec

=============================================================================
