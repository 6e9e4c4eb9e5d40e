------------------------------ MODULE I2cRcarA ------------------------------
(***************************************************************************)
(* The master driver of the R-Car I2C controller (hardware/i2c/rcar-A).    *)
(* libi2c calls one operation at a time.  rcar_i2c_send and rcar_i2c_recv  *)
(* program the controller and sleep in rcar_i2c_wait_complete; the         *)
(* interrupt handler rcar_i2c_intr, which runs on another processor if it  *)
(* likes, moves the bytes and reports the end of the transfer.             *)
(*                                                                         *)
(* Bytes are named by their position in the client's buffer.  The          *)
(* controller and the slave are external: a bus phase takes tens of        *)
(* microseconds, so an interrupt is served before the next phase ends.     *)
(***************************************************************************)
EXTENDS Integers, Sequences

CONSTANTS
  MaxLen,          \* bound: bytes of a transfer
  Faults,          \* what may go wrong on the bus: "nack", "arbl", "hang"
  Late,            \* may the time-out expire while the bus is still alive?
  SendAfterHeld    \* may a send follow a send without STOP?

ASSUME I2cAssumption ==
  /\ MaxLen \in Nat \ {0}
  /\ Faults \subseteq {"nack", "arbl", "hang"}
  /\ Late \in BOOLEAN /\ SendAfterHeld \in BOOLEAN

VARIABLES
  req,      \* the transfer: direction, length, CMODE_DOSTOP
  buf,      \* dev->buf, as the position of the next byte
  len,      \* dev->len
  status,   \* dev->status, a set of I2C_STATUS_* bits
  result,   \* what the last operation returned
  pc,       \* what the client's thread does next
  tmo,      \* is rcar_i2c_reset running because of a time-out?
  event,    \* dev->intrEvent is pending
  dev,      \* "up", "unmapped" (rcar_i2c_fini is half done), "down"
  msr, ier, mcr,  \* ICMSR and ICMIER (sets of flags), ICMCR
  line,     \* ICTXD, whether it is full, the shift register, ICRXD
  bus,      \* phase of the bus: "idle", "addr", "data", "stop", "hung"
  wire,     \* history: bytes the slave has taken
  stored    \* history: bytes written to the client's buffer

thread == <<req, result, pc, tmo, dev>>
data   == <<buf, len, status, event>>
regs   == <<msr, ier, mcr>>
extern == <<line, bus, wire>>
vars   == <<thread, data, regs, extern, stored>>

Requests == [dir : {"send", "recv"}, len : 1 .. MaxLen, stop : BOOLEAN]
MsrFlags == {"MAT", "MDR", "MDE", "MDT", "MST", "MNR", "MAL"}
Errors   == {"MNR", "MAL"}
Sending  == req.dir = "send"
NoData   == [txd |-> 0, full |-> FALSE, sh |-> 0, rx |-> 0]

(* The interrupt line of the controller.  The handler finds nothing to do  *)
(* for MDT alone, nor for MDR when no byte is expected: the interrupt      *)
(* repeats while the bus goes on.                                          *)
Asserted == msr \cap ier # {}
Quiet    == ~Asserted \/ msr \subseteq {"MDT"} \cup (IF len = 0 THEN {"MDR"} ELSE {})

Init ==
  /\ req \in {r \in Requests : r.len = 1 /\ r.stop}
  /\ buf = 1 /\ len = 1
  /\ status = {} /\ result = {}
  /\ pc = "idle" /\ tmo = FALSE
  /\ event = FALSE
  /\ dev = "up"
  /\ msr = {} /\ ier = {} /\ mcr = {}
  /\ line = NoData
  /\ bus = "idle"
  /\ wire = <<>> /\ stored = <<>>
-----------------------------------------------------------------------------
(* rcar_i2c_send and rcar_i2c_recv.  A transfer of no bytes returns at     *)
(* once; otherwise the fields of dev and the first byte are set, then the  *)
(* interrupts are enabled, then the flags are cleared and START is given.  *)
xfer_empty ==
  /\ pc = "idle" /\ dev = "up"
  /\ status' = {"DONE"}
  /\ result' = {}
  /\ UNCHANGED <<req, pc, tmo, dev, buf, len, event, regs, extern, stored>>

(* A send without STOP has left the bus waiting and MDE set.               *)
Held == "MDE" \in msr

xfer_setup(r) ==
  /\ pc = "idle" /\ dev = "up"
  /\ SendAfterHeld \/ ~(Held /\ r.dir = "send")
  /\ req' = r
  /\ status' = {}
  /\ IF r.dir = "send"
       THEN buf' = 2 /\ line' = [line EXCEPT !.txd = 1, !.full = TRUE]
       ELSE buf' = 1 /\ UNCHANGED line
  /\ wire' = <<>> /\ stored' = <<>>
  /\ pc' = "len"
  /\ UNCHANGED <<result, tmo, dev, len, event, regs, bus>>

\* Mutant: the byte that is already in ICTXD is counted again.
xfer_len_whole ==
  /\ pc = "len"
  /\ len' = req.len
  /\ pc' = "enable"
  /\ UNCHANGED <<req, result, tmo, dev, buf, status, event, regs, extern, stored>>

(* dev->buf is new and dev->len still old until here.                      *)
xfer_len ==
  /\ pc = "len"
  /\ len' = IF Sending THEN req.len - 1 ELSE req.len
  /\ pc' = "enable"
  /\ UNCHANGED <<req, result, tmo, dev, buf, status, event, regs, extern, stored>>

xfer_enable ==
  /\ pc = "enable"
  /\ ier' = Errors \cup {"MST", "MAT", IF Sending THEN "MDE" ELSE "MDR"}
  /\ pc' = "go"
  /\ UNCHANGED <<req, result, tmo, dev, data, msr, mcr, extern, stored>>

xfer_go ==
  /\ pc = "go"
  /\ msr' = {}
  /\ mcr' = {"MIE", "ESG"}
  /\ pc' = "wait"
  /\ UNCHANGED <<req, result, tmo, dev, data, ier, extern, stored>>

(* rcar_i2c_wait_complete: woken by the event of the handler ...           *)
wait_event ==
  /\ pc = "wait" /\ event
  /\ event' = FALSE
  /\ IF "DONE" \notin status THEN UNCHANGED <<result, pc>>   \* wrong interrupt
     ELSE IF "ARBL" \in status THEN pc' = "reset" /\ UNCHANGED result
     ELSE result' = status /\ pc' = "idle"
  /\ UNCHANGED <<req, tmo, dev, buf, len, status, regs, extern, stored>>

(* ... or by the time-out, which expires when the bus has come to a stop   *)
(* and, if Late, at any other moment too.                                  *)
BusDead ==
  /\ Quiet
  /\ \/ bus = "hung"
     \/ bus = "idle" /\ "ESG" \notin mcr
     \/ bus = "data" /\ line.sh = 0 /\ msr \cap {"MDE", "MDR"} # {}

\* Mutants: the time-out is too short for the transfer, or its error is
\* not recognised and the wait goes on.
wait_timeout_short ==
  /\ pc = "wait" /\ ~event
  /\ tmo' = TRUE
  /\ pc' = "reset"
  /\ UNCHANGED <<req, result, dev, data, regs, extern, stored>>

wait_timeout_ignored ==
  /\ pc = "wait" /\ ~event
  /\ Late \/ BusDead
  /\ UNCHANGED vars

wait_timeout ==
  /\ pc = "wait" /\ ~event
  /\ Late \/ BusDead
  /\ tmo' = TRUE
  /\ pc' = "reset"
  /\ UNCHANGED <<req, result, dev, data, regs, extern, stored>>

(* force_stop looks at the level of SDA twice: if it is high, STOP is      *)
(* requested and its flag polled for a while; if it is high after that,    *)
(* the lines are driven by hand.                                           *)
force_stop_skip ==
  /\ pc = "reset"
  /\ pc' = "lines"
  /\ UNCHANGED <<req, result, tmo, dev, data, regs, extern, stored>>

force_stop_fsb ==
  /\ pc = "reset"
  /\ mcr' = {"MIE", "FSB"}
  /\ msr' = {}
  /\ pc' = "poll"
  /\ UNCHANGED <<req, result, tmo, dev, data, ier, extern, stored>>

force_stop_polled ==
  /\ pc = "poll"
  /\ pc' = "lines"
  /\ UNCHANGED <<req, result, tmo, dev, data, regs, extern, stored>>

(* The rest of rcar_i2c_reset sets the bus speed again; the interrupt      *)
(* enables stay as they are.                                               *)
rcar_i2c_reset_done ==
  /\ pc = "lines"
  /\ \/ mcr' = {"MIE"} /\ bus' = "idle" /\ line' = [line EXCEPT !.sh = 0]
     \/ UNCHANGED <<mcr, bus, line>>
  /\ status' = IF tmo THEN {"ERROR"} ELSE status
  /\ result' = status'
  /\ tmo' = FALSE
  /\ pc' = "idle"
  /\ UNCHANGED <<req, dev, buf, len, event, msr, ier, wire, stored>>

(* rcar_i2c_fini unmaps the registers before it detaches the handler;      *)
(* rcar_i2c_init clears the registers before it attaches it.               *)
fini_unmap ==
  /\ pc = "idle" /\ dev = "up"
  /\ mcr' = {}
  /\ bus' = "idle" /\ line' = [line EXCEPT !.sh = 0]
  /\ dev' = "unmapped"
  /\ UNCHANGED <<req, result, pc, tmo, data, msr, ier, wire, stored>>

fini_detach ==
  /\ dev = "unmapped"
  /\ dev' = "down"
  /\ UNCHANGED <<req, result, pc, tmo, data, regs, extern, stored>>

rcar_i2c_init ==
  /\ dev = "down"
  /\ msr' = {} /\ ier' = {} /\ mcr' = {}
  /\ bus' = "idle" /\ line' = NoData
  /\ status' = {} /\ result' = {} /\ event' = FALSE
  /\ dev' = "up"
  /\ UNCHANGED <<req, pc, tmo, buf, len, wire, stored>>
-----------------------------------------------------------------------------
(* rcar_i2c_intr looks at the flags in a fixed order and acts on one.      *)
Handler  == dev # "down" /\ Asserted
OnMat    == Handler /\ "MAT" \in msr
OnMdr    == Handler /\ "MAT" \notin msr /\ "MDR" \in msr /\ len > 0
AfterMdr == Handler /\ "MAT" \notin msr /\ ~("MDR" \in msr /\ len > 0)
OnMst    == AfterMdr /\ "MST" \in msr
OnMde    == AfterMdr /\ "MST" \notin msr /\ "MDE" \in msr
AfterMde == AfterMdr /\ msr \cap {"MST", "MDE"} = {}

(* The registers are cleared, which ends whatever the controller does, the *)
(* status is set and the event sent.                                       *)
Finish(bits) ==
  /\ ier' = {} /\ mcr' = {} /\ msr' = {}
  /\ bus' = "idle" /\ line' = [line EXCEPT !.sh = 0]
  /\ status' = bits
  /\ event' = TRUE

intr_mat ==
  /\ OnMat
  /\ mcr' = IF req.stop /\ len = (IF Sending THEN 0 ELSE 1) THEN {"MIE", "FSB"} ELSE {"MIE"}
  /\ ier' = IF ~Sending \/ len > 0 THEN ier
            ELSE Errors \cup {IF req.stop THEN "MST" ELSE "MDT"}
  /\ msr' = msr \ {"MAT", IF Sending THEN "MDE" ELSE "MDR"}
  /\ UNCHANGED <<thread, data, extern, stored>>

\* Mutant: one byte too early.
intr_mdr_early ==
  /\ OnMdr
  /\ stored' = Append(stored, line.rx)
  /\ buf' = buf + 1 /\ len' = len - 1
  /\ IF len <= 2 /\ ~req.stop
       THEN Finish({"DONE"})
       ELSE /\ msr' = msr \ {"MDR"}
            /\ mcr' = IF len = 2 /\ req.stop THEN {"MIE", "FSB"} ELSE mcr
            /\ UNCHANGED <<ier, bus, line, status, event>>
  /\ UNCHANGED <<thread, wire>>

intr_mdr ==
  /\ OnMdr
  /\ stored' = Append(stored, line.rx)
  /\ buf' = buf + 1 /\ len' = len - 1
  /\ IF len = 1 /\ ~req.stop
       THEN Finish({"DONE"})
       ELSE /\ msr' = msr \ {"MDR"}
            /\ mcr' = IF len = 2 /\ req.stop THEN {"MIE", "FSB"} ELSE mcr
            /\ UNCHANGED <<ier, bus, line, status, event>>
  /\ UNCHANGED <<thread, wire>>

intr_mst ==
  /\ OnMst
  /\ Finish({"DONE"})
  /\ UNCHANGED <<thread, buf, len, wire, stored>>

intr_mde_byte ==
  /\ OnMde /\ len > 0
  /\ line' = [line EXCEPT !.txd = buf, !.full = TRUE]
  /\ buf' = buf + 1 /\ len' = len - 1
  /\ msr' = msr \ {"MDE"}
  /\ UNCHANGED <<thread, status, event, ier, mcr, bus, wire, stored>>

(* The last byte is on its way: ask for STOP, or without STOP for the      *)
(* interrupt that reports the end of the byte.                             *)
intr_mde_last ==
  /\ OnMde /\ len = 0
  /\ req.stop \/ "MDT" \notin ier
  /\ mcr' = IF req.stop THEN {"MIE", "FSB"} ELSE mcr
  /\ ier' = Errors \cup {IF req.stop THEN "MST" ELSE "MDT"}
  /\ msr' = msr \ {"MDE"}
  /\ UNCHANGED <<thread, data, extern, stored>>

intr_mde_done ==
  /\ OnMde /\ len = 0 /\ ~req.stop /\ "MDT" \in ier
  /\ ier' = {}
  /\ status' = {"DONE"}
  /\ event' = TRUE
  /\ UNCHANGED <<thread, buf, len, msr, mcr, extern, stored>>

intr_mnr ==
  /\ AfterMde /\ "MNR" \in msr
  /\ msr' = msr \ {"MNR"}
  /\ status' = {"NACK", "DONE"}
  /\ event' = TRUE
  /\ UNCHANGED <<thread, buf, len, ier, mcr, extern, stored>>

intr_mal ==
  /\ AfterMde /\ "MNR" \notin msr /\ "MAL" \in msr
  /\ Finish({"ARBL", "DONE"})
  /\ UNCHANGED <<thread, buf, len, wire, stored>>

rcar_i2c_intr ==
  \/ intr_mat \/ intr_mdr \/ intr_mst \/ intr_mde_byte \/ intr_mde_last
  \/ intr_mde_done \/ intr_mnr \/ intr_mal
-----------------------------------------------------------------------------
(* External: the controller.  MDE or MDR keeps the bus waiting after the   *)
(* address and between two bytes until the handler clears it.              *)
Waiting  == msr \cap {"MDE", "MDR"} # {}
Raise(f) == msr' = msr \cup f

hw_start ==
  /\ Quiet
  /\ "ESG" \in mcr
  /\ bus \in {"idle", "data"}
  /\ ~Waiting
  /\ bus' = "addr"
  /\ line' = [line EXCEPT !.sh = 0, !.rx = 0]
  /\ UNCHANGED <<thread, data, regs, wire, stored>>

(* The slave answers a phase of the bus: it refuses, and the controller    *)
(* ends the transfer with STOP by itself (the MNR branch of the handler    *)
(* leaves it to it); another master wins; or the slave holds the clock.    *)
Fault ==
  \/ "nack" \in Faults /\ Raise({"MNR"}) /\ bus' = "stop"
  \/ "arbl" \in Faults /\ Raise({"MAL"}) /\ bus' = "idle"
  \/ "hang" \in Faults /\ bus' = "hung" /\ UNCHANGED msr

hw_address ==
  /\ Quiet
  /\ bus = "addr"
  /\ \/ Raise({"MAT", IF Sending THEN "MDE" ELSE "MDR"}) /\ bus' = "data"
     \/ Fault
  /\ UNCHANGED <<thread, data, ier, mcr, line, wire, stored>>

(* A byte moves from ICTXD to the shift register ...                       *)
hw_load ==
  /\ Quiet
  /\ bus = "data" /\ Sending /\ "ESG" \notin mcr
  /\ line.full /\ line.sh = 0 /\ ~Waiting
  /\ line' = [line EXCEPT !.full = FALSE, !.sh = line.txd]
  /\ Raise({"MDE"})
  /\ UNCHANGED <<thread, data, ier, mcr, bus, wire, stored>>

(* ... and from there to the slave.  Then the next byte, STOP, or a pause. *)
hw_shift ==
  /\ Quiet
  /\ bus = "data" /\ line.sh # 0
  /\ \/ /\ wire' = Append(wire, line.sh)
        /\ IF "FSB" \in mcr THEN bus' = "stop" /\ UNCHANGED msr
           ELSE Raise({"MDT"} \cup (IF line.full THEN {} ELSE {"MDE"})) /\ UNCHANGED bus
     \/ Fault /\ UNCHANGED wire
  /\ line' = [line EXCEPT !.sh = 0]
  /\ UNCHANGED <<thread, data, ier, mcr, stored>>

(* The slave's bytes are counted; all beyond MaxLen count as one.          *)
hw_receive ==
  /\ Quiet
  /\ bus = "data" /\ ~Sending /\ "ESG" \notin mcr /\ ~Waiting
  /\ \/ /\ Raise({"MDR"})
        /\ line' = [line EXCEPT !.rx = IF @ > MaxLen THEN @ ELSE @ + 1]
        /\ bus' = IF "FSB" \in mcr THEN "stop" ELSE "data"
     \/ Fault /\ UNCHANGED line
  /\ UNCHANGED <<thread, data, ier, mcr, wire, stored>>

hw_stop ==
  /\ Quiet
  /\ bus = "stop"
  /\ Raise({"MST"})
  /\ bus' = "idle"
  /\ UNCHANGED <<thread, data, ier, mcr, line, wire, stored>>

(* The slave lets the clock go again, later than the driver expected.      *)
hw_resume ==
  /\ Late
  /\ bus = "hung"
  /\ bus' = "data"
  /\ UNCHANGED <<thread, data, regs, line, wire, stored>>

hardware ==
  \/ hw_start \/ hw_address \/ hw_load \/ hw_shift \/ hw_receive \/ hw_stop
-----------------------------------------------------------------------------
client ==
  \/ xfer_len \/ xfer_enable \/ xfer_go \/ wait_event \/ wait_timeout \/ force_stop_skip
  \/ force_stop_fsb \/ force_stop_polled \/ rcar_i2c_reset_done

Next ==
  \/ xfer_empty \/ (\E r \in Requests : xfer_setup(r)) \/ client
  \/ fini_unmap \/ fini_detach \/ rcar_i2c_init
  \/ rcar_i2c_intr \/ hardware \/ hw_resume

(* The thread and the interrupt handler are scheduled and the controller   *)
(* runs; nothing obliges a client to start a transfer or a slave to let    *)
(* the clock go.                                                           *)
Spec     == Init /\ [][Next]_vars
FairSpec == Spec /\ WF_vars(client) /\ WF_vars(rcar_i2c_intr) /\ WF_vars(hardware)
-----------------------------------------------------------------------------
Bits   == {"DONE", "NACK", "ARBL", "ERROR"}
Labels == {"idle", "len", "enable", "go", "wait", "reset", "poll", "lines"}
Phases == {"idle", "addr", "data", "stop", "hung"}
Lines  == [txd : 0 .. MaxLen, full : BOOLEAN, sh : 0 .. MaxLen, rx : 0 .. MaxLen + 1]

(* Every variable has its type; in particular dev->buf and dev->len stay   *)
(* within the longest request, whatever interrupts arrive late.            *)
TypeOK ==
  /\ req \in Requests
  /\ buf \in 1 .. MaxLen + 1 /\ len \in 0 .. MaxLen
  /\ status \subseteq Bits /\ result \subseteq Bits
  /\ pc \in Labels
  /\ tmo \in BOOLEAN /\ event \in BOOLEAN
  /\ dev \in {"up", "unmapped", "down"}
  /\ msr \subseteq MsrFlags /\ ier \subseteq MsrFlags
  /\ mcr \subseteq {"MIE", "ESG", "FSB"}
  /\ line \in Lines
  /\ bus \in Phases
  /\ wire \in Seq(1 .. MaxLen) /\ stored \in Seq(0 .. MaxLen + 1)

(* The handler stays inside the client's buffer: position and remaining    *)
(* length add up to the length of the request whenever both fields have    *)
(* been set, so nobody moved one of them while they did not match.         *)
NoOverrun == pc # "len" => len >= 0 /\ buf + len = req.len + 1

(* A transfer that returns I2C_STATUS_DONE and no error bit has moved all  *)
(* its bytes, each once and in order: none is lost between the handler,    *)
(* the two transmit registers and the wire, and the end is not reported    *)
(* before the last byte has gone.                                          *)
DoneMeansMoved ==
  pc = "idle" /\ result = {"DONE"}
    => (IF Sending THEN wire ELSE stored) = [i \in 1 .. req.len |-> i]

(* "make sure any data transfer is complete before reset" (init.c): once   *)
(* rcar_i2c_send or rcar_i2c_recv has returned, the handler no longer      *)
(* reads or writes the client's buffer.                                    *)
BufferPrivate == [][pc = "idle" /\ pc' = "idle" => UNCHANGED <<buf, len>>]_vars

(* Every transfer returns: by its event or by its time-out, even when the  *)
(* event of an earlier transfer wakes the thread or the bus is dead.       *)
TransferReturns == pc # "idle" ~> pc = "idle"
=============================================================================
