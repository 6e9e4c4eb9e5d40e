------------------------------ MODULE SerScif -------------------------------
(***************************************************************************)
(* The SCIF serial driver, hardware/devc/serscif: tto(), which io-char's   *)
(* thread calls to send, to obey flow control, to send a break and to      *)
(* change the line settings, and ser_intr(), the interrupt handler.        *)
(*                                                                         *)
(* Both change the serial control register SCSCR through set_port16(),     *)
(* which reads the register and writes it back, with no lock.  The board   *)
(* boots procnto-smp, so the handler runs on one processor while tto()     *)
(* runs on another: the read and the write are steps of their own here,    *)
(* and one of the two may write back bits the other changed in between.    *)
(* The history variable clobbered keeps the bits that a write of one side  *)
(* put back against the last order of the other.                           *)
(*                                                                         *)
(* The io-char library (tti(), the time-out of a device that               *)
(* LOSES_TX_INTR, the event queue, water marks) is external, modelled from *)
(* what the driver's code relies on.  A program of register operations     *)
(* stands for the body of a call: todo[a] is what actor a has still to do. *)
(***************************************************************************)
EXTENDS Naturals, Sequences

CONSTANTS
  FifoLen,     \* SCIF_FIFO_LEN, length of the transmit FIFO
  RxLen,       \* length of the receive FIFO
  Trigger,     \* transmit trigger level, tty.fifo
  HighWater,   \* tty.highwater of the input buffer
  MaxOut,      \* bound on characters written by clients
  MaxIn,       \* bound on characters received
  MaxCtl       \* bound on breaks and changes of the line settings

ASSUME SerScifAssumption ==
  /\ FifoLen \in Nat \ {0} /\ Trigger \in 0..(FifoLen - 1) /\ RxLen \in Nat \ {0}
  /\ HighWater \in Nat \ {0}
  /\ MaxOut \in Nat /\ MaxIn \in Nat /\ MaxCtl \in Nat

Actor == {"tto", "isr"}

(* Bits of SCSCR; RIE stands for rx_intr_mask, the RIE and REIE bits.      *)
Bit == {"TE", "RE", "TIE", "RIE"}

Char == {"data", "xoff", "xon"}

(* One operation of a program: a read-modify-write of SCSCR with a mask    *)
(* and the data for it, or a step named by its op.                         *)
Rmw(mask, data) == [op |-> "rmw", mask |-> mask, data |-> data]
Do(op)          == [op |-> op, mask |-> {}, data |-> {}]

VARIABLES
  scscr,      \* the bits set in SCSCR
  rfrst,      \* SCFCR.RFRST, the receive FIFO is held in reset
  txf,        \* characters in the transmit FIFO
  tdfe,       \* SCFSR.TDFE
  rxf,        \* the receive FIFO
  err,        \* a receive error is pending: ER, PER, FER or BRK of SCFSR
  obuf,       \* characters in the output buffer
  ibuf,       \* characters in the input buffer, counted up to HighWater
  paged,      \* OSW_PAGED: the other end sent XOFF
  ihw,        \* IHW_PAGED: io-char has asked the other end to stop
  rts_flag,   \* dev->rts_flag
  tx_tmr,     \* tty.un.s.tx_tmr is not zero
  event_tto,  \* EVENT_TTO
  queued,     \* EVENT_QUEUED
  status,     \* status of ser_intr
  todo,       \* [Actor -> what is left of its call]
  got,        \* [Actor -> what it has read of SCSCR, as a set of 0 or 1]
  brk,        \* history: a break is being sent
  clobbered,  \* history: bits whose last order was undone by the other side
  left        \* what the bounds leave

line  == <<txf, tdfe, rxf, err, rfrst>>
bufs  == <<obuf, ibuf, paged, ihw>>
event == <<event_tto, queued, status, tx_tmr>>
regs  == <<scscr, got, clobbered>>
vars  == <<scscr, rfrst, txf, tdfe, rxf, err, obuf, ibuf, paged, ihw, rts_flag,
           tx_tmr, event_tto, queued, status, todo, got, brk, clobbered, left>>

(* Every variable has its type: no FIFO or buffer overflows, and what a    *)
(* set_port16() has read belongs to the write that follows.                *)
TypeOK ==
  /\ scscr \subseteq Bit /\ clobbered \subseteq Bit \ {"TIE"}
  /\ txf \in 0..FifoLen /\ obuf \in 0..MaxOut /\ ibuf \in 0..HighWater
  /\ rxf \in Seq(Char) /\ Len(rxf) <= RxLen
  /\ {rfrst, tdfe, err, paged, ihw, rts_flag, tx_tmr, event_tto, queued, status,
      brk} \subseteq BOOLEAN
  /\ \A a \in Actor :
       /\ \E S \in SUBSET Bit : got[a] \in {{}, {S}}
       /\ \A i \in 1..Len(todo[a]) :
            todo[a][i] \in [op : {"rmw", "rts_on", "rts_off", "fill", "clear",
                                  "rearm", "reset", "baud", "rx",
                                  "read", "tx", "tx_done", "queue"},
                            mask : SUBSET Bit, data : SUBSET Bit]
       /\ got[a] # {} => /\ todo[a] # <<>>
                         /\ Head(todo[a]).op = "rmw"
  /\ left \in [out : 0..MaxOut, in : 0..MaxIn, ctl : 0..MaxCtl]

(* create_device: the handler is attached with everything disabled, then   *)
(* ser_stty_scif enables transmitter, receiver and receive interrupts.     *)
Init ==
  /\ scscr = {"TE", "RE", "RIE"} /\ clobbered = {}
  /\ txf = 0 /\ tdfe = TRUE /\ rxf = <<>> /\ obuf = 0 /\ ibuf = 0
  /\ rfrst = FALSE /\ err = FALSE /\ paged = FALSE /\ ihw = FALSE /\ rts_flag = FALSE
  /\ tx_tmr = FALSE /\ event_tto = FALSE /\ queued = FALSE /\ status = FALSE
  /\ todo = [a \in Actor |-> <<>>] /\ got = [a \in Actor |-> {}]
  /\ brk = FALSE
  /\ left = [out |-> MaxOut, in |-> MaxIn, ctl |-> MaxCtl]

-----------------------------------------------------------------------------
(* The shape of a step.                                                    *)
At(a, op)   == todo[a] # <<>> /\ Head(todo[a]).op = op
Becomes(a, prog) == todo' = [todo EXCEPT ![a] = prog]
Rest(a)     == Tail(todo[a])

(* set_port16, in16: the register is read.                                 *)
in16(a) ==
  /\ At(a, "rmw") /\ got[a] = {}
  /\ got' = [got EXCEPT ![a] = {scscr}]
  /\ UNCHANGED <<scscr, clobbered, todo, line, bufs, event, rts_flag, brk, left>>

(* The bits outside its mask that the write of actor a changes, and RIE    *)
(* when the handler clears it for a flow control that has ended since it   *)
(* looked at rts_flag.  TIE is not counted: nothing here depends on it.    *)
Undone(a, was, m) ==
  (((was \ scscr) \cup (scscr \ was)) \ (m \cup {"TIE"}))
    \cup {b \in m : b = "RIE" /\ a = "isr" /\ ~rts_flag}

(* set_port16, out16: the bits of the mask are as ordered, the others as   *)
(* they were when the register was read.                                   *)
out16(a) ==
  /\ At(a, "rmw")
  /\ \E was \in got[a] :
       LET o == Head(todo[a]) IN
       /\ scscr' = (was \ o.mask) \cup o.data
       /\ clobbered' = (clobbered \ o.mask) \cup Undone(a, was, o.mask)
  /\ got' = [got EXCEPT ![a] = {}]
  /\ Becomes(a, Rest(a))
  /\ UNCHANGED <<line, bufs, event, rts_flag, brk, left>>

-----------------------------------------------------------------------------
(* tto(), called by io-char's thread.                                      *)

(* TTO_DATA and TTO_EVENT: nothing when the other end has sent XOFF.       *)
tto_data ==
  Becomes("tto", IF paged THEN <<>>
                 ELSE <<Do("fill"), Do("clear"), Do("rearm")>>)

(* A client writes MaxOut characters; the library puts them in the output  *)
(* buffer and calls tto().                                                 *)
write ==
  /\ todo["tto"] = <<>> /\ left.out > 0
  /\ obuf' = obuf + left.out
  /\ left' = [left EXCEPT !.out = 0]
  /\ tto_data
  /\ UNCHANGED <<regs, line, ibuf, paged, ihw, event, rts_flag, brk>>

(* The library takes the device off the event queue.                       *)
take_event ==
  /\ todo["tto"] = <<>> /\ queued
  /\ queued' = FALSE /\ event_tto' = FALSE
  /\ IF event_tto THEN tto_data ELSE UNCHANGED todo
  /\ UNCHANGED <<regs, line, bufs, status, tx_tmr, rts_flag, brk, left>>

(* The library's timer: a device that LOSES_TX_INTR is called again.       *)
tx_timeout ==
  /\ todo["tto"] = <<>> /\ tx_tmr
  /\ tx_tmr' = FALSE
  /\ tto_data
  /\ UNCHANGED <<regs, line, bufs, event_tto, queued, status, rts_flag, brk,
                 left>>

(* One character goes from the output buffer to the FIFO, while there is   *)
(* one and the FIFO has room (scfdr_tx).                                   *)
tto_fill ==
  /\ At("tto", "fill")
  /\ IF obuf > 0 /\ txf < FifoLen
       THEN obuf' = obuf - 1 /\ txf' = txf + 1 /\ UNCHANGED todo
       ELSE Becomes("tto", Rest("tto")) /\ UNCHANGED <<obuf, txf>>
  /\ UNCHANGED <<regs, tdfe, rxf, err, rfrst, ibuf, paged, ihw, event, rts_flag,
                 brk, left>>

(* TDFE is cleared.  When the FIFO has drained to the trigger level again  *)
(* the controller may set it anew, or not: the interrupt can be lost.      *)
(* With nothing left to send the call has ended.                           *)
tto_clear ==
  /\ At("tto", "clear")
  /\ tdfe' \in {FALSE, txf <= Trigger}
  /\ Becomes("tto", IF obuf = 0 THEN <<>> ELSE Rest("tto"))
  /\ UNCHANGED <<regs, txf, rxf, err, rfrst, bufs, event, rts_flag, brk, left>>

(* Mutant: the time-out is not armed.                                      *)
tto_rearm_untimed ==
  /\ At("tto", "rearm")
  /\ Becomes("tto", IF ~paged THEN <<Rmw({"TIE"}, {"TIE"})>> ELSE <<>>)
  /\ UNCHANGED <<regs, line, bufs, event, rts_flag, brk, left>>

(* What does not fit waits for the transmit interrupt, or the time-out.    *)
tto_rearm ==
  /\ At("tto", "rearm")
  /\ IF ~paged
       THEN tx_tmr' = TRUE /\ Becomes("tto", <<Rmw({"TIE"}, {"TIE"})>>)
       ELSE Becomes("tto", <<>>) /\ UNCHANGED tx_tmr
  /\ UNCHANGED <<regs, line, bufs, event_tto, queued, status, rts_flag, brk,
                 left>>

(* TTO_CTRL with _SERCTL_BRK_CHG.                                          *)
tto_break ==
  /\ todo["tto"] = <<>> /\ (brk \/ left.ctl > 0)
  /\ brk' = ~brk
  /\ left' = IF brk THEN left ELSE [left EXCEPT !.ctl = @ - 1]
  /\ Becomes("tto", <<Rmw({"TE"}, IF brk THEN {"TE"} ELSE {})>>)
  /\ UNCHANGED <<regs, line, bufs, event, rts_flag>>

(* TTO_CTRL with _SERCTL_RTS_CHG: io-char's input buffer is almost full.   *)
tto_rts_off ==
  /\ todo["tto"] = <<>> /\ ~ihw /\ ibuf >= HighWater
  /\ ihw' = TRUE
  /\ Becomes("tto", <<Rmw({"RIE"}, {}), Do("rts_off")>>)
  /\ UNCHANGED <<regs, line, obuf, ibuf, paged, event, rts_flag, brk, left>>

(* Mutant: the level of RTS is not looked at.                              *)
tto_rts_on_stop ==
  /\ todo["tto"] = <<>> /\ ihw /\ ibuf = 0
  /\ ihw' = FALSE
  /\ Becomes("tto", <<Rmw({"RIE"}, {}), Do("rts_off")>>)
  /\ UNCHANGED <<regs, line, obuf, ibuf, paged, event, rts_flag, brk, left>>

(* TTO_CTRL with _SERCTL_RTS_CHG and _SERCTL_RTS: there is room again.     *)
tto_rts_on ==
  /\ todo["tto"] = <<>> /\ ihw /\ ibuf = 0
  /\ ihw' = FALSE
  /\ Becomes("tto", <<Do("rts_on"), Rmw({"RIE"}, {"RIE"})>>)
  /\ UNCHANGED <<regs, line, obuf, ibuf, paged, event, rts_flag, brk, left>>

set_rts_flag ==
  /\ (At("tto", "rts_on") \/ At("tto", "rts_off"))
  /\ rts_flag' = At("tto", "rts_off")
  /\ Becomes("tto", Rest("tto"))
  /\ UNCHANGED <<regs, line, bufs, event, brk, left>>

(* TTO_STTY with new settings, CREAD among them: the transceiver and both  *)
(* FIFOs are reset and enabled again.  A new baud rate also writes the     *)
(* clock bits of SCSCR, which are not among the bits here.                 *)
ser_stty_scif ==
  /\ todo["tto"] = <<>> /\ left.ctl > 0
  /\ left' = [left EXCEPT !.ctl = @ - 1]
  /\ brk' = FALSE
  /\ \E reset \in {<<Do("reset")>>, <<Rmw({}, {}), Do("baud")>>} :
       Becomes("tto", <<Rmw({"RE", "TE"}, {})>> \o reset \o <<Rmw({"TE"}, {"TE"})>>)
  /\ UNCHANGED <<regs, line, bufs, event, rts_flag>>

ReceiverOn == {"RE", "RIE"} \subseteq scscr

(* Mutant: the receiver is enabled with rts_flag as it was.                *)
stty_reset_keep ==
  /\ (At("tto", "reset") \/ At("tto", "baud"))
  /\ txf' = 0 /\ tdfe' = TRUE /\ rxf' = <<>>
  /\ rfrst' = (ReceiverOn /\ At("tto", "reset"))
  /\ Becomes("tto", IF ReceiverOn THEN Rest("tto")
                    ELSE <<Rmw({"RE", "RIE"}, {"RE", "RIE"})>> \o Rest("tto"))
  /\ UNCHANGED <<regs, err, bufs, event, rts_flag, brk, left>>

(* The FIFOs are reset.  The receive FIFO is taken out of reset, and the   *)
(* receiver enabled, if the register says that the receiver, or its        *)
(* interrupt, is not enabled; a new baud rate takes the FIFO out of reset  *)
(* in any case.  A receive error stays pending although its character is   *)
(* gone.                                                                   *)
stty_reset ==
  /\ (At("tto", "reset") \/ At("tto", "baud"))
  /\ txf' = 0 /\ tdfe' = TRUE /\ rxf' = <<>>
  /\ rfrst' = (ReceiverOn /\ At("tto", "reset"))
  /\ Becomes("tto", IF ReceiverOn THEN Rest("tto")
                    ELSE <<Do("rts_on"), Rmw({"RE", "RIE"}, {"RE", "RIE"})>>
                           \o Rest("tto"))
  /\ UNCHANGED <<regs, err, bufs, event, rts_flag, brk, left>>

-----------------------------------------------------------------------------
(* ser_intr().                                                             *)

(* The interrupt line of the controller.  RDF and DR, which read_char      *)
(* clears, are set again while the FIFO holds a character.                 *)
Raised == \/ "TIE" \in scscr /\ tdfe
          \/ "RIE" \in scscr /\ (rxf # <<>> \/ err)

ser_intr ==
  /\ todo["isr"] = <<>> /\ Raised
  /\ Becomes("isr", <<Do("rx"), Do("tx"), Do("queue")>>)
  /\ UNCHANGED <<regs, line, bufs, event, rts_flag, brk, left>>

(* tti() of the library: what a character does to the buffers, and the     *)
(* events it makes.                                                        *)
tti(c) ==
  /\ ibuf' = IF c = "data" /\ ibuf < HighWater THEN ibuf + 1 ELSE ibuf
  /\ paged' = CASE c = "xoff" -> TRUE [] c = "xon" -> FALSE [] OTHER -> paged
  /\ event_tto' = (event_tto \/ c = "xon")
  /\ status' \in {c # "xoff", c = "xon" \/ ibuf' >= HighWater}

(* Errors are cleared before a character is read, and nowhere else.        *)
error_handling == err' = FALSE

(* Characters are read unless the input is flow controlled, until tti has  *)
(* something to tell the thread or the FIFO is empty.                      *)
(* rts_flag is looked at before the first only; ser_stty_scif may reset    *)
(* the FIFO between two of them.                                           *)
intr_read ==
  /\ (At("isr", "rx") /\ ~rts_flag) \/ At("isr", "read")
  /\ rxf # <<>>
  /\ tti(Head(rxf))
  /\ error_handling /\ rxf' = Tail(rxf)
  /\ Becomes("isr", IF status' \/ Tail(rxf) = <<>>
                    THEN Rest("isr") ELSE <<Do("read")>> \o Rest("isr"))
  /\ UNCHANGED <<regs, txf, tdfe, rfrst, obuf, ihw, queued, tx_tmr, rts_flag,
                 brk, left>>

(* Mutant: flow controlled, the handler just leaves the characters.        *)
intr_rx_leave ==
  /\ \/ At("isr", "rx") /\ (rts_flag \/ rxf = <<>>)
     \/ At("isr", "read") /\ rxf = <<>>
  /\ Becomes("isr", Rest("isr"))
  /\ UNCHANGED <<regs, line, bufs, event, rts_flag, brk, left>>

(* The FIFO is empty, or the input is flow controlled and the receive      *)
(* interrupts are disabled.                                                *)
intr_rx ==
  /\ \/ At("isr", "rx") /\ (rts_flag \/ rxf = <<>>)
     \/ At("isr", "read") /\ rxf = <<>>
  /\ Becomes("isr", IF rxf = <<>> THEN Rest("isr")
                    ELSE <<Rmw({"RIE"}, {})>> \o Rest("isr"))
  /\ UNCHANGED <<regs, line, bufs, event, rts_flag, brk, left>>

(* process_tx: the transmit interrupt is disabled and tto() called for.    *)
(* TDFE and SCSCR are read in one step.  A handler with nothing to report  *)
(* has ended.                                                              *)
process_tx ==
  /\ At("isr", "tx")
  /\ IF tdfe
       THEN /\ got' = [got EXCEPT !["isr"] = {scscr}]
            /\ Becomes("isr", <<Rmw({"TIE"}, {}), Do("tx_done")>> \o Rest("isr"))
       ELSE Becomes("isr", IF status THEN Rest("isr") ELSE <<>>) /\ UNCHANGED got
  /\ UNCHANGED <<scscr, clobbered, line, bufs, event, rts_flag, brk, left>>

tx_done ==
  /\ At("isr", "tx_done")
  /\ tx_tmr' = FALSE /\ event_tto' = TRUE /\ status' = TRUE
  /\ Becomes("isr", Rest("isr"))
  /\ UNCHANGED <<regs, line, bufs, queued, rts_flag, brk, left>>

(* The device is queued unless it is in the event queue.                   *)
intr_queue ==
  /\ At("isr", "queue")
  /\ queued' = TRUE /\ status' = FALSE
  /\ Becomes("isr", Rest("isr"))
  /\ UNCHANGED <<regs, line, bufs, event_tto, tx_tmr, rts_flag, brk, left>>

-----------------------------------------------------------------------------
(* The line, and the client that reads.                                    *)

(* A character leaves the transmit FIFO.                                   *)
transmit ==
  /\ "TE" \in scscr /\ txf > 0
  /\ txf' = txf - 1
  /\ tdfe' = (tdfe \/ txf' <= Trigger)
  /\ UNCHANGED <<regs, rxf, err, rfrst, bufs, event, rts_flag, todo, brk, left>>

(* XON comes after an XOFF, and an XOFF is not repeated.                   *)
stopped == paged \/ \E i \in 1..Len(rxf) : rxf[i] = "xoff"

(* A character arrives, data perhaps with a framing or parity error or as  *)
(* a break; the hardware flow control stops the other end when the FIFO is *)
(* full.                                                                   *)
receive ==
  /\ "RE" \in scscr /\ ~rfrst /\ Len(rxf) < RxLen /\ left.in > 0
  /\ \E c \in {"data", IF stopped THEN "xon" ELSE "xoff"} :
       /\ rxf' = Append(rxf, c)
       /\ err' \in {err, err \/ c = "data"}
  /\ left' = [left EXCEPT !.in = @ - 1]
  /\ UNCHANGED <<regs, txf, tdfe, rfrst, bufs, event, rts_flag, todo, brk>>

read ==
  /\ ibuf > 0
  /\ ibuf' = 0
  /\ UNCHANGED <<regs, line, obuf, paged, ihw, event, rts_flag, todo, brk, left>>

-----------------------------------------------------------------------------
TtoStep ==
  \/ in16("tto") \/ out16("tto") \/ set_rts_flag
  \/ tto_fill \/ tto_clear \/ tto_rearm
  \/ stty_reset

Event == take_event \/ tx_timeout \/ tto_rts_off \/ tto_rts_on

IsrStep ==
  \/ ser_intr \/ in16("isr") \/ out16("isr")
  \/ intr_rx \/ intr_read \/ process_tx \/ tx_done \/ intr_queue

Next ==
  \/ TtoStep \/ IsrStep \/ Event
  \/ write \/ tto_break \/ ser_stty_scif
  \/ transmit \/ receive \/ read

Spec == Init /\ [][Next]_vars

(* A processor runs the handler to its end, the library's thread runs its  *)
(* calls to their end and takes its events and time-outs, and the          *)
(* controller sends what is in its FIFO.                                   *)
FairSpec ==
  Spec /\ WF_vars(TtoStep \/ Event) /\ WF_vars(IsrStep)
       /\ WF_vars(transmit)

-----------------------------------------------------------------------------
(* Between two calls of tto(), wherever the handler is, the control        *)
(* register is as the last calls ordered it, unless a write of the other   *)
(* side has put a bit back: the transmitter is on when no break is sent,   *)
(* the receiver is on and out of reset, and its interrupts are on exactly  *)
(* when the input is not flow controlled.  Each set_port16() may undo the  *)
(* other side's in between.                                                *)
ControlAsOrdered ==
  todo["tto"] = <<>> /\ clobbered = {} =>
    /\ "TE" \in scscr <=> ~brk
    /\ "RE" \in scscr /\ ~rfrst
    /\ "RIE" \in scscr <=> ~rts_flag

(* Output that the other end allows and the transmitter can send is sent,  *)
(* whatever becomes of transmit interrupts: TIE that the handler's write   *)
(* puts back, TDFE cleared after the FIFO has drained.                     *)
OutputDrains ==
  <>[](~paged /\ "TE" \in scscr) => <>[](obuf = 0)

(* Unless an order to SCSCR is undone for good, what is received reaches   *)
(* the input buffer or waits for a client to make room.                    *)
InputDelivered ==
  <>[](clobbered = {}) => <>[](rxf = <<>> \/ ihw)

(* ser_intr(): "or we could lock up the board, stuck in the ISR".  Once     *)
(* tto() is not called any more, the handler is not entered for ever,      *)
(* provided that no error stays pending with the FIFO empty: the handler   *)
(* clears errors only when there is a character to read, so an error whose *)
(* character a reset of the FIFO has discarded keeps the line raised.      *)
HandlerRests ==
  <>[](todo["tto"] = <<>>) /\ <>[](err => rxf # <<>>) => <>[](todo["isr"] = <<>>)
=============================================================================
