------------------------------- MODULE RcarRpc -------------------------------
(***************************************************************************)
(* Reads and writes of the HyperFlash through the RPC controller and two   *)
(* DMA channels (hardware/flash/boards/rcar_qspi/rcar_rpc.c).  Lengths and *)
(* addresses count words of four bytes, the unit of the transfers: devf    *)
(* makes no smaller access (set_flash_config).                             *)
(***************************************************************************)
EXTENDS Integers, Sequences, DmaXfer

CONSTANTS
  Words,       \* number of words in the flash
  Chunk,       \* words programmed at a time (256 bytes)
  Requests     \* the reads and writes devf asks for

Line  == 2     \* eight bytes: a shorter rest is programmed word by word
Addrs == 0 .. Words - 1
Lens  == 0 .. Words

ASSUME RpcAssumption ==
  /\ Words \in Nat \ {0} /\ Chunk \in Nat \ {0} /\ Chunk % Line = 0
  /\ Requests \subseteq [dir : {"read", "write"}, addr : Addrs, len : Lens \ {0}, val : Nat]
  /\ \A r \in Requests : r.addr + r.len <= Words

VARIABLES
  rx, tx,      \* the DMA channels
  pulses,      \* RDMA and TDMA events waiting in the channel chid
  pc, req, rc, \* the operation, its arguments and its result
  i,           \* words of the write that are programmed
  early,       \* history: a time-out has expired before the end of its transfer
  dbuf, txbuf, \* the DMA buffer for reads, and for writes
  wbuf,        \* write buffer of the RPC controller
  flash,
  busy         \* the controller lacks TEND, or the flash DEVICE_READY

oper == <<req, rc, i, early>>
mem  == <<dbuf, txbuf, wbuf, flash, busy>>
vars == <<rx, tx, pulses, pc, oper, mem>>

None == [dir |-> "read", addr |-> 0, len |-> 0, val |-> 0]
Old  == <<0, 0>>                 \* contents of a buffer before its first use
Word(a) == <<req.val, a>>        \* what the write means for address a

Init ==
  /\ rx = Attached /\ tx = Attached /\ pulses = <<>>
  /\ pc = "idle" /\ req = None /\ rc = 0 /\ i = 0 /\ early = FALSE
  /\ dbuf = [k \in Addrs |-> Old]
  /\ txbuf = [k \in 0 .. Chunk - 1 |-> Old] /\ wbuf = txbuf
  /\ flash = [a \in Addrs |-> Old] /\ busy = FALSE
-----------------------------------------------------------------------------
rpc_read(r) ==
  /\ pc = "idle" /\ r.dir = "read"
  /\ req' = r /\ rc' = 0
  /\ rx' = dma_start(dma_setup_xfer(rx, r.addr, r.len))
  /\ pc' = "wait"
  /\ UNCHANGED <<tx, pulses, i, early, mem>>

rpc_write(r) ==
  /\ pc = "idle" /\ r.dir = "write"
  /\ req' = r /\ rc' = 0 /\ i' = 0
  /\ pc' = "write"
  /\ UNCHANGED <<rx, tx, pulses, early, mem>>

(* The loop of rpc_write over the buffers, and the rest after it.  Each    *)
(* part begins with three commands (rpc_enable_write, rpc_write_cmd) and   *)
(* ends with the programming; the driver polls after both, without a       *)
(* time-out (rpc_wait_tx_end, rpc_read_status).                            *)
Whole == req.len - (req.len % Line)
Add   == req.addr + i
Length == IF Whole - i >= Chunk THEN Chunk ELSE Whole - i

rpc_enable_write ==
  /\ pc = "write" /\ i < req.len
  /\ busy' = TRUE /\ pc' = "command"
  /\ UNCHANGED <<rx, tx, pulses, oper, dbuf, txbuf, wbuf, flash>>

rpc_write_buffer ==
  /\ pc = "command" /\ ~busy /\ i < Whole
  /\ txbuf' = [k \in DOMAIN txbuf |-> IF k < Length THEN Word(Add + k) ELSE txbuf[k]]
  /\ tx' = dma_start(dma_setup_xfer(tx, 0, Length))
  /\ pc' = "wait"
  /\ UNCHANGED <<rx, pulses, oper, dbuf, wbuf, flash, busy>>

\* Mutant: the buffer is programmed where the first one was.
write_buffer_program_first ==
  /\ pc \in {"ok", "eio"} /\ req.dir = "write"
  /\ flash' = [a \in Addrs |-> IF a \in req.addr .. req.addr + Length - 1
                                 THEN wbuf[a - req.addr] ELSE flash[a]]
  /\ i' = i + Length
  /\ busy' = TRUE /\ pc' = "program"
  /\ UNCHANGED <<rx, tx, pulses, req, rc, early, dbuf, txbuf, wbuf>>

write_buffer_program ==
  /\ pc \in {"ok", "eio"} /\ req.dir = "write"
  /\ flash' = [a \in Addrs |-> IF a \in Add .. Add + Length - 1 THEN wbuf[a - Add] ELSE flash[a]]
  /\ i' = i + Length
  /\ busy' = TRUE /\ pc' = "program"
  /\ UNCHANGED <<rx, tx, pulses, req, rc, early, dbuf, txbuf, wbuf>>

rpc_write_word ==
  /\ pc = "command" /\ ~busy /\ i >= Whole
  /\ flash' = [a \in Addrs |-> IF a \in Add .. req.addr + req.len - 1 THEN Word(a) ELSE flash[a]]
  /\ i' = req.len
  /\ busy' = TRUE /\ pc' = "program"
  /\ UNCHANGED <<rx, tx, pulses, req, rc, early, dbuf, txbuf, wbuf>>

rpc_read_status ==
  /\ pc = "program" /\ ~busy
  /\ pc' = "write"
  /\ UNCHANGED <<rx, tx, pulses, oper, mem>>

write_return ==
  /\ pc = "write" /\ i = req.len
  /\ rc' = req.len /\ pc' = "done"
  /\ UNCHANGED <<rx, tx, pulses, req, i, early, mem>>

read_return ==
  /\ pc \in {"ok", "eio"} /\ req.dir = "read"
  /\ rc' = IF pc = "ok" THEN req.len ELSE 0
  /\ pc' = "done"
  /\ UNCHANGED <<rx, tx, pulses, req, i, early, mem>>
-----------------------------------------------------------------------------
(* rpc_wait fails with a pulse for a channel that has units left, and with *)
(* a time-out.                                                             *)
Pulse(p) == pc = "wait" /\ pulses # <<>> /\ Head(pulses) = p /\ pulses' = Tail(pulses)

\* Mutant: the pulse is believed.
wait_rdma_unchecked ==
  /\ Pulse("rdma")
  /\ rx' = xfer_complete(rx)
  /\ pc' = IF req.dir = "read" THEN "ok" ELSE "wait"
  /\ UNCHANGED <<tx, oper, mem>>

wait_rdma ==
  /\ Pulse("rdma")
  /\ IF dma_bytes_left(rx) # 0
       THEN pc' = "fail" /\ UNCHANGED rx
       ELSE rx' = xfer_complete(rx) /\ pc' = IF req.dir = "read" THEN "ok" ELSE "wait"
  /\ UNCHANGED <<tx, oper, mem>>

wait_tdma ==
  /\ Pulse("tdma")
  /\ IF dma_bytes_left(tx) # 0
       THEN pc' = "fail" /\ UNCHANGED tx
       ELSE tx' = xfer_complete(tx) /\ pc' = IF req.dir = "write" THEN "ok" ELSE "wait"
  /\ UNCHANGED <<rx, oper, mem>>

Awaited == IF req.dir = "read" THEN rx ELSE tx

\* Mutant: the wait goes on after a time-out.
wait_timeout_again ==
  /\ pc = "wait" /\ pulses = <<>>
  /\ UNCHANGED vars

wait_timeout ==
  /\ pc = "wait" /\ pulses = <<>>
  /\ early' = (early \/ Running(Awaited) \/ Interrupting(Awaited))
  /\ pc' = "fail"
  /\ UNCHANGED <<rx, tx, pulses, req, rc, i, mem>>

(* rpc_dma_xfer aborts the receive channel after a failure.                *)
rpc_dma_xfer ==
  /\ pc = "fail"
  /\ rx' = dma_abort(rx)
  /\ pc' = "eio"
  /\ UNCHANGED <<tx, pulses, oper, mem>>

(* devf takes the result.                                                  *)
return ==
  /\ pc = "done"
  /\ pc' = "idle"
  /\ UNCHANGED <<rx, tx, pulses, oper, mem>>
-----------------------------------------------------------------------------
rx_unit ==
  /\ Running(rx)
  /\ dbuf' = [dbuf EXCEPT ![Position(rx)] = flash[rx.addr + Position(rx)]]
  /\ rx' = Moved(rx)
  /\ UNCHANGED <<tx, pulses, pc, oper, txbuf, wbuf, flash, busy>>

tx_unit ==
  /\ Running(tx)
  /\ wbuf' = [wbuf EXCEPT ![Position(tx)] = txbuf[Position(tx)]]
  /\ tx' = Moved(tx)
  /\ UNCHANGED <<rx, pulses, pc, oper, dbuf, txbuf, flash, busy>>

rx_event ==
  /\ Interrupting(rx)
  /\ rx' = Delivered(rx) /\ pulses' = Append(pulses, "rdma")
  /\ UNCHANGED <<tx, pc, oper, mem>>

tx_event ==
  /\ Interrupting(tx)
  /\ tx' = Delivered(tx) /\ pulses' = Append(pulses, "tdma")
  /\ UNCHANGED <<rx, pc, oper, mem>>

device_ready ==
  /\ busy /\ busy' = FALSE
  /\ UNCHANGED <<rx, tx, pulses, pc, oper, dbuf, txbuf, wbuf, flash>>
-----------------------------------------------------------------------------
Driver ==
  \/ rpc_enable_write \/ rpc_write_buffer \/ write_buffer_program \/ rpc_write_word
  \/ rpc_read_status \/ write_return \/ read_return
  \/ wait_rdma \/ wait_tdma \/ wait_timeout \/ rpc_dma_xfer \/ return
Hardware == rx_unit \/ tx_unit \/ rx_event \/ tx_event \/ device_ready
Next == Driver \/ Hardware \/ \E r \in Requests : rpc_read(r) \/ rpc_write(r)

Spec     == Init /\ [][Next]_vars
FairSpec == Spec /\ WF_vars(Driver)     \* the hardware may stall for ever
-----------------------------------------------------------------------------
(* Every variable has its type.  At most three pulses wait: one of the     *)
(* transmit channel, which only its own pulse unmasks, and two of the      *)
(* receive channel, which an abort unmasks too.                            *)
Cells == {Old} \cup {<<r.val, a>> : r \in Requests, a \in Addrs}
TypeOK ==
  /\ rx \in ChannelType(Lens, Addrs) /\ tx \in ChannelType(0 .. Chunk, {0})
  /\ pulses \in Seq({"rdma", "tdma"}) /\ Len(pulses) <= 3
  /\ pc \in {"idle", "write", "command", "wait", "program", "ok", "fail", "eio", "done"}
  /\ req \in Requests \cup {None} /\ rc \in Lens /\ i \in Lens /\ {early, busy} \subseteq BOOLEAN
  /\ dbuf \in [Addrs -> Cells] /\ flash \in [Addrs -> Cells]
  /\ txbuf \in [0 .. Chunk - 1 -> Cells] /\ wbuf \in [0 .. Chunk - 1 -> Cells]

(* rpc_read returns the flash's words or nothing, although time-outs race  *)
(* late completions and pulses of earlier transfers are still queued.      *)
ReadReturnsFlash ==
  pc = "done" /\ req.dir = "read" /\ rc # 0
    => rc = req.len /\ \A k \in 0 .. req.len - 1 : dbuf[k] = flash[req.addr + k]

(* rpc_write that returns the length has programmed every word, buffer by  *)
(* buffer and word by word ("verify data was written correctly") ...       *)
WriteReturnsWritten ==
  pc = "done" /\ req.dir = "write" /\ rc # 0
    => rc = req.len /\ \A a \in req.addr .. req.addr + req.len - 1 : flash[a] = Word(a)

(* ... until a time-out has expired early.                                 *)
WrittenUntilEarly == ~early => WriteReturnsWritten

(* Each event is acknowledged ("it should call this function before        *)
(* engaging in any other interaction with the DMA library"): until a       *)
(* time-out has expired early, no interrupt is masked between operations.  *)
AcknowledgedUntilEarly == ~early /\ pc = "idle" => ~rx.masked /\ ~tx.masked

(* No stale pulse, masked interrupt or DMA transfer that never ends keeps  *)
(* an operation in rpc_wait: its time-out ends each wait, and a read       *)
(* returns whatever the hardware does.  The polls of a write have no       *)
(* time-out: it returns if the controller and the flash get ready again    *)
(* after each command and each programming, and hangs with them otherwise. *)
Asked(dir) == pc # "idle" /\ req.dir = dir
OperationReturns ==
  /\ Asked("read") ~> pc = "done"
  /\ []<>~busy => (Asked("write") ~> pc = "done")
=============================================================================
