---------------------------- MODULE RcarRpcProofs ----------------------------
(***************************************************************************)
(* Theorems about RcarRpc, for every flash, buffer size and set of         *)
(* requests.  A read is right although time-outs race transfers; a write   *)
(* is right until a time-out has expired before the end of a transfer.     *)
(***************************************************************************)
EXTENDS RcarRpc, TLAPS

(* The first n words of the read are in the DMA buffer.                    *)
Copied(n) == \A k \in 0 .. n - 1 : dbuf[k] = flash[req.addr + k]

RxTypes ==
  /\ rx \in ChannelType(Lens, Addrs) /\ rx.tcr <= rx.tot
  /\ req \in Requests \cup {None}
  /\ dbuf = [k \in Addrs |-> dbuf[k]]
  /\ pc \in {"idle", "write", "command", "wait", "program", "ok", "fail", "eio", "done"}
(* Only the read that waits, or fails, lets the receive channel run; what  *)
(* the channel has moved by then is the beginning of what was asked for.   *)
RxOwner == Running(rx) => req.dir = "read" /\ pc \in {"wait", "fail"}
RxCopies ==
  pc = "wait" /\ req.dir = "read"
    => rx.addr = req.addr /\ rx.tot = req.len /\ Copied(Position(rx))
Result ==
  /\ pc \in {"write", "command", "program"} => req.dir = "write"
  /\ pc = "ok" /\ req.dir = "read" => Copied(req.len)
ReadInv == RxTypes /\ RxOwner /\ RxCopies /\ Result /\ ReadReturnsFlash
-----------------------------------------------------------------------------
(* What a transfer that is set up and started makes of a channel.          *)
LEMMA SetupCall ==
  ASSUME NEW L, NEW B, NEW ch \in ChannelType(L, B), NEW a \in B, NEW n \in L,
         NEW c, c = dma_start(dma_setup_xfer(ch, a, n))
  PROVE  /\ c \in ChannelType(L, B) /\ c.ie /\ c.de /\ ~c.te
         /\ c.tcr = n /\ c.tot = n /\ c.addr = a /\ c.masked = ch.masked
BY DEF ChannelType, dma_start, dma_setup_xfer

(* What an aborted or acknowledged channel looks like.                     *)
LEMMA AbortCall ==
  ASSUME NEW L, NEW B, NEW ch \in ChannelType(L, B), NEW c, c = dma_abort(ch)
  PROVE  /\ c \in ChannelType(L, B) /\ ~c.ie /\ ~c.de /\ ~c.te /\ ~c.masked
         /\ c.tcr = ch.tcr /\ c.tot = ch.tot /\ c.addr = ch.addr
BY DEF ChannelType, dma_abort

(* What the delivery of its event makes of a channel.                      *)
LEMMA DeliveredCall ==
  ASSUME NEW L, NEW B, NEW ch \in ChannelType(L, B), NEW c, c = Delivered(ch)
  PROVE  /\ c \in ChannelType(L, B) /\ c.masked /\ c.ie = ch.ie /\ c.de = ch.de
         /\ c.te = ch.te /\ c.tcr = ch.tcr /\ c.tot = ch.tot /\ c.addr = ch.addr
BY DEF ChannelType, Delivered

(* What a moved unit makes of a channel.                                   *)
LEMMA MovedCall ==
  ASSUME NEW N \in Nat, NEW B, NEW ch \in ChannelType(0 .. N, B), ch.tcr > 0,
         NEW c, c = Moved(ch)
  PROVE  /\ c \in ChannelType(0 .. N, B) /\ c.ie = ch.ie /\ c.de = ch.de
         /\ c.te <=> ch.tcr = 1
         /\ c.tcr = ch.tcr - 1 /\ c.tot = ch.tot /\ c.addr = ch.addr /\ c.masked = ch.masked
<1>1. ch.tcr \in 0 .. N /\ ch.tcr - 1 \in 0 .. N
  BY DEF ChannelType
<1> QED
  BY <1>1 DEF ChannelType, Moved

(* The requests that devf may make lie inside the flash.                   *)
LEMMA RequestType ==
  ASSUME NEW r \in Requests
  PROVE  /\ r.addr \in Addrs /\ r.len \in Lens /\ r.len > 0 /\ r.addr + r.len <= Words
         /\ r.dir \in {"read", "write"}
BY RpcAssumption DEF Lens, Addrs

(* The invariant holds initially.                                          *)
LEMMA InitRead == Init => ReadInv
BY RpcAssumption
DEF Init, ReadInv, RxTypes, RxOwner, RxCopies, Result, ReadReturnsFlash, Attached, ChannelType,
    Running, Lens, Addrs, None

(* Every step of the driver and of the hardware keeps it.                  *)
LEMMA StepRead == ReadInv /\ [Next]_vars => ReadInv'
<1> SUFFICES ASSUME ReadInv, [Next]_vars PROVE ReadInv'
  OBVIOUS
<1> USE DEF ReadInv, RxTypes, RxOwner, RxCopies, Result, ReadReturnsFlash, Copied, mem, oper
<1>t. /\ rx \in ChannelType(Lens, Addrs)
      /\ rx.tcr \in Nat /\ rx.tot \in Nat /\ rx.addr \in Nat /\ rx.tot <= Words
  BY RpcAssumption DEF ChannelType, Lens, Addrs
<1>n. req \in Requests => req.len \in Nat /\ req.addr \in Nat
  BY RequestType DEF Lens, Addrs
<1>1. CASE UNCHANGED vars
  BY <1>1 DEF vars, Running, Position
<1>2. ASSUME NEW r \in Requests, rpc_read(r) PROVE ReadInv'
  <2>1. req' = r /\ pc' = "wait" /\ r.dir = "read" /\ UNCHANGED mem
    BY <1>2 DEF rpc_read
  <2>2. /\ rx' \in ChannelType(Lens, Addrs)
        /\ rx'.tcr = r.len /\ rx'.tot = r.len /\ rx'.addr = r.addr
    BY <1>2, <1>t, SetupCall, RequestType DEF rpc_read
  <2>3. r.len \in Nat /\ Position(rx)' = 0
    BY <2>2, RequestType DEF Position, Lens
  <2> QED
    BY <2>1, <2>2, <2>3
<1>3. ASSUME NEW r \in Requests, rpc_write(r) PROVE ReadInv'
  BY <1>3 DEF rpc_write, Running, Position
<1>4. CASE rpc_write_buffer
  BY <1>4 DEF rpc_write_buffer, Running, Position
<1>5. CASE write_buffer_program
  BY <1>5 DEF write_buffer_program, Running, Position
<1>6. CASE rpc_write_word
  BY <1>6 DEF rpc_write_word, Running, Position
<1>7. CASE read_return
  BY <1>7 DEF read_return, Running, Position
<1>8. CASE wait_rdma
  <2>1. CASE dma_bytes_left(rx) # 0
    BY <1>8, <2>1 DEF wait_rdma, Pulse, Running, Position
  <2>2. CASE dma_bytes_left(rx) = 0
    <3>1. rx.tcr = 0 /\ Position(rx) = rx.tot
      BY <2>2, <1>t DEF dma_bytes_left, Position
    <3>2. /\ pc = "wait" /\ pc' = IF req.dir = "read" THEN "ok" ELSE "wait"
          /\ rx' = dma_abort(rx) /\ UNCHANGED <<oper, mem>>
      BY <1>8, <2>2 DEF wait_rdma, Pulse, xfer_complete
    <3>3. /\ rx' \in ChannelType(Lens, Addrs) /\ ~rx'.de
          /\ rx'.tcr = rx.tcr /\ rx'.tot = rx.tot /\ rx'.addr = rx.addr
      BY <3>2, <1>t, AbortCall
    <3> QED
      BY <3>1, <3>2, <3>3 DEF Running, Position
  <2> QED
    BY <2>1, <2>2
<1>9. CASE wait_tdma
  BY <1>9 DEF wait_tdma, Pulse, Running, Position
<1>10. CASE wait_timeout
  BY <1>10 DEF wait_timeout, Running, Position
<1>11. CASE rpc_dma_xfer
  <2>1. rx' = dma_abort(rx) /\ pc' = "eio" /\ UNCHANGED <<oper, mem>>
    BY <1>11 DEF rpc_dma_xfer
  <2>2. rx' \in ChannelType(Lens, Addrs) /\ ~rx'.de /\ rx'.tcr = rx.tcr /\ rx'.tot = rx.tot
    BY <2>1, <1>t, AbortCall
  <2> QED
    BY <2>1, <2>2 DEF Running
<1>12. CASE return
  BY <1>12 DEF return, Running, Position
<1>13. CASE rx_unit
  <2>1. UNCHANGED <<pc, oper, flash>> /\ rx.tcr > 0 /\ Running(rx) /\ rx' = Moved(rx)
    BY <1>13 DEF rx_unit, Running
  <2>2. /\ rx' \in ChannelType(Lens, Addrs)
        /\ rx'.tcr = rx.tcr - 1 /\ rx'.tot = rx.tot /\ rx'.addr = rx.addr
    BY <2>1, <1>t, MovedCall, RpcAssumption DEF Lens
  <2>3. Position(rx) \in Addrs /\ Position(rx)' = Position(rx) + 1
    BY <2>1, <2>2, <1>t, RpcAssumption DEF Position, Addrs
  <2>4. dbuf' = [dbuf EXCEPT ![Position(rx)] = flash[rx.addr + Position(rx)]]
    BY <1>13 DEF rx_unit
  <2>5. dbuf' = [k \in Addrs |-> dbuf'[k]]
    BY <2>3, <2>4
  <2>6. RxCopies'
    <3>n. Position(rx) \in Nat /\ 0 .. Position(rx)' - 1 = 0 .. Position(rx)
      BY <2>3, RpcAssumption DEF Addrs
    <3> SUFFICES ASSUME pc = "wait", req.dir = "read", NEW k \in 0 .. Position(rx)
                 PROVE  /\ rx.addr = req.addr /\ rx.tot = req.len
                        /\ dbuf'[k] = flash[req.addr + k]
      BY <2>1, <2>2, <3>n
    <3>1. k \in Addrs /\ (k = Position(rx) \/ k \in 0 .. Position(rx) - 1)
      BY <2>3, RpcAssumption DEF Addrs
    <3>2. dbuf'[k] = IF k = Position(rx) THEN flash[rx.addr + k] ELSE dbuf[k]
      BY <2>3, <2>4, <3>1
    <3> QED
      BY <3>1, <3>2
  <2> QED
    BY <2>1, <2>2, <2>5, <2>6, <1>t
<1>14. CASE tx_unit
  BY <1>14 DEF tx_unit, Running, Position
<1>15. CASE rx_event
  <2>1. rx' = Delivered(rx) /\ UNCHANGED <<pc, oper, mem>>
    BY <1>15 DEF rx_event
  <2>2. /\ rx' \in ChannelType(Lens, Addrs) /\ rx'.de = rx.de /\ rx'.te = rx.te
        /\ rx'.tcr = rx.tcr /\ rx'.tot = rx.tot /\ rx'.addr = rx.addr
    BY <2>1, <1>t, DeliveredCall
  <2> QED
    BY <2>1, <2>2 DEF Running, Position
<1>16. CASE tx_event
  BY <1>16 DEF tx_event, Running, Position
<1>17. CASE rpc_enable_write
  BY <1>17 DEF rpc_enable_write, Running, Position
<1>18. CASE rpc_read_status
  BY <1>18 DEF rpc_read_status, Running, Position
<1>19. CASE write_return
  BY <1>19 DEF write_return, Running, Position
<1>20. CASE device_ready
  BY <1>20 DEF device_ready, Running, Position
<1> QED
  BY <1>1, <1>2, <1>3, <1>4, <1>5, <1>6, <1>7, <1>8, <1>9, <1>10, <1>11, <1>12, <1>13, <1>14,
     <1>15, <1>16, <1>17, <1>18, <1>19, <1>20
  DEF Next, Driver, Hardware

(* A read that returns its length returns the words of the flash, whether  *)
(* or not time-outs race transfers and pulses are stale.                   *)
THEOREM ReadsAreRight == Spec => []ReadReturnsFlash
<1>1. Spec => []ReadInv
  BY InitRead, StepRead, PTL DEF Spec
<1>2. ReadInv => ReadReturnsFlash
  BY DEF ReadInv
<1> QED
  BY <1>1, <1>2, PTL
-----------------------------------------------------------------------------
(* Until an early time-out a channel that is not waited for is idle, and   *)
(* the one that is waited for runs or has announced its end.               *)
Idle(ch) == ~ch.ie /\ ~ch.de /\ ~ch.te /\ ~ch.masked
Busy(ch) == ch.ie /\ ch.de /\ ~ch.masked /\ (ch.te <=> ch.tcr = 0)
Over(ch) == ch.ie /\ ch.de /\ ch.masked /\ ch.te /\ ch.tcr = 0

Types ==
  /\ rx \in ChannelType(Lens, Addrs) /\ tx \in ChannelType(0 .. Chunk, {0})
  /\ tx.tcr <= tx.tot
  /\ req \in Requests \cup {None} /\ i \in Nat
  /\ pc \in {"idle", "write", "command", "wait", "program", "ok", "done"}
  /\ wbuf = [k \in 0 .. Chunk - 1 |-> wbuf[k]] /\ txbuf = [k \in 0 .. Chunk - 1 |-> txbuf[k]]
Turns ==
  /\ pc # "wait" => Idle(rx) /\ Idle(tx) /\ pulses = <<>>
  /\ pc = "wait" /\ req.dir = "read" =>
       Idle(tx) /\ ((Busy(rx) /\ pulses = <<>>) \/ (Over(rx) /\ pulses = <<"rdma">>))
  /\ pc = "wait" /\ req.dir = "write" =>
       Idle(rx) /\ ((Busy(tx) /\ pulses = <<>>) \/ (Over(tx) /\ pulses = <<"tdma">>))
(* A write has programmed its first i words, and the n words after them    *)
(* are in the write buffer.                                                *)
Programmed == \A a \in req.addr .. Add - 1 : flash[a] = Word(a)
Buffered(n) == \A k \in 0 .. n - 1 : wbuf[k] = Word(Add + k)
Writing ==
  /\ pc \in {"write", "command", "program"} => req \in Requests /\ req.dir = "write" /\ i <= req.len
  /\ pc \in {"wait", "ok"} /\ req.dir = "write" => req \in Requests /\ i < Whole
  /\ pc \in {"write", "command", "program", "wait", "ok"} /\ req.dir = "write" => Programmed
  /\ pc = "wait" /\ req.dir = "write" =>
       /\ tx.tot = Length /\ Buffered(Position(tx))
       /\ \A k \in 0 .. Length - 1 : txbuf[k] = Word(Add + k)
  /\ pc = "ok" /\ req.dir = "write" => Buffered(Length)
OnTime   == Types /\ Turns /\ Writing /\ WriteReturnsWritten
WriteInv == early \in BOOLEAN /\ (~early => OnTime)

(* A queue of one pulse.                                                   *)
LEMMA OnePulse ==
  ASSUME NEW p
  PROVE  Append(<<>>, p) = <<p>> /\ Head(<<p>>) = p /\ Tail(<<p>>) = <<>> /\ <<p>> # <<>>
OBVIOUS

(* The part of a write that goes through the buffer, and its chunks.       *)
LEMMA LengthType ==
  ASSUME req \in Requests, i \in Nat, i < Whole
  PROVE  Length \in 1 .. Chunk /\ i + Length <= Whole
<1>1. req.len \in Nat /\ Whole \in Nat
  BY RequestType DEF Lens, Whole, Line
<1> QED
  BY <1>1, RpcAssumption DEF Length

(* The invariant holds initially.                                          *)
LEMMA InitWrite == Init => WriteInv
BY RpcAssumption
DEF Init, WriteInv, OnTime, Types, Turns, Writing, WriteReturnsWritten, Attached, ChannelType, Idle, Lens,
    Addrs, None

(* A step that is not an early time-out keeps the write on time.           *)
LEMMA StepOnTime ==
  ASSUME OnTime, [Next]_vars, early' = FALSE
  PROVE  OnTime'
<1> USE DEF OnTime, Types, mem, oper
<1>t. /\ rx.tcr \in Nat /\ rx.tot \in Nat /\ tx.tcr \in Nat /\ tx.tot \in 0 .. Chunk
      /\ Chunk \in Nat
  BY RpcAssumption DEF ChannelType, Lens, Addrs
<1>n. /\ req \in Requests => req.len \in Nat /\ req.addr \in Nat
      /\ req \in Requests => Whole \in Nat /\ Whole <= req.len
  BY RequestType DEF Lens, Addrs, Whole, Line
<1>d. req.dir \in {"read", "write"}
  BY RequestType DEF None
<1>1. CASE UNCHANGED vars
  BY <1>1 DEF vars, Turns, Writing, WriteReturnsWritten, Idle, Busy, Over, Programmed, Buffered,
     Position, Whole, Add, Length, Word
<1>2. ASSUME NEW r \in Requests, rpc_read(r) PROVE OnTime'
  <2>1. /\ req' = r /\ pc' = "wait" /\ r.dir = "read" /\ pc = "idle"
        /\ UNCHANGED <<tx, pulses, i, mem>>
    BY <1>2 DEF rpc_read
  <2>2. rx' \in ChannelType(Lens, Addrs) /\ Busy(rx')
    <3>1. rx' = dma_start(dma_setup_xfer(rx, r.addr, r.len)) /\ ~rx.masked /\ r.len # 0
      BY <1>2, RequestType DEF rpc_read, Turns, Idle, Lens
    <3> QED
      BY <3>1, SetupCall, RequestType DEF Busy
  <2>3. Idle(tx) /\ pulses = <<>>
    BY <2>1 DEF Turns
  <2>4. Turns'
    BY <2>1, <2>2, <2>3 DEF Turns, Idle, Busy
  <2>5. Types'
    BY <2>1, <2>2
  <2>6. Writing' /\ WriteReturnsWritten'
    BY <2>1 DEF Writing, WriteReturnsWritten
  <2> QED
    BY <2>4, <2>5, <2>6
<1>3. ASSUME NEW r \in Requests, rpc_write(r) PROVE OnTime'
  <2>1. /\ req' = r /\ pc' = "write" /\ r.dir = "write" /\ pc = "idle" /\ i' = 0
        /\ UNCHANGED <<rx, tx, pulses, mem>>
    BY <1>3 DEF rpc_write
  <2>2. r.len \in Nat /\ r.addr \in Nat /\ Whole' >= 0 /\ Add' = r.addr
    BY <2>1, RequestType DEF Lens, Addrs, Whole, Line, Add
  <2> QED
    BY <2>1, <2>2 DEF Turns, Writing, WriteReturnsWritten, Idle, Programmed
<1>4. CASE rpc_write_buffer
  <2>1. /\ pc = "command" /\ pc' = "wait" /\ i < Whole /\ UNCHANGED <<rx, pulses, oper, wbuf, flash>>
        /\ txbuf' = [k \in DOMAIN txbuf |-> IF k < Length THEN Word(Add + k) ELSE txbuf[k]]
    BY <1>4 DEF rpc_write_buffer
  <2>2. req \in Requests /\ req.dir = "write" /\ Programmed /\ Length \in 1 .. Chunk
    BY <2>1, LengthType DEF Writing
  <2>3. /\ tx' \in ChannelType(0 .. Chunk, {0}) /\ Busy(tx')
        /\ tx'.tcr = Length /\ tx'.tot = Length
    <3>1. tx' = dma_start(dma_setup_xfer(tx, 0, Length)) /\ ~tx.masked
      BY <1>4 DEF rpc_write_buffer, Turns, Idle
    <3>2. Length \in 0 .. Chunk /\ Length # 0 /\ 0 \in {0} /\ tx \in ChannelType(0 .. Chunk, {0})
      BY <2>2, <1>t
    <3>3. /\ tx' \in ChannelType(0 .. Chunk, {0}) /\ tx'.ie /\ tx'.de /\ ~tx'.te
          /\ tx'.tcr = Length /\ tx'.tot = Length /\ tx'.masked = tx.masked
      BY <3>1, <3>2 DEF ChannelType, dma_start, dma_setup_xfer
    <3> QED
      BY <3>1, <3>2, <3>3 DEF Busy
  <2>4. Length' = Length /\ Add' = Add /\ Whole' = Whole /\ Position(tx)' = 0
    BY <2>1, <2>2, <2>3, <1>t DEF Length, Add, Whole, Position
  <2>5. \A k \in 0 .. Length - 1 : txbuf'[k] = Word(Add + k)
    BY <2>1, <2>2, <1>t
  <2>6. Turns'
    BY <2>1, <2>2, <2>3 DEF Turns, Idle, Busy
  <2>7. Types'
    BY <2>1, <2>2, <2>3, <1>t
  <2>8. Writing'
    BY <2>1, <2>2, <2>3, <2>4, <2>5 DEF Writing, Programmed, Buffered, Word
  <2> QED
    BY <2>1, <2>6, <2>7, <2>8 DEF WriteReturnsWritten
<1>5. CASE write_buffer_program
  <2>1. /\ pc = "ok" /\ req.dir = "write" /\ pc' = "program" /\ i' = i + Length
        /\ UNCHANGED <<rx, tx, pulses, req, rc, dbuf, txbuf, wbuf>>
        /\ flash' = [a \in Addrs |-> IF a \in Add .. Add + Length - 1 THEN wbuf[a - Add]
                                       ELSE flash[a]]
    BY <1>5 DEF write_buffer_program
  <2>2. req \in Requests /\ i < Whole /\ Programmed /\ Buffered(Length)
    BY <2>1 DEF Writing
  <2>3. Length \in 1 .. Chunk /\ i + Length <= Whole
    BY <2>2, LengthType
  <2>4. Whole' = Whole /\ Add = req.addr + i /\ Add' = Add + Length
    BY <2>1, <2>2, <2>3, <1>n, <1>t DEF Whole, Add
  <2>5. Programmed'
    <3>i. Add \in Nat /\ Length \in Nat /\ req.addr \in Nat
      BY <2>2, <2>3, <2>4, <1>n, <1>t
    <3>n. Add' - 1 = Add + Length - 1
      BY <2>4, <3>i
    <3> SUFFICES ASSUME NEW a \in req.addr .. Add + Length - 1 PROVE flash'[a] = Word(a)
      BY <2>1, <3>n DEF Programmed, Word
    <3>e. Add + Length <= req.addr + req.len /\ req.addr + req.len <= Words
      BY <2>2, <2>3, <2>4, <3>i, <1>n, RequestType
    <3>1. a \in Addrs
      BY <3>i, <3>e, <2>2, <1>n, RpcAssumption DEF Addrs
    <3>2. CASE a \in Add .. Add + Length - 1
      <4>1. a - Add \in 0 .. Length - 1 /\ Add + (a - Add) = a
        BY <3>2, <3>i
      <4> QED
        BY <2>1, <2>2, <3>1, <3>2, <4>1 DEF Buffered
    <3>3. CASE a \notin Add .. Add + Length - 1
      <4>1. a \in req.addr .. Add - 1
        BY <3>3, <3>i
      <4> QED
        BY <2>1, <2>2, <3>1, <3>3, <4>1 DEF Programmed
    <3> QED
      BY <3>2, <3>3
  <2>6. Turns'
    BY <2>1 DEF Turns, Idle
  <2>7. Types'
    BY <2>1, <2>3, <1>t
  <2>8. Writing'
    <3>1. i' <= req.len
      BY <2>1, <2>2, <2>3, <1>n, <1>t
    <3> QED
      BY <2>1, <2>2, <2>5, <3>1 DEF Writing
  <2> QED
    BY <2>1, <2>6, <2>7, <2>8 DEF WriteReturnsWritten
<1>6. CASE rpc_write_word
  <2>1. /\ pc = "command" /\ i >= Whole /\ i' = req.len /\ pc' = "program"
        /\ UNCHANGED <<rx, tx, pulses, req, rc, dbuf, txbuf, wbuf>>
        /\ flash' = [a \in Addrs |-> IF a \in Add .. req.addr + req.len - 1 THEN Word(a)
                                       ELSE flash[a]]
    BY <1>6 DEF rpc_write_word
  <2>2. req \in Requests /\ req.dir = "write" /\ Programmed
    BY <2>1 DEF Writing
  <2>3. Programmed'
    <3>n. Add' - 1 = req.addr + req.len - 1 /\ req'.addr = req.addr
      BY <2>1, <2>2, <1>n DEF Add
    <3>w. \A a : Word(a)' = Word(a)
      BY <2>1 DEF Word
    <3> SUFFICES ASSUME NEW a \in req.addr .. req.addr + req.len - 1 PROVE flash'[a] = Word(a)
      BY <3>n, <3>w DEF Programmed
    <3>1. a \in Addrs /\ (a \in Add .. req.addr + req.len - 1 \/ a \in req.addr .. Add - 1)
      BY <2>2, <1>n, RequestType, RpcAssumption DEF Addrs, Add
    <3> QED
      BY <2>1, <2>2, <3>1 DEF Programmed
  <2>4. Turns' /\ Types'
    BY <2>1, <2>2, <1>n DEF Turns, Idle
  <2>5. Writing'
    BY <2>1, <2>2, <2>3, <1>n DEF Writing
  <2> QED
    BY <2>1, <2>4, <2>5 DEF WriteReturnsWritten
<1>7. CASE read_return
  BY <1>7 DEF read_return, Turns, Writing, WriteReturnsWritten, Idle
<1>8. CASE wait_rdma
  <2>p. pulses = <<"rdma">> /\ pulses' = <<>> /\ pc = "wait"
    BY <1>8, <1>d, OnePulse DEF wait_rdma, Pulse, Turns
  <2>1. /\ req.dir = "read" /\ pc = "wait" /\ Over(rx) /\ Idle(tx) /\ pulses' = <<>>
        /\ dma_bytes_left(rx) = 0
    BY <2>p, <1>d, OnePulse DEF Turns, Over, dma_bytes_left
  <2>2. rx' = dma_abort(rx) /\ pc' = "ok" /\ UNCHANGED <<tx, oper, mem>>
    BY <1>8, <2>1 DEF wait_rdma, xfer_complete
  <2>3. rx' \in ChannelType(Lens, Addrs) /\ Idle(rx')
    BY <2>2, AbortCall DEF Idle
  <2> QED
    BY <2>1, <2>2, <2>3 DEF Turns, Idle, Writing, WriteReturnsWritten
<1>9. CASE wait_tdma
  <2>p. pulses = <<"tdma">> /\ pulses' = <<>> /\ pc = "wait"
    BY <1>9, <1>d, OnePulse DEF wait_tdma, Pulse, Turns
  <2>1. /\ req.dir = "write" /\ pc = "wait" /\ Over(tx) /\ Idle(rx) /\ pulses' = <<>>
        /\ dma_bytes_left(tx) = 0
    BY <2>p, <1>d, OnePulse DEF Turns, Over, dma_bytes_left
  <2>2. tx' = dma_abort(tx) /\ pc' = "ok" /\ UNCHANGED <<rx, oper, mem>>
    BY <1>9, <2>1 DEF wait_tdma, xfer_complete
  <2>3. /\ tx' \in ChannelType(0 .. Chunk, {0}) /\ Idle(tx')
        /\ tx'.tcr = tx.tcr /\ tx'.tot = tx.tot
    BY <2>2, AbortCall DEF Idle
  <2>4. Position(tx) = Length /\ Length' = Length /\ Add' = Add /\ Whole' = Whole
    BY <2>1, <2>2, <1>t DEF Writing, Over, Position, Length, Add, Whole
  <2>5. Writing'
    BY <2>1, <2>2, <2>4 DEF Writing, Programmed, Buffered, Word
  <2>6. Turns' /\ Types'
    BY <2>1, <2>2, <2>3 DEF Turns, Idle
  <2> QED
    BY <2>2, <2>5, <2>6 DEF WriteReturnsWritten
<1>10. CASE wait_timeout
  <2>1. ~Running(Awaited) /\ ~Interrupting(Awaited) /\ pc = "wait" /\ pulses = <<>>
    BY <1>10 DEF wait_timeout
  <2>2. Busy(Awaited) /\ Awaited.tcr \in Nat
    BY <2>1, <1>d, <1>t, OnePulse DEF Turns, Awaited
  <2> QED
    BY <2>1, <2>2 DEF Running, Interrupting, Busy
<1>11. CASE rpc_dma_xfer
  BY <1>11 DEF rpc_dma_xfer
<1>12. CASE return
  BY <1>12 DEF return, Turns, Writing, WriteReturnsWritten, Idle
<1>13. CASE rx_unit
  <2>1. /\ req.dir = "read" /\ pc = "wait" /\ Busy(rx) /\ Idle(tx) /\ rx.tcr > 0
        /\ pulses = <<>> /\ rx' = Moved(rx) /\ UNCHANGED <<tx, pulses, pc, oper, txbuf, wbuf, flash>>
    BY <1>13, <1>d DEF rx_unit, Running, Turns, Idle, Over
  <2>2. rx' \in ChannelType(Lens, Addrs) /\ Busy(rx')
    BY <2>1, <1>t, MovedCall, RpcAssumption DEF Lens, Busy
  <2>3. Turns' /\ Types'
    BY <2>1, <2>2 DEF Turns, Idle, Busy
  <2> QED
    BY <2>1, <2>3 DEF Writing, WriteReturnsWritten
<1>14. CASE tx_unit
  <2>1. /\ req.dir = "write" /\ pc = "wait" /\ Busy(tx) /\ Idle(rx) /\ tx.tcr > 0
        /\ pulses = <<>> /\ tx' = Moved(tx) /\ UNCHANGED <<rx, pulses, pc, oper, dbuf, txbuf, flash>>
        /\ wbuf' = [wbuf EXCEPT ![Position(tx)] = txbuf[Position(tx)]]
    BY <1>14, <1>d DEF tx_unit, Running, Turns, Idle, Over
  <2>2. /\ tx' \in ChannelType(0 .. Chunk, {0}) /\ Busy(tx')
        /\ tx'.tcr = tx.tcr - 1 /\ tx'.tot = tx.tot
    BY <2>1, <1>t, MovedCall DEF Busy
  <2>3. Length' = Length /\ Add' = Add /\ Whole' = Whole
    BY <2>1 DEF Length, Add, Whole
  <2>4. /\ Position(tx) \in 0 .. Length - 1 /\ Length \in 1 .. Chunk
        /\ Position(tx)' = Position(tx) + 1
    BY <2>1, <2>2, <1>t, LengthType DEF Writing, Position
  <2>5. Buffered(Position(tx))'
    <3>n. 0 .. Position(tx)' - 1 = 0 .. Position(tx)
      BY <2>4
    <3> SUFFICES ASSUME NEW k \in 0 .. Position(tx) PROVE wbuf'[k] = Word(Add + k)
      BY <2>1, <2>3, <3>n DEF Buffered, Word
    <3>1. k \in 0 .. Chunk - 1 /\ k \in 0 .. Length - 1
      BY <2>4, <1>t
    <3>2. k = Position(tx) \/ k \in 0 .. Position(tx) - 1
      BY <2>4
    <3>3. wbuf'[k] = IF k = Position(tx) THEN txbuf[k] ELSE wbuf[k]
      BY <2>1, <3>1
    <3> QED
      BY <2>1, <3>1, <3>2, <3>3 DEF Writing, Buffered
  <2>6. Turns'
    BY <2>1, <2>2 DEF Turns, Idle, Busy
  <2>7. wbuf' = [k \in 0 .. Chunk - 1 |-> wbuf'[k]]
    BY <2>1, <2>4, <1>t
  <2>8. Types'
    BY <2>1, <2>2, <2>7, <1>t
  <2>9. Writing'
    BY <2>1, <2>2, <2>3, <2>5 DEF Writing, Programmed, Word
  <2> QED
    BY <2>1, <2>6, <2>8, <2>9 DEF WriteReturnsWritten
<1>15. CASE rx_event
  <2>0. /\ req.dir = "read" /\ pc = "wait" /\ Busy(rx) /\ Idle(tx) /\ rx.te /\ pulses = <<>>
    BY <1>15, <1>d DEF rx_event, Interrupting, Turns, Idle, Over
  <2>1. pulses' = <<"rdma">> /\ rx' = Delivered(rx) /\ UNCHANGED <<tx, pc, oper, mem>>
    BY <1>15, <2>0, OnePulse DEF rx_event
  <2>2. rx' \in ChannelType(Lens, Addrs) /\ Over(rx')
    BY <2>0, <2>1, DeliveredCall DEF Busy, Over
  <2>3. Turns' /\ Types'
    BY <2>0, <2>1, <2>2 DEF Turns, Idle, Over
  <2> QED
    BY <2>0, <2>1, <2>3 DEF Writing, WriteReturnsWritten
<1>16. CASE tx_event
  <2>0. /\ req.dir = "write" /\ pc = "wait" /\ Busy(tx) /\ Idle(rx) /\ tx.te /\ pulses = <<>>
    BY <1>16, <1>d DEF tx_event, Interrupting, Turns, Idle, Over
  <2>1. pulses' = <<"tdma">> /\ tx' = Delivered(tx) /\ UNCHANGED <<rx, pc, oper, mem>>
    BY <1>16, <2>0, OnePulse DEF tx_event
  <2>2. /\ tx' \in ChannelType(0 .. Chunk, {0}) /\ Over(tx')
        /\ tx'.tcr = tx.tcr /\ tx'.tot = tx.tot
    BY <2>0, <2>1, DeliveredCall DEF Busy, Over
  <2>3. Turns' /\ Types'
    BY <2>0, <2>1, <2>2 DEF Turns, Idle, Over
  <2>4. Writing'
    BY <2>0, <2>1, <2>2 DEF Writing, Programmed, Buffered, Word, Position, Length, Add, Whole
  <2> QED
    BY <2>0, <2>1, <2>3, <2>4 DEF WriteReturnsWritten
<1>17. CASE rpc_enable_write
  <2>1. pc = "write" /\ pc' = "command" /\ UNCHANGED <<rx, tx, pulses, oper, dbuf, txbuf, wbuf, flash>>
    BY <1>17 DEF rpc_enable_write
  <2> QED
    BY <2>1 DEF Turns, Writing, WriteReturnsWritten, Idle, Programmed, Add, Word
<1>18. CASE rpc_read_status
  <2>1. pc = "program" /\ pc' = "write" /\ UNCHANGED <<rx, tx, pulses, oper, mem>>
    BY <1>18 DEF rpc_read_status
  <2> QED
    BY <2>1 DEF Turns, Writing, WriteReturnsWritten, Idle, Programmed, Add, Word
<1>19. CASE write_return
  <2>1. /\ pc = "write" /\ i = req.len /\ pc' = "done" /\ rc' = req.len
        /\ UNCHANGED <<rx, tx, pulses, req, i, mem>>
    BY <1>19 DEF write_return
  <2>2. Programmed /\ Add - 1 = req.addr + req.len - 1
    BY <2>1, <1>n DEF Writing, Add
  <2>3. \A a \in req.addr .. req.addr + req.len - 1 : flash[a] = Word(a)
    BY <2>2 DEF Programmed
  <2>4. WriteReturnsWritten'
    BY <2>1, <2>3 DEF WriteReturnsWritten, Word
  <2> QED
    BY <2>1, <2>4 DEF Turns, Writing, Idle
<1>20. CASE device_ready
  BY <1>20 DEF device_ready, Turns, Writing, WriteReturnsWritten, Idle, Busy, Over, Programmed,
     Buffered, Position, Whole, Add, Length, Word
<1> QED
  BY <1>1, <1>2, <1>3, <1>4, <1>5, <1>6, <1>7, <1>8, <1>9, <1>10, <1>11, <1>12, <1>13, <1>14,
     <1>15, <1>16, <1>17, <1>18, <1>19, <1>20
  DEF Next, Driver, Hardware

(* The history is never forgotten.                                         *)
LEMMA EarlyStays ==
  ASSUME early \in BOOLEAN, [Next]_vars
  PROVE  early' \in BOOLEAN /\ (early => early')
<1>1. CASE wait_timeout
  BY <1>1 DEF wait_timeout
<1>2. CASE ~wait_timeout
  BY <1>2 DEF Next, Driver, Hardware, vars, oper, rpc_read, rpc_write, rpc_write_buffer,
     write_buffer_program, rpc_write_word, read_return, wait_rdma, wait_tdma, rpc_dma_xfer, return,
     rx_unit, tx_unit, rx_event, tx_event, rpc_enable_write, rpc_read_status, write_return,
     device_ready
<1> QED
  BY <1>1, <1>2

(* Every step keeps the invariant.                                         *)
LEMMA StepWrite == WriteInv /\ [Next]_vars => WriteInv'
<1> SUFFICES ASSUME WriteInv, [Next]_vars PROVE WriteInv'
  OBVIOUS
<1>1. early' \in BOOLEAN /\ (early => early')
  BY EarlyStays DEF WriteInv
<1>2. CASE early' = FALSE
  <2>1. OnTime
    BY <1>1, <1>2 DEF WriteInv
  <2> QED
    BY <1>1, <1>2, <2>1, StepOnTime DEF WriteInv
<1>3. CASE early' = TRUE
  BY <1>3 DEF WriteInv
<1> QED
  BY <1>1, <1>2, <1>3

(* Until a time-out has expired early, a write that returns its length has *)
(* programmed every word of it, whatever its length and alignment.         *)
THEOREM WritesAreRight == Spec => []WrittenUntilEarly
<1>1. Spec => []WriteInv
  BY InitWrite, StepWrite, PTL DEF Spec
<1>2. WriteInv => WrittenUntilEarly
  BY DEF WriteInv, OnTime, WrittenUntilEarly
<1> QED
  BY <1>1, <1>2, PTL

(* Until then both interrupts are unmasked between operations.             *)
THEOREM EventsAcknowledged == Spec => []AcknowledgedUntilEarly
<1>1. Spec => []WriteInv
  BY InitWrite, StepWrite, PTL DEF Spec
<1>2. WriteInv => AcknowledgedUntilEarly
  BY DEF WriteInv, OnTime, Turns, Idle, AcknowledgedUntilEarly
<1> QED
  BY <1>1, <1>2, PTL
=============================================================================
