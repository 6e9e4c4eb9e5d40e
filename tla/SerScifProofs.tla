--------------------------- MODULE SerScifProofs ----------------------------
(***************************************************************************)
(* Proofs about the SCIF serial driver, for FIFOs of every length, every   *)
(* trigger level, every high-water mark and every number of characters.    *)
(*                                                                         *)
(* tto() and ser_intr() are programs of register operations, and what the  *)
(* control register holds depends on how far the program of tto() has got. *)
(* The inductive invariant lists the points that the two programs can be   *)
(* at and, for each point of tto(), which of its orders the register shows *)
(* by then.  What the handler does meanwhile enters through one fact: a    *)
(* write that changes a bit outside its mask is recorded in clobbered.     *)
(***************************************************************************)
EXTENDS SerScif, SequenceTheorems, TLAPS

(* The orders to SCSCR: both sides off, the clock, transmitter, receiver,  *)
(* receive interrupts and transmit interrupt on or off.                    *)
AllOff == Rmw({"RE", "TE"}, {})
Clock  == Rmw({}, {})
TxOn   == Rmw({"TE"}, {"TE"})
TxOff  == Rmw({"TE"}, {})
RxOn   == Rmw({"RE", "RIE"}, {"RE", "RIE"})
RieOn  == Rmw({"RIE"}, {"RIE"})
RieOff == Rmw({"RIE"}, {})
TieOn  == Rmw({"TIE"}, {"TIE"})
TieOff == Rmw({"TIE"}, {})

(* What the register shows of the last orders: transmitter, receiver and   *)
(* receive interrupts as they should be between two calls, and the         *)
(* receiver, or its interrupts, off on the way there.                      *)
TeDone == "TE" \in clobbered \/ ("TE" \in scscr <=> ~brk)
ReDone == "RE" \in clobbered \/ ("RE" \in scscr /\ ~rfrst)
RieDone == "RIE" \in clobbered \/ ("RIE" \in scscr <=> ~rts_flag)
ReOff  == "RE" \in clobbered \/ "RE" \notin scscr
RieGone == "RIE" \in clobbered \/ "RIE" \notin scscr

(* The points of tto(): what is left of its call, and what holds there.    *)
Sending(p) ==
  \/ p = <<>> \/ p = <<Do("fill"), Do("clear"), Do("rearm")>>
  \/ p = <<Do("clear"), Do("rearm")>> \/ p = <<Do("rearm")>> \/ p = <<TieOn>>

(* Writing, a break, flow control off and on.                              *)
AtData(p)  == Sending(p) /\ TeDone /\ ReDone /\ RieDone
AtBreak(p) == (IF brk THEN p = <<TxOff>> ELSE p = <<TxOn>>) /\ ReDone /\ RieDone
AtStop(p)  == \/ p = <<RieOff, Do("rts_off")>> /\ TeDone /\ ReDone
              \/ p = <<Do("rts_off")>> /\ TeDone /\ ReDone /\ RieGone
AtGo(p)    == \/ p = <<Do("rts_on"), RieOn>> /\ TeDone /\ ReDone
              \/ p = <<RieOn>> /\ TeDone /\ ReDone /\ ~rts_flag

(* New line settings, up to the reset of the FIFOs and after it.           *)
AtSettings(p) ==
  /\ ~brk
  /\ \/ p = <<AllOff, Do("reset"), TxOn>> /\ RieDone
     \/ p = <<AllOff, Clock, Do("baud"), TxOn>> /\ RieDone
     \/ p = <<Clock, Do("baud"), TxOn>> /\ RieDone /\ ReOff
     \/ p = <<Do("baud"), TxOn>> /\ RieDone /\ ReOff
     \/ p = <<Do("reset"), TxOn>> /\ RieDone /\ ReOff
AtEnable(p) ==
  /\ ~brk /\ ~rfrst
  /\ \/ p = <<Do("rts_on"), RxOn, TxOn>>
     \/ p = <<RxOn, TxOn>> /\ ~rts_flag

TtoAt == \/ AtData(todo["tto"]) \/ AtBreak(todo["tto"]) \/ AtStop(todo["tto"])
         \/ AtGo(todo["tto"]) \/ AtSettings(todo["tto"]) \/ AtEnable(todo["tto"])

(* The points of ser_intr().                                               *)
IsrPrograms == {<<>>, <<Do("rx"), Do("tx"), Do("queue")>>,
                <<Do("read"), Do("tx"), Do("queue")>>,
                <<RieOff, Do("tx"), Do("queue")>>,
                <<Do("tx"), Do("queue")>>,
                <<TieOff, Do("tx_done"), Do("queue")>>,
                <<Do("tx_done"), Do("queue")>>, <<Do("queue")>>}

Functions == /\ todo = [a \in Actor |-> todo[a]]
             /\ got = [a \in Actor |-> got[a]]

Orders == Functions /\ TtoAt /\ todo["isr"] \in IsrPrograms

-----------------------------------------------------------------------------
(* Programs: what is first, what is left, and how they are put together.   *)
LEMMA Firsts ==
  ASSUME NEW a, NEW b, NEW c, NEW d
  PROVE  /\ Head(<<a>>) = a /\ Head(<<a, b>>) = a
         /\ Head(<<a, b, c>>) = a /\ Head(<<a, b, c, d>>) = a
OBVIOUS

(* What is left of a short program after its first operation.              *)
LEMMA Rests ==
  ASSUME NEW a, NEW b, NEW c, NEW d
  PROVE  /\ Tail(<<a>>) = <<>> /\ Tail(<<a, b>>) = <<b>>
         /\ Tail(<<a, b, c>>) = <<b, c>> /\ Tail(<<a, b, c, d>>) = <<b, c, d>>
OBVIOUS

(* Programs of three or four operations are the same when their operations *)
(* are.                                                                    *)
LEMMA SamePrograms ==
  ASSUME NEW S, NEW s \in Seq(S), NEW t \in Seq(S),
         Len(s) = Len(t), Len(s) \in 3..4, s[1] = t[1], s[2] = t[2], s[3] = t[3],
         Len(s) = 4 => s[4] = t[4]
  PROVE  s = t
<1>1. \A i \in 1..Len(s) : s[i] = t[i]
  OBVIOUS
<1> QED BY <1>1, SeqEqual, Zenon

(* Programs are put together: one operation and two.                       *)
LEMMA Joined12 ==
  ASSUME NEW a, NEW b, NEW c
  PROVE  <<a>> \o <<b, c>> = <<a, b, c>>
<1> DEFINE S == {a, b, c}
           s == <<a>> \o <<b, c>>
           t == <<a, b, c>>
<1>1. s \in Seq(S) /\ Len(s) = 3 /\ s[1] = a /\ s[2] = b /\ s[3] = c
  BY ConcatProperties
<1>2. t \in Seq(S) /\ Len(t) = 3 /\ t[1] = a /\ t[2] = b /\ t[3] = c
  OBVIOUS
<1>3. s = t
  <2> HIDE DEF s, t, S
  <2> QED BY <1>1, <1>2, SamePrograms, SMT
<1> QED BY <1>3

(* Programs are put together: two operations and one.                      *)
LEMMA Joined21 ==
  ASSUME NEW a, NEW b, NEW c
  PROVE  <<a, b>> \o <<c>> = <<a, b, c>>
<1> DEFINE S == {a, b, c}
           s == <<a, b>> \o <<c>>
           t == <<a, b, c>>
<1>1. s \in Seq(S) /\ Len(s) = 3 /\ s[1] = a /\ s[2] = b /\ s[3] = c
  BY ConcatProperties
<1>2. t \in Seq(S) /\ Len(t) = 3 /\ t[1] = a /\ t[2] = b /\ t[3] = c
  OBVIOUS
<1>3. s = t
  <2> HIDE DEF s, t, S
  <2> QED BY <1>1, <1>2, SamePrograms, SMT
<1> QED BY <1>3

(* Programs are put together: three of one operation.                      *)
LEMMA Joined111 ==
  ASSUME NEW a, NEW b, NEW c
  PROVE  <<a>> \o <<b>> \o <<c>> = <<a, b, c>>
<1> DEFINE S == {a, b, c}
           s == <<a>> \o <<b>> \o <<c>>
           t == <<a, b, c>>
<1>1. s \in Seq(S) /\ Len(s) = 3 /\ s[1] = a /\ s[2] = b /\ s[3] = c
  BY ConcatProperties
<1>2. t \in Seq(S) /\ Len(t) = 3 /\ t[1] = a /\ t[2] = b /\ t[3] = c
  OBVIOUS
<1>3. s = t
  <2> HIDE DEF s, t, S
  <2> QED BY <1>1, <1>2, SamePrograms, SMT
<1> QED BY <1>3

(* Programs are put together: one, two and one operation.                  *)
LEMMA Joined121 ==
  ASSUME NEW a, NEW b, NEW c, NEW d
  PROVE  <<a>> \o <<b, c>> \o <<d>> = <<a, b, c, d>>
<1> DEFINE S == {a, b, c, d}
           s == <<a>> \o <<b, c>> \o <<d>>
           t == <<a, b, c, d>>
<1>1. s \in Seq(S) /\ Len(s) = 4 /\ s[1] = a /\ s[2] = b /\ s[3] = c /\ s[4] = d
  BY ConcatProperties
<1>2. t \in Seq(S) /\ Len(t) = 4 /\ t[1] = a /\ t[2] = b /\ t[3] = c /\ t[4] = d
  OBVIOUS
<1>3. s = t
  <2> HIDE DEF s, t, S
  <2> QED BY <1>1, <1>2, SamePrograms, SMT
<1> QED BY <1>3

-----------------------------------------------------------------------------
(* The operations.                                                         *)
LEMMA Operations ==
  /\ \A x : Do(x).op = x
  /\ \A o \in {AllOff, Clock, TxOn, TxOff, RxOn, RieOn, RieOff, TieOn, TieOff} :
       o.op = "rmw"
BY DEF Do, Rmw, AllOff, Clock, TxOn, TxOff, RxOn, RieOn, RieOff, TieOn, TieOff

(* A step of ser_intr() goes from a point to a point, and what it orders   *)
(* to SCSCR is to disable the receive interrupts or the transmit interrupt.*)
LEMMA IsrPoints ==
  ASSUME NEW p \in IsrPrograms, p # <<>>
  PROVE  /\ Tail(p) \in IsrPrograms
         /\ Head(p).op = "rmw" => Head(p) \in {RieOff, TieOff}
         /\ Head(p).op \in {"rx", "read"} => Tail(p) = <<Do("tx"), Do("queue")>>
         /\ Head(p).op = "tx" => Tail(p) = <<Do("queue")>>
<1>0. CASE p = <<Do("rx"), Do("tx"), Do("queue")>>
  <2>1. Head(p).op = "rx" /\ Tail(p) = <<Do("tx"), Do("queue")>>
    BY <1>0, Firsts, Rests, Operations
  <2> QED BY <2>1 DEF IsrPrograms
<1>1. CASE p = <<Do("read"), Do("tx"), Do("queue")>>
  <2>1. Head(p).op = "read" /\ Tail(p) = <<Do("tx"), Do("queue")>>
    BY <1>1, Firsts, Rests, Operations
  <2> QED BY <2>1 DEF IsrPrograms
<1>2. CASE p = <<RieOff, Do("tx"), Do("queue")>>
  <2>1. Head(p) = RieOff /\ Head(p).op = "rmw" /\ Tail(p) = <<Do("tx"), Do("queue")>>
    BY <1>2, Firsts, Rests, Operations
  <2> QED BY <2>1 DEF IsrPrograms
<1>3. CASE p = <<Do("tx"), Do("queue")>>
  <2>1. Head(p).op = "tx" /\ Tail(p) = <<Do("queue")>>
    BY <1>3, Firsts, Rests, Operations
  <2> QED BY <2>1 DEF IsrPrograms
<1>4. CASE p = <<TieOff, Do("tx_done"), Do("queue")>>
  <2>1. Head(p) = TieOff /\ Head(p).op = "rmw" /\ Tail(p) = <<Do("tx_done"), Do("queue")>>
    BY <1>4, Firsts, Rests, Operations
  <2> QED BY <2>1 DEF IsrPrograms
<1>5. CASE p = <<Do("tx_done"), Do("queue")>>
  <2>1. Head(p).op = "tx_done" /\ Tail(p) = <<Do("queue")>>
    BY <1>5, Firsts, Rests, Operations
  <2> QED BY <2>1 DEF IsrPrograms
<1>6. CASE p = <<Do("queue")>>
  <2>1. Head(p).op = "queue" /\ Tail(p) = <<>>
    BY <1>6, Firsts, Rests, Operations
  <2> QED BY <2>1 DEF IsrPrograms
<1> QED BY <1>0, <1>1, <1>2, <1>3, <1>4, <1>5, <1>6 DEF IsrPrograms

-----------------------------------------------------------------------------
(* The handler's writes: a bit that its mask leaves alone is as it was or  *)
(* recorded, and RIE is cleared for a flow control that is on, or recorded.*)
LEMMA HandlerWrite ==
  ASSUME Functions, todo["isr"] \in IsrPrograms, out16("isr")
  PROVE  /\ TeDone => TeDone'
         /\ ReDone => ReDone'
         /\ RieDone => RieDone'
         /\ ReOff => ReOff'
         /\ RieGone => RieGone'
         /\ todo["isr"]' \in IsrPrograms
<1>1. /\ Head(todo["isr"]) \in {RieOff, TieOff}
      /\ Tail(todo["isr"]) \in IsrPrograms
  BY IsrPoints DEF out16, At
<1>2. todo["isr"]' = Tail(todo["isr"])
  BY DEF out16, Becomes, Rest, Functions, Actor
<1> DEFINE o == Head(todo["isr"])
<1>3. PICK was \in got["isr"] :
        /\ scscr' = (was \ o.mask) \cup o.data
        /\ clobbered' = (clobbered \ o.mask) \cup Undone("isr", was, o.mask)
  BY DEF out16
<1>4. o.data = {} /\ o.mask \in {{"RIE"}, {"TIE"}}
  BY <1>1 DEF RieOff, TieOff, Rmw
<1>5. UNCHANGED <<brk, rfrst, rts_flag>>
  BY DEF out16, line
<1> HIDE DEF o
<1>6. CASE o.mask = {"RIE"}
  BY <1>1, <1>2, <1>3, <1>4, <1>5, <1>6
     DEF Undone, TeDone, ReDone, RieDone, ReOff, RieGone
<1>7. CASE o.mask = {"TIE"}
  BY <1>1, <1>2, <1>3, <1>4, <1>5, <1>7
     DEF Undone, TeDone, ReDone, RieDone, ReOff, RieGone
<1> QED BY <1>4, <1>6, <1>7

-----------------------------------------------------------------------------
(* The points of tto(), by the operation that comes next.                  *)
Settled == TeDone /\ ReDone /\ RieDone

(* The next operation of each program that tto() can be in.                *)
LEMMA TtoHeads ==
  /\ Head(<<Do("fill"), Do("clear"), Do("rearm")>>).op = "fill"
  /\ Head(<<Do("clear"), Do("rearm")>>).op = "clear"
  /\ Head(<<Do("rearm")>>).op = "rearm"
  /\ Head(<<Do("rts_off")>>).op = "rts_off"
  /\ Head(<<Do("rts_on"), RieOn>>).op = "rts_on"
  /\ Head(<<Do("rts_on"), RxOn, TxOn>>).op = "rts_on"
  /\ Head(<<Do("baud"), TxOn>>).op = "baud"
  /\ Head(<<Do("reset"), TxOn>>).op = "reset"
  /\ Head(<<TieOn>>).op = "rmw" /\ Head(<<TxOff>>).op = "rmw"
  /\ Head(<<TxOn>>).op = "rmw" /\ Head(<<RieOn>>).op = "rmw"
  /\ Head(<<RieOff, Do("rts_off")>>).op = "rmw"
  /\ Head(<<RxOn, TxOn>>).op = "rmw"
  /\ Head(<<AllOff, Do("reset"), TxOn>>).op = "rmw"
  /\ Head(<<AllOff, Clock, Do("baud"), TxOn>>).op = "rmw"
  /\ Head(<<Clock, Do("baud"), TxOn>>).op = "rmw"
BY Firsts, Operations

(* What tto() has to do after each of its operations.                      *)
LEMMA TtoTails ==
  /\ Tail(<<Do("fill"), Do("clear"), Do("rearm")>>) = <<Do("clear"), Do("rearm")>>
  /\ Tail(<<Do("clear"), Do("rearm")>>) = <<Do("rearm")>>
  /\ Tail(<<Do("rts_off")>>) = <<>>
  /\ Tail(<<Do("rts_on"), RieOn>>) = <<RieOn>>
  /\ Tail(<<Do("rts_on"), RxOn, TxOn>>) = <<RxOn, TxOn>>
  /\ Tail(<<Do("baud"), TxOn>>) = <<TxOn>> /\ Tail(<<Do("reset"), TxOn>>) = <<TxOn>>
BY Rests

(* The operation that tto() is at tells its program and which of its orders*)
(* the register shows.                                                     *)
LEMMA TtoPoints ==
  ASSUME TtoAt
  PROVE  LET p == todo["tto"] IN
         /\ p = <<>> => Settled
         /\ At("tto", "fill") => p = <<Do("fill"), Do("clear"), Do("rearm")>> /\ Settled
         /\ At("tto", "clear") => p = <<Do("clear"), Do("rearm")>> /\ Settled
         /\ At("tto", "rearm") => Settled
         /\ At("tto", "rts_off") => p = <<Do("rts_off")>> /\ TeDone /\ ReDone /\ RieGone
         /\ At("tto", "rts_on") =>
              \/ p = <<Do("rts_on"), RieOn>> /\ TeDone /\ ReDone
              \/ p = <<Do("rts_on"), RxOn, TxOn>> /\ ~brk /\ ~rfrst
         /\ At("tto", "reset") \/ At("tto", "baud") =>
              (p = <<Do("reset"), TxOn>> \/ p = <<Do("baud"), TxOn>>) /\ ~brk /\ RieDone /\ ReOff
         /\ At("tto", "rmw") =>
              \/ p = <<TieOn>> /\ Settled
              \/ AtBreak(p)
              \/ p = <<RieOff, Do("rts_off")>> /\ TeDone /\ ReDone
              \/ p = <<RieOn>> /\ TeDone /\ ReDone /\ ~rts_flag
              \/ p = <<AllOff, Do("reset"), TxOn>> /\ ~brk /\ RieDone
              \/ p = <<AllOff, Clock, Do("baud"), TxOn>> /\ ~brk /\ RieDone
              \/ p = <<Clock, Do("baud"), TxOn>> /\ ~brk /\ RieDone /\ ReOff
              \/ p = <<RxOn, TxOn>> /\ ~brk /\ ~rfrst /\ ~rts_flag
<1> DEFINE p == todo["tto"]
<1>1. CASE AtData(p)
  BY <1>1, TtoHeads DEF AtData, Sending, At, Settled
<1>2. CASE AtBreak(p)
  BY <1>2, TtoHeads DEF AtBreak, At
<1>3. CASE AtStop(p)
  <2>1. CASE p = <<RieOff, Do("rts_off")>> /\ TeDone /\ ReDone
    BY <2>1, TtoHeads DEF At
  <2>2. CASE p = <<Do("rts_off")>> /\ TeDone /\ ReDone /\ RieGone
    BY <2>2, TtoHeads DEF At
  <2> QED BY <1>3, <2>1, <2>2 DEF AtStop
<1>4. CASE AtGo(p)
  BY <1>4, TtoHeads DEF AtGo, At
<1>5. CASE AtSettings(p)
  BY <1>5, TtoHeads DEF AtSettings, At
<1>6. CASE AtEnable(p)
  <2>1. CASE p = <<Do("rts_on"), RxOn, TxOn>>
    BY <1>6, <2>1, TtoHeads DEF AtEnable, At
  <2>2. CASE p = <<RxOn, TxOn>> /\ ~rts_flag
    BY <1>6, <2>2, TtoHeads DEF AtEnable, At
  <2> QED BY <1>6, <2>1, <2>2 DEF AtEnable
<1> QED BY <1>1, <1>2, <1>3, <1>4, <1>5, <1>6 DEF TtoAt

-----------------------------------------------------------------------------
(* A write of tto(): the bits of its mask are as ordered, another bit is   *)
(* as it was or recorded, and the register shows what the next point says. *)
LEMMA TtoWrite ==
  ASSUME Functions, TtoAt, out16("tto")
  PROVE  TtoAt'
<1> DEFINE p == todo["tto"]
           o == Head(p)
<1>1. PICK was \in got["tto"] :
        /\ scscr' = (was \ o.mask) \cup o.data
        /\ clobbered' = (clobbered \ o.mask) \cup Undone("tto", was, o.mask)
  BY DEF out16
<1>2. UNCHANGED <<brk, rfrst, rts_flag>> /\ todo["tto"]' = Tail(p) /\ At("tto", "rmw")
  BY DEF out16, line, Becomes, Rest, Functions, Actor
<1>3. /\ \A b \in {"TE", "RE", "RIE"} \ (o.mask \cup o.data) :
           b \in clobbered' \/ (b \notin clobbered /\ (b \in scscr' <=> b \in scscr))
      /\ \A b \in o.data : b \in scscr'
      /\ \A b \in o.mask \ o.data : b \notin scscr'
  BY <1>1 DEF Undone
<1>4. /\ AllOff.mask = {"RE", "TE"} /\ AllOff.data = {}
      /\ Clock.mask = {} /\ Clock.data = {}
      /\ TxOn.mask = {"TE"} /\ TxOn.data = {"TE"}
      /\ TxOff.mask = {"TE"} /\ TxOff.data = {}
      /\ RxOn.mask = {"RE", "RIE"} /\ RxOn.data = {"RE", "RIE"}
      /\ RieOn.mask = {"RIE"} /\ RieOn.data = {"RIE"}
      /\ RieOff.mask = {"RIE"} /\ RieOff.data = {}
      /\ TieOn.mask = {"TIE"} /\ TieOn.data = {"TIE"}
  BY DEF Rmw, AllOff, Clock, TxOn, TxOff, RxOn, RieOn, RieOff, TieOn
<1> USE DEF TeDone, ReDone, RieDone, ReOff, RieGone
<1>a. CASE p = <<TieOn>> /\ Settled
  <2>1. o = TieOn /\ Tail(p) = <<>>
    BY <1>a, Firsts, Rests
  <2>2. AtData(todo["tto"])'
    BY <1>a, <2>1, <1>2, <1>3, <1>4 DEF AtData, Sending, Settled
  <2> QED BY <2>2 DEF TtoAt
<1>b. CASE AtBreak(p)
  <2>1. (o = IF brk THEN TxOff ELSE TxOn) /\ Tail(p) = <<>>
    BY <1>b, Firsts, Rests DEF AtBreak
  <2>2. AtData(todo["tto"])'
    BY <1>b, <2>1, <1>2, <1>3, <1>4 DEF AtData, Sending, AtBreak
  <2> QED BY <2>2 DEF TtoAt
<1>c. CASE p = <<RieOff, Do("rts_off")>> /\ TeDone /\ ReDone
  <2>1. o = RieOff /\ Tail(p) = <<Do("rts_off")>>
    BY <1>c, Firsts, Rests
  <2>2. AtStop(todo["tto"])'
    BY <1>c, <2>1, <1>2, <1>3, <1>4 DEF AtStop
  <2> QED BY <2>2 DEF TtoAt
<1>d. CASE p = <<RieOn>> /\ TeDone /\ ReDone /\ ~rts_flag
  <2>1. o = RieOn /\ Tail(p) = <<>>
    BY <1>d, Firsts, Rests
  <2>2. AtData(todo["tto"])'
    BY <1>d, <2>1, <1>2, <1>3, <1>4 DEF AtData, Sending
  <2> QED BY <2>2 DEF TtoAt
<1>e. CASE p = <<AllOff, Do("reset"), TxOn>> /\ ~brk /\ RieDone
  <2>1. o = AllOff /\ Tail(p) = <<Do("reset"), TxOn>>
    BY <1>e, Firsts, Rests
  <2>2. AtSettings(todo["tto"])'
    BY <1>e, <2>1, <1>2, <1>3, <1>4 DEF AtSettings
  <2> QED BY <2>2 DEF TtoAt
<1>f. CASE p = <<AllOff, Clock, Do("baud"), TxOn>> /\ ~brk /\ RieDone
  <2>1. o = AllOff /\ Tail(p) = <<Clock, Do("baud"), TxOn>>
    BY <1>f, Firsts, Rests
  <2>2. AtSettings(todo["tto"])'
    BY <1>f, <2>1, <1>2, <1>3, <1>4 DEF AtSettings
  <2> QED BY <2>2 DEF TtoAt
<1>g. CASE p = <<Clock, Do("baud"), TxOn>> /\ ~brk /\ RieDone /\ ReOff
  <2>1. o = Clock /\ Tail(p) = <<Do("baud"), TxOn>>
    BY <1>g, Firsts, Rests
  <2>2. AtSettings(todo["tto"])'
    BY <1>g, <2>1, <1>2, <1>3, <1>4 DEF AtSettings
  <2> QED BY <2>2 DEF TtoAt
<1>h. CASE p = <<RxOn, TxOn>> /\ ~brk /\ ~rfrst /\ ~rts_flag
  <2>1. o = RxOn /\ Tail(p) = <<TxOn>>
    BY <1>h, Firsts, Rests
  <2>2. AtBreak(todo["tto"])'
    BY <1>h, <2>1, <1>2, <1>3, <1>4 DEF AtBreak
  <2> QED BY <2>2 DEF TtoAt
<1> HIDE DEF TeDone, ReDone, RieDone, ReOff, RieGone
<1> QED BY <1>2, <1>a, <1>b, <1>c, <1>d, <1>e, <1>f, <1>g, <1>h, TtoPoints

(* The other steps of tto().                                               *)
LEMMA TtoOther ==
  ASSUME Functions, TtoAt,
         \/ write \/ take_event \/ tx_timeout \/ tto_fill \/ tto_clear \/ tto_rearm
         \/ tto_break \/ tto_rts_off \/ tto_rts_on \/ set_rts_flag
         \/ ser_stty_scif \/ stty_reset
  PROVE  TtoAt'
<1> USE DEF Becomes, Rest, Functions, Actor
<1> DEFINE p == todo["tto"]
<1>1. CASE write \/ take_event \/ tx_timeout
  <2>1. Settled /\ UNCHANGED <<scscr, clobbered, brk, rfrst, rts_flag>>
    BY <1>1, TtoPoints DEF write, take_event, tx_timeout, regs, line
  <2>2. p' = <<>> \/ p' = <<Do("fill"), Do("clear"), Do("rearm")>>
    BY <1>1 DEF write, take_event, tx_timeout, tto_data
  <2>3. AtData(p)'
    BY <2>1, <2>2 DEF AtData, Sending, Settled, TeDone, ReDone, RieDone
  <2> QED BY <2>3 DEF TtoAt
<1>2. CASE tto_fill \/ tto_clear \/ tto_rearm
  <2>1. Settled /\ UNCHANGED <<scscr, clobbered, brk, rfrst, rts_flag>>
    BY <1>2, TtoPoints DEF tto_fill, tto_clear, tto_rearm, regs, line
  <2>2. Sending(p')
    <3>1. CASE tto_fill
      <4>1. p = <<Do("fill"), Do("clear"), Do("rearm")>> /\ (p' = p \/ p' = Tail(p))
        BY <3>1, TtoPoints DEF tto_fill
      <4> QED BY <4>1, TtoTails DEF Sending
    <3>2. CASE tto_clear
      <4>1. p = <<Do("clear"), Do("rearm")>> /\ p' \in {<<>>, Tail(p)}
        BY <3>2, TtoPoints DEF tto_clear
      <4> QED BY <4>1, TtoTails DEF Sending
    <3>3. CASE tto_rearm
      BY <3>3 DEF tto_rearm, Sending, TieOn
    <3> QED BY <1>2, <3>1, <3>2, <3>3
  <2>3. AtData(p)'
    BY <2>1, <2>2 DEF AtData, Sending, Settled, TeDone, ReDone, RieDone
  <2> QED BY <2>3 DEF TtoAt
<1>3. CASE tto_break
  <2>1. Settled /\ UNCHANGED <<scscr, clobbered, rfrst, rts_flag>>
    BY <1>3, TtoPoints DEF tto_break, regs, line
  <2>2. (p' = IF brk THEN <<TxOn>> ELSE <<TxOff>>) /\ brk' = ~brk
    BY <1>3 DEF tto_break, TxOn, TxOff
  <2>3. AtBreak(p)'
    BY <2>1, <2>2 DEF AtBreak, Settled, ReDone, RieDone
  <2> QED BY <2>3 DEF TtoAt
<1>4. CASE tto_rts_off
  <2>1. Settled /\ UNCHANGED <<scscr, clobbered, brk, rfrst, rts_flag>>
    BY <1>4, TtoPoints DEF tto_rts_off, regs, line
  <2>2. p' = <<RieOff, Do("rts_off")>>
    BY <1>4 DEF tto_rts_off, RieOff
  <2>3. AtStop(p)'
    BY <2>1, <2>2 DEF AtStop, Settled, TeDone, ReDone
  <2> QED BY <2>3 DEF TtoAt
<1>5. CASE tto_rts_on
  <2>1. Settled /\ UNCHANGED <<scscr, clobbered, brk, rfrst, rts_flag>>
    BY <1>5, TtoPoints DEF tto_rts_on, regs, line
  <2>2. p' = <<Do("rts_on"), RieOn>>
    BY <1>5 DEF tto_rts_on, RieOn
  <2>3. AtGo(p)'
    BY <2>1, <2>2 DEF AtGo, Settled, TeDone, ReDone
  <2> QED BY <2>3 DEF TtoAt
<1>6. CASE set_rts_flag
  <2>1. UNCHANGED <<scscr, clobbered, brk, rfrst>> /\ p' = Tail(p)
    BY <1>6 DEF set_rts_flag, regs, line
  <2>2. CASE At("tto", "rts_off")
    <3>1. p' = <<>> /\ TeDone /\ ReDone /\ RieGone /\ rts_flag' = TRUE
      BY <1>6, <2>1, <2>2, TtoPoints, TtoTails DEF set_rts_flag
    <3>2. AtData(p)'
      BY <2>1, <3>1 DEF AtData, Sending, TeDone, ReDone, RieDone, RieGone
    <3> QED BY <3>2 DEF TtoAt
  <2>3. CASE At("tto", "rts_on")
    <3>1. rts_flag' = FALSE
      BY <1>6, <2>3 DEF set_rts_flag, At
    <3>2. CASE p = <<Do("rts_on"), RieOn>> /\ TeDone /\ ReDone
      <4>1. p' = <<RieOn>>
        BY ONLY <2>1, <3>2, TtoTails
      <4>2. AtGo(p)'
        BY <2>1, <3>1, <3>2, <4>1 DEF AtGo, TeDone, ReDone
      <4> QED BY <4>2 DEF TtoAt
    <3>3. CASE p = <<Do("rts_on"), RxOn, TxOn>> /\ ~brk /\ ~rfrst
      <4>1. p' = <<RxOn, TxOn>>
        BY ONLY <2>1, <3>3, TtoTails
      <4>2. AtEnable(p)'
        BY <2>1, <3>1, <3>3, <4>1 DEF AtEnable
      <4> QED BY <4>2 DEF TtoAt
    <3> QED BY <2>3, <3>2, <3>3, TtoPoints
  <2> QED BY <1>6, <2>2, <2>3 DEF set_rts_flag
<1>7. CASE ser_stty_scif
  <2>1. Settled /\ UNCHANGED <<scscr, clobbered, rfrst, rts_flag>> /\ ~brk'
    BY <1>7, TtoPoints DEF ser_stty_scif, regs, line
  <2>2. p' \in {<<AllOff>> \o <<Do("reset")>> \o <<TxOn>>,
                <<AllOff>> \o <<Clock, Do("baud")>> \o <<TxOn>>}
    BY <1>7 DEF ser_stty_scif, AllOff, Clock, TxOn
  <2>3. p' = <<AllOff, Do("reset"), TxOn>> \/ p' = <<AllOff, Clock, Do("baud"), TxOn>>
    BY <2>2, Joined111, Joined121
  <2>4. AtSettings(p)'
    BY <2>1, <2>3 DEF AtSettings, Settled, RieDone
  <2> QED BY <2>4 DEF TtoAt
<1>8. CASE stty_reset
  <2>1. /\ p = <<Do("reset"), TxOn>> \/ p = <<Do("baud"), TxOn>>
        /\ ~brk /\ RieDone /\ ReOff
    BY <1>8, TtoPoints DEF stty_reset
  <2>0. Tail(p) = <<TxOn>>
    BY ONLY <2>1, TtoTails
  <2>2. UNCHANGED <<scscr, clobbered, brk, rts_flag>> /\ Tail(p) = <<TxOn>>
    BY <1>8, <2>0 DEF stty_reset, regs
  <2>3. CASE ReceiverOn
    <3>1. p' = <<TxOn>> /\ "RE" \in clobbered
      BY <1>8, <2>1, <2>2, <2>3 DEF stty_reset, ReceiverOn, ReOff
    <3>2. AtBreak(p)'
      BY <2>1, <2>2, <3>1 DEF AtBreak, ReDone, RieDone
    <3> QED BY <3>2 DEF TtoAt
  <2>4. CASE ~ReceiverOn
    <3>1. p' = <<Do("rts_on"), RxOn>> \o <<TxOn>> /\ ~rfrst'
      BY <1>8, <2>2, <2>4 DEF stty_reset, RxOn
    <3>2. p' = <<Do("rts_on"), RxOn, TxOn>>
      BY <3>1, Joined21
    <3>3. AtEnable(p)'
      BY <2>1, <2>2, <3>1, <3>2 DEF AtEnable
    <3> QED BY <3>3 DEF TtoAt
  <2> QED BY <2>3, <2>4
<1> QED BY <1>1, <1>2, <1>3, <1>4, <1>5, <1>6, <1>7, <1>8

-----------------------------------------------------------------------------
(* What neither tto() nor a write of the handler does leaves tto() and     *)
(* what it has ordered alone.                                              *)
LEMMA TtoUntouched ==
  ASSUME TtoAt, UNCHANGED <<scscr, clobbered, brk, rfrst, rts_flag, todo["tto"]>>
  PROVE  TtoAt'
BY DEF TtoAt, AtData, Sending, AtBreak, AtStop, AtGo, AtSettings, AtEnable,
       TeDone, ReDone, RieDone, ReOff, RieGone

TtoCall ==
  \/ write \/ take_event \/ tx_timeout \/ tto_fill \/ tto_clear \/ tto_rearm
  \/ tto_break \/ tto_rts_off \/ tto_rts_on \/ set_rts_flag
  \/ ser_stty_scif \/ stty_reset

IsrCall == \/ ser_intr \/ intr_rx \/ intr_read \/ process_tx \/ tx_done \/ intr_queue

Quiet == in16("tto") \/ in16("isr") \/ transmit \/ receive \/ read

(* Next by what it does to the two programs: a register operation, a call, *)
(* or neither.                                                             *)
LEMMA Steps ==
  Next <=> \/ out16("tto") \/ out16("isr") \/ TtoCall \/ IsrCall \/ Quiet
BY DEF Next, TtoStep, IsrStep, Event, TtoCall, IsrCall, Quiet

(* A step of the handler other than a write goes from point to point.      *)
LEMMA IsrOther ==
  ASSUME Functions, todo["isr"] \in IsrPrograms, IsrCall
  PROVE  todo["isr"]' \in IsrPrograms
<1> DEFINE p == todo["isr"]
<1> USE DEF Functions, Actor, Becomes, Rest
<1>1. CASE ser_intr
  BY <1>1 DEF ser_intr, IsrPrograms
<1>2. CASE tx_done \/ intr_queue
  <2>1. p # <<>> /\ p' = Tail(p)
    BY <1>2 DEF tx_done, intr_queue, At
  <2> QED BY <2>1, IsrPoints
<1>3. CASE intr_rx \/ intr_read
  <2>1. Tail(p) = <<Do("tx"), Do("queue")>>
    BY <1>3, IsrPoints DEF intr_rx, intr_read, At
  <2>2. p' \in {Tail(p), <<Do("read")>> \o Tail(p), <<RieOff>> \o Tail(p)}
    BY <1>3 DEF intr_rx, intr_read, RieOff
  <2>3. p' \in {Tail(p), <<Do("read"), Do("tx"), Do("queue")>>,
                <<RieOff, Do("tx"), Do("queue")>>}
    BY ONLY <2>1, <2>2, Joined12
  <2> QED BY ONLY <2>1, <2>3 DEF IsrPrograms
<1>4. CASE process_tx
  <2>1. Tail(p) = <<Do("queue")>>
    BY <1>4, IsrPoints DEF process_tx, At
  <2>2. p' \in {<<>>, Tail(p), <<TieOff, Do("tx_done")>> \o Tail(p)}
    BY <1>4 DEF process_tx, TieOff
  <2>3. p' \in {<<>>, Tail(p), <<TieOff, Do("tx_done"), Do("queue")>>}
    BY ONLY <2>1, <2>2, Joined21
  <2> QED BY ONLY <2>1, <2>3 DEF IsrPrograms
<1> QED BY <1>1, <1>2, <1>3, <1>4 DEF IsrCall

(* The actors' calls are told apart, step by step.                         *)
LEMMA CallsApart ==
  ASSUME Functions
  PROVE  /\ Next => Functions'
         /\ TtoCall \/ out16("tto") => UNCHANGED todo["isr"]
         /\ IsrCall \/ out16("isr") => UNCHANGED todo["tto"]
         /\ IsrCall => UNCHANGED <<scscr, clobbered, brk, rfrst, rts_flag>>
         /\ Quiet => UNCHANGED <<todo, scscr, clobbered, brk, rfrst, rts_flag>>
         /\ out16("isr") => UNCHANGED <<brk, rfrst, rts_flag>>
<1> USE DEF Functions, Actor, Becomes, regs, line
<1>1. TtoCall => UNCHANGED <<todo["isr"], got>> /\ Functions'
  BY DEF TtoCall, write, take_event, tx_timeout, tto_data, tto_fill, tto_clear, tto_rearm,
         tto_break, tto_rts_off, tto_rts_on, set_rts_flag, ser_stty_scif, stty_reset
<1>2. IsrCall => UNCHANGED <<todo["tto"], scscr, clobbered, brk, rfrst, rts_flag>> /\ Functions'
  BY DEF IsrCall, ser_intr, intr_rx, intr_read, process_tx, tx_done, intr_queue
<1>3. Quiet => UNCHANGED <<todo, scscr, clobbered, brk, rfrst, rts_flag>> /\ Functions'
  BY DEF Quiet, in16, transmit, receive, read
<1>4. out16("tto") => UNCHANGED todo["isr"] /\ Functions'
  BY DEF out16
<1>5. out16("isr") => UNCHANGED <<todo["tto"], brk, rfrst, rts_flag>> /\ Functions'
  BY DEF out16
<1> QED BY <1>1, <1>2, <1>3, <1>4, <1>5, Steps

-----------------------------------------------------------------------------
(* The register starts as ordered and neither side is inside.              *)
LEMMA OrdersInit == Init => Orders
<1> SUFFICES ASSUME Init PROVE Orders
  OBVIOUS
<1>1. Functions /\ todo["tto"] = <<>> /\ todo["isr"] = <<>>
  BY DEF Init, Functions, Actor
<1>2. AtData(todo["tto"])
  BY <1>1 DEF Init, AtData, Sending, TeDone, ReDone, RieDone
<1> QED BY <1>1, <1>2 DEF Orders, TtoAt, IsrPrograms

(* Every step of tto(), the handler and the device keeps Orders.           *)
LEMMA OrdersNext == Orders /\ [Next]_vars => Orders'
<1> SUFFICES ASSUME Orders, [Next]_vars PROVE Orders'
  OBVIOUS
<1>0. Functions /\ TtoAt /\ todo["isr"] \in IsrPrograms
  BY DEF Orders
<1>1. CASE out16("tto") \/ TtoCall
  <2>1. TtoAt'
    BY <1>0, <1>1, TtoWrite, TtoOther DEF TtoCall
  <2> QED BY <1>0, <1>1, <2>1, CallsApart, Steps DEF Orders
<1>2. CASE out16("isr")
  <2>1. TtoAt'
    <3> DEFINE p == todo["tto"]
    <3>1. /\ UNCHANGED <<p, brk, rfrst, rts_flag>>
          /\ TeDone => TeDone'
          /\ ReDone => ReDone'
          /\ RieDone => RieDone'
          /\ ReOff => ReOff'
          /\ RieGone => RieGone'
      BY <1>0, <1>2, HandlerWrite, CallsApart
    <3> USE DEF TeDone, ReDone, RieDone, ReOff, RieGone
    <3>2. AtData(p) => AtData(p)'
      BY <3>1 DEF AtData, Sending
    <3>3. AtBreak(p) => AtBreak(p)'
      BY <3>1 DEF AtBreak
    <3>4. AtStop(p) => AtStop(p)'
      BY <3>1 DEF AtStop
    <3>5. AtGo(p) => AtGo(p)'
      BY <3>1 DEF AtGo
    <3>6. AtSettings(p) => AtSettings(p)'
      BY <3>1 DEF AtSettings
    <3>7. AtEnable(p) => AtEnable(p)'
      BY <3>1 DEF AtEnable
    <3> HIDE DEF TeDone, ReDone, RieDone, ReOff, RieGone
    <3> QED BY <1>0, <3>2, <3>3, <3>4, <3>5, <3>6, <3>7 DEF TtoAt
  <2> QED BY <1>0, <1>2, <2>1, HandlerWrite, CallsApart, Steps DEF Orders
<1>3. CASE IsrCall
  <2>1. TtoAt'
    BY <1>0, <1>3, TtoUntouched, CallsApart
  <2> QED BY <1>0, <1>3, <2>1, IsrOther, CallsApart, Steps DEF Orders
<1>4. CASE Quiet
  <2>1. TtoAt'
    BY <1>0, <1>4, TtoUntouched, CallsApart
  <2> QED BY <1>0, <1>4, <2>1, CallsApart, Steps DEF Orders
<1>5. CASE UNCHANGED vars
  <2>1. TtoAt'
    BY <1>0, <1>5, TtoUntouched DEF vars
  <2> QED BY <1>0, <1>5, <2>1 DEF Orders, Functions, vars
<1> QED BY <1>1, <1>2, <1>3, <1>4, <1>5, Steps

(* Between two calls of tto() the control register is as the calls ordered *)
(* it, but for the bits that a write of the other side has put back,       *)
(* wherever the handler is.                                                *)
THEOREM ControlIsOrdered == Spec => []ControlAsOrdered
<1>1. Orders => ControlAsOrdered
  BY TtoPoints DEF Orders, ControlAsOrdered, Settled, TeDone, ReDone, RieDone
<1> QED BY <1>1, OrdersInit, OrdersNext, PTL DEF Spec

=============================================================================
