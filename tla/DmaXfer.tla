------------------------------- MODULE DmaXfer -------------------------------
(***************************************************************************)
(* A channel of the system DMA library during single-block transfers: its  *)
(* registers CHCR and TCR, its interrupt, and what the library's calls do  *)
(* to them (lib/dma/rcar/sysdmac).  The channel is attached with           *)
(* DMA_ATTACH_EVENT_ON_COMPLETE.                                           *)
(***************************************************************************)
EXTENDS Naturals

(* Bits IE, DE and TE of CHCR; the units left and asked for; the address;  *)
(* and whether the kernel has masked the interrupt.                        *)
ChannelType(Lens, Bases) ==
  [ie : BOOLEAN, de : BOOLEAN, te : BOOLEAN, tcr : Lens, tot : Lens, addr : Bases,
   masked : BOOLEAN]
Attached ==
  [ie |-> FALSE, de |-> FALSE, te |-> FALSE, tcr |-> 0, tot |-> 0, addr |-> 0,
   masked |-> FALSE]

dma_setup_xfer(ch, a, n) ==
  [ch EXCEPT !.ie = TRUE, !.de = FALSE, !.te = FALSE, !.tcr = n, !.tot = n, !.addr = a]

dma_start(ch) == [ch EXCEPT !.te = FALSE, !.de = TRUE]

dma_abort(ch) == [ch EXCEPT !.de = FALSE, !.ie = FALSE, !.te = FALSE, !.masked = FALSE]

\* Mutant: the interrupt stays masked.
xfer_complete_masked(ch) == [ch EXCEPT !.de = FALSE, !.ie = FALSE, !.te = FALSE]

xfer_complete(ch) == dma_abort(ch)

dma_bytes_left(ch) == ch.tcr

(* The controller moves one unit, and sets TE after the last; the kernel   *)
(* masks an interrupt when it delivers its event.                          *)
Running(ch)      == ch.de /\ ~ch.te /\ ch.tcr > 0
Position(ch)     == ch.tot - ch.tcr
Moved(ch)        == [ch EXCEPT !.tcr = @ - 1, !.te = ch.tcr = 1]
Interrupting(ch) == ch.ie /\ ch.te /\ ~ch.masked
Delivered(ch)    == [ch EXCEPT !.masked = TRUE]
=============================================================================
