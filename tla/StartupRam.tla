----------------------------- MODULE StartupRam -----------------------------
(***************************************************************************)
(* The RAM of the startup program (startup/lib/ram.c): ram_list holds the  *)
(* free ranges, avoid_list the ranges startup itself works in, which stay  *)
(* free for the kernel, and asinfo the "ram" and "sysram" ranges that the  *)
(* kernel reads.  Actions are the calls that main() and                    *)
(* init_system_private() make, in any order those two allow.  Addresses    *)
(* are small numbers; the start of a range is inclusive, its end exclusive *)
(* in ram_list and avoid_list and inclusive in asinfo, as in the code.     *)
(***************************************************************************)
EXTENDS Integers, Sequences, SequencesExt

CONSTANTS
  Top,            \* bound: the highest address
  Page,           \* the page size, a multiple of every alignment asked for
  ram_paddr, startup_size, ram_size,   \* the image, from the startup header
  Stored,         \* the compressed image, as an entry of avoid_list
  Regions,        \* RAM that add_ram may be told of, as entries of ram_list
  Reserved,       \* ranges taken at an address, as entries of ram_list
  Asks,           \* the requests: records of a size and an alignment
  WsSizes,        \* sizes of workspace
  TempSize,       \* TEMP_SYSPAGE_SIZE
  MaxGrants,      \* bound: allocations made before add_sysram()
  MaxLate         \* bound: allocations made after it

NULL_PADDR == -1

Extent(r) == r.addr .. r.addr + r.size - 1       \* an entry of ram_list
Avoided(a) == a.start .. a.end - 1               \* an entry of avoid_list
Covered(as) == as.start .. as.end                \* an entry of asinfo
Entry(a, n) == [addr |-> a, size |-> n]
Cells(list) == UNION {Extent(list[i]) : i \in DOMAIN list}

Image == ram_paddr + startup_size .. ram_paddr + ram_size - 1

RamEntry == [addr : 0 .. Top, size : 1 .. Top + 1]

Early == ram_paddr + ram_size      \* where ws_init finds its first workspace

(* As far as workspaces can reach that are taken behind the image: the     *)
(* three that are taken before main() and those that the bounds allow.     *)
EarlyRoom == (Early .. Early + 2) \cup
             UNION {Early .. Early + 2 + MaxGrants * n : n \in WsSizes}

(* The regions are the board's, which do not overlap.  "We can be fairly   *)
(* sure there's some ram following": the RAM behind the image is there     *)
(* from the start, a region that meets it begins no later than it, and     *)
(* the compressed image was not left there.                                *)
ASSUME StartupRamAssumption ==
  /\ Top \in Nat /\ Page \in Nat \ {0} /\ TempSize \in Nat \ {0}
  /\ ram_paddr \in 0 .. Top /\ startup_size \in Nat \ {0}
  /\ ram_size \in Nat /\ ram_size > startup_size /\ Early + 2 <= Top
  /\ Regions \subseteq RamEntry /\ Reserved \subseteq RamEntry
  /\ \A r \in Regions \cup Reserved : r.addr + r.size <= Top + 1
  /\ \A r, t \in Regions : r # t => Extent(r) \cap Extent(t) = {}
  /\ \A r \in Regions : Extent(r) \cap EarlyRoom # {} => Early \in Extent(r)
  /\ Stored \in [start : 0 .. Top, end : 0 .. Top] /\ Stored.start < Stored.end
  /\ Avoided(Stored) \cap EarlyRoom = {}
  /\ Asks \subseteq [size : Nat \ {0}, align : Nat \ {0}]
  /\ WsSizes \subseteq Nat \ {0}
  /\ MaxGrants \in Nat /\ MaxLate \in Nat

VARIABLES
  ram_list,       \* sequence of free ranges
  avoid_list,     \* sequence of ranges allocations keep out of
  ws_early_next,  \* next workspace while no RAM is known
  temp_syspage,   \* where the system page is built, or NULL_PADDR
  ram,            \* asinfo "ram": the regions added, in order
  sysram,         \* asinfo "sysram"
  sysram_added,
  crashed,        \* crash() was called
  granted,        \* history: addresses handed out
  twice,          \* history: addresses handed out again
  grants, late    \* bounds: allocations before and after add_sysram()

vars == <<ram_list, avoid_list, ws_early_next, temp_syspage, ram, sysram,
          sysram_added, crashed, granted, twice, grants, late>>

-----------------------------------------------------------------------------
(* The lists.                                                              *)

ROUND(x, a) == ((x + a - 1) \div a) * a
TRUNC(x, a) == (x \div a) * a

Absorb_apart(list, r) ==
  IF list # <<>> /\ r.addr < Last(list).addr + Last(list).size
  THEN [list EXCEPT ![Len(list)].size = r.addr + r.size - Last(list).addr]
  ELSE Append(list, r)

(* One round of add_mem's second loop: an entry that touches the one       *)
(* before it is absorbed by it.                                            *)
Absorb(list, r) ==
  LET prev == Last(list)
      e    == prev.addr + prev.size
  IN IF list # <<>> /\ r.addr <= e
     THEN [list EXCEPT ![Len(list)].size =
             (IF r.addr + r.size > e THEN r.addr + r.size ELSE e) - prev.addr]
     ELSE Append(list, r)

add_mem(list, start, size) ==
  LET i == SelectInSeq(list, LAMBDA r : r.addr > start)
  IN FoldLeft(Absorb, <<>>,
              InsertAt(list, IF i = 0 THEN Len(list) + 1 ELSE i, Entry(start, size)))

Remains_front(r, addr, end) ==
  IF addr >= r.addr + r.size \/ end <= r.addr THEN <<r>>
  ELSE IF addr > r.addr THEN <<Entry(r.addr, addr - r.addr)>>
  ELSE IF end < r.addr + r.size THEN <<Entry(end, r.addr + r.size - end)>>
  ELSE <<>>

(* What alloc_ram leaves of an entry when addr .. end - 1 is taken.  The   *)
(* piece behind the hole goes through add_mem, which puts it next to the   *)
(* piece before it.                                                        *)
Remains(r, addr, end) ==
  LET re == r.addr + r.size
      s  == IF addr < r.addr THEN addr ELSE r.addr
      e  == IF end > re THEN end ELSE re
  IN CASE ~ (\/ addr <= r.addr /\ end > r.addr
             \/ addr >= r.addr /\ addr < re
             \/ end >= r.addr /\ end < re)   -> <<r>>
       [] OTHER ->
            (IF addr = s THEN <<>> ELSE <<Entry(s, addr - s)>>)
            \o (IF end = e THEN <<>> ELSE <<Entry(end, e - end)>>)

Taken(list, addr, size) ==
  FoldLeft(LAMBDA l, r : l \o Remains(r, addr, addr + size), <<>>, list)

fix_size_start(c, a) ==
  CASE c.s >= a.start /\ c.s < a.end /\ c.e <= a.end -> [s |-> 0, e |-> 0]
    [] c.s >= a.start /\ c.s < a.end /\ c.e > a.end  -> [c EXCEPT !.s = a.end]
    [] OTHER -> c

(* The part of c.s .. c.e - 1 on one side of an avoided range; Nowhere     *)
(* when nothing is left.                                                   *)
Nowhere == [s |-> 0, e |-> 0]

fix_size(c, a) ==
  IF c.s >= a.end \/ c.e <= a.start THEN c
  ELSE CASE c.s >= a.start /\ c.e <= a.end -> Nowhere
         [] c.s >= a.start /\ c.e > a.end  -> [c EXCEPT !.s = a.end]
         [] c.s < a.start /\ c.e < a.end   -> [c EXCEPT !.e = a.start]
         [] c.s < a.start /\ c.e >= a.end  ->
              IF a.start - c.s > c.e - a.end THEN [c EXCEPT !.e = a.start]
              ELSE [c EXCEPT !.s = a.end]

Candidate(r, avoid) ==
  FoldLeft(fix_size, [s |-> r.addr, e |-> r.addr + r.size], avoid)

find_ram_first(list, avoid, size, align) ==
  LET c == Candidate(list[1], avoid)
  IN IF list # <<>> /\ size <= c.e - ROUND(c.s, align) THEN ROUND(c.s, align)
     ELSE NULL_PADDR

(* First fit.  Every caller leaves colour and range free.                  *)
find_ram(list, avoid, size, align) ==
  LET Addr(r) == ROUND(Candidate(r, avoid).s, align)
      Fits(r) == /\ Addr(r) < Candidate(r, avoid).e
                 /\ size <= Candidate(r, avoid).e - Addr(r)
      i == SelectInSeq(list, Fits)
  IN IF i = 0 THEN NULL_PADDR ELSE Addr(list[i])

(* The highest fit; address 0 stands for none.                             *)
find_top_ram_aligned(list, avoid, asked, align) ==
  LET size == ROUND(asked, Page)
      tops == {0} \cup
              {TRUNC(Candidate(list[i], avoid).e - size, align) : i \in
                 {j \in DOMAIN list :
                    /\ Candidate(list[j], avoid).e - Candidate(list[j], avoid).s >= size
                    /\ TRUNC(Candidate(list[j], avoid).e - size, align)
                         >= Candidate(list[j], avoid).s}}
      top  == CHOOSE t \in tops : \A u \in tops : u <= t
  IN IF top = 0 THEN NULL_PADDR ELSE top

avoid_ram(avoid, start, size) ==
  IF Last(avoid).end = start
  THEN [avoid EXCEPT ![Len(avoid)].end = @ + size]
  ELSE Append(avoid, [start |-> start, end |-> start + size])

-----------------------------------------------------------------------------
(* The ranges the kernel is told of.                                       *)

(* as_add_containing: the part of the range in each "ram" entry, in the    *)
(* order of those entries, which do not overlap.  as_find_containing finds *)
(* the entries below them too: reserved ranges, no longer in ram_list.     *)
as_add_containing(list, r) ==
  LET Piece(l, c) ==
        LET s == IF c.addr > r.addr THEN c.addr ELSE r.addr
            e == IF c.addr + c.size < r.addr + r.size THEN c.addr + c.size - 1
                 ELSE r.addr + r.size - 1
        IN IF Extent(c) \cap Extent(r) = {} THEN l
           ELSE Append(l, [start |-> s, end |-> e])
  IN FoldLeft(Piece, list, ram)

SysramCut_front(addr, end) ==
  [i \in DOMAIN sysram |->
     IF addr > sysram[i].end \/ end < sysram[i].start THEN sysram[i]
     ELSE IF addr <= sysram[i].start THEN [sysram[i] EXCEPT !.start = end + 1]
     ELSE [sysram[i] EXCEPT !.end = addr - 1]]

(* alloc_ram takes addr .. end out of the "sysram" entries it meets; what  *)
(* is left behind the hole becomes an entry of its own.  An entry that     *)
(* would vanish cannot be removed.  No entry lies below a "sysram" one, so *)
(* that the ancestors which as_find_containing looks at add nothing here.  *)
Meets(as, addr, end) ==
  \/ addr >= as.start /\ addr <= as.end
  \/ end >= as.start /\ end <= as.end
  \/ addr <= as.start /\ end >= as.end

Vanishes(addr, end) ==
  \E i \in DOMAIN sysram :
    Meets(sysram[i], addr, end) /\ addr <= sysram[i].start /\ end >= sysram[i].end

SysramCut(addr, end) ==
  LET Before(as) == IF ~ Meets(as, addr, end) THEN as
                   ELSE IF addr <= as.start THEN [as EXCEPT !.start = end + 1]
                   ELSE [as EXCEPT !.end = addr - 1]
      Behind(l, as) == IF Meets(as, addr, end) /\ addr > as.start /\ end < as.end
                     THEN Append(l, [start |-> end + 1, end |-> as.end]) ELSE l
  IN [i \in DOMAIN sysram |-> Before(sysram[i])] \o FoldLeft(Behind, <<>>, sysram)

-----------------------------------------------------------------------------
(* The operations.                                                         *)

Grant(addr, size) ==
  /\ granted' = granted \cup Extent(Entry(addr, size))
  /\ twice' = twice \cup (granted \cap Extent(Entry(addr, size)))
  /\ grants' = IF sysram_added THEN grants ELSE grants + 1
  /\ late' = IF sysram_added THEN late + 1 ELSE late
GrantNone == UNCHANGED <<granted, twice, grants, late>>

(* ws_init, the first workspace for the system page, and the compressed    *)
(* image, all before main(); each of the three workspaces takes one unit.  *)
Init ==
  /\ ram_list = <<>>
  /\ avoid_list = avoid_ram(<<[start |-> Early, end |-> Early + 2],
                              [start |-> ram_paddr, end |-> ram_paddr + startup_size],
                              [start |-> Early + 2, end |-> Early + 3]>>,
                            Stored.start, Stored.end - Stored.start)
  /\ ws_early_next = Early + 3
  /\ temp_syspage = NULL_PADDR
  /\ ram = <<>> /\ sysram = <<>> /\ sysram_added = FALSE /\ crashed = FALSE
  /\ granted = (ram_paddr .. Early + 2) \cup Avoided(Stored)
  /\ twice = {} /\ grants = 0 /\ late = 0

(* alloc_ram at an address that is known.                                  *)
alloc_at(addr, size) ==
  /\ ram_list' = Taken(ram_list, addr, size)
  /\ crashed' = (sysram_added /\ Vanishes(addr, addr + size - 1))
  /\ sysram' = IF sysram_added /\ ~ crashed' THEN SysramCut(addr, addr + size - 1)
               ELSE sysram

Running == ~ crashed
Building == Running /\ ~ sysram_added /\ grants < MaxGrants

add_ram(r) ==
  /\ Running /\ ~ sysram_added /\ r \notin ToSet(ram)
  /\ ram' = Append(ram, r)
  /\ LET added == add_mem(ram_list, r.addr, r.size)
         list  == Taken(added, ram_paddr + startup_size, ram_size - startup_size)
         temp  == find_ram(list, avoid_list, TempSize, Page)
     IN /\ ram_list' = list
        /\ IF temp_syspage = NULL_PADDR /\ temp # NULL_PADDR
           THEN /\ temp_syspage' = temp
                /\ avoid_list' = avoid_ram(avoid_list, temp, TempSize)
                /\ Grant(temp, TempSize)
           ELSE UNCHANGED <<temp_syspage, avoid_list>> /\ GrantNone
  /\ UNCHANGED <<ws_early_next, sysram, sysram_added, crashed>>

(* alloc_ram(NULL_PADDR, ...); on failure the caller gets NULL_PADDR and   *)
(* nothing has changed.                                                    *)
alloc_ram(ask) ==
  LET addr == find_ram(ram_list, avoid_list, ask.size, ask.align)
  IN /\ Building \/ (Running /\ sysram_added /\ late < MaxLate)
     /\ addr # NULL_PADDR
     /\ alloc_at(addr, ask.size)
     /\ Grant(addr, ask.size)
     /\ UNCHANGED <<avoid_list, ws_early_next, temp_syspage, ram, sysram_added>>

(* alloc_ram(addr, ...) of the image in main().                            *)
alloc_image ==
  /\ Running /\ ~ sysram_added
  /\ alloc_at(ram_paddr, ram_size)
  /\ UNCHANGED <<avoid_list, ws_early_next, temp_syspage, ram, sysram_added>>
  /\ GrantNone

(* alloc_ram(addr, ...) of memory that the board or an option reserves.    *)
(* The second and the third conjunct are premises on the board and the     *)
(* options, which no code checks: the range lies in RAM that was added,    *)
(* and nothing has been handed out in it.                                  *)
alloc_reserved(r) ==
  /\ Building
  /\ Extent(r) \subseteq Cells(ram)
  /\ granted \cap Extent(r) = {}
  /\ alloc_at(r.addr, r.size)
  /\ Grant(r.addr, r.size)
  /\ UNCHANGED <<avoid_list, ws_early_next, temp_syspage, ram, sysram_added>>

(* Without room reserve_ram crashes.                                       *)
reserve_ram(ask) ==
  LET addr == find_top_ram_aligned(ram_list, avoid_list, ask.size, ask.align)
  IN /\ Building
     /\ IF addr = NULL_PADDR
        THEN crashed' = TRUE /\ UNCHANGED <<ram_list, sysram>> /\ GrantNone
        ELSE alloc_at(addr, ask.size) /\ Grant(addr, ask.size)
     /\ UNCHANGED <<avoid_list, ws_early_next, temp_syspage, ram, sysram_added>>

(* Without RAM in the list the workspace comes from behind the image;      *)
(* with RAM but no room ws_alloc returns NULL and changes nothing.         *)
ws_alloc(size) ==
  LET addr == IF ram_list = <<>> THEN ws_early_next
              ELSE find_ram(ram_list, avoid_list, size, 1)
  IN /\ Building
     /\ addr # NULL_PADDR /\ addr + size <= Top + 1
     /\ ws_early_next' = IF ram_list = <<>> THEN addr + size ELSE ws_early_next
     /\ avoid_list' = avoid_ram(avoid_list, addr, size)
     /\ Grant(addr, size)
     /\ UNCHANGED <<ram_list, temp_syspage, ram, sysram, sysram_added, crashed>>

add_sysram ==
  /\ Running /\ ~ sysram_added
  /\ sysram' = FoldLeft(as_add_containing, <<>>, ram_list)
  /\ sysram_added' = TRUE
  /\ UNCHANGED <<ram_list, avoid_list, ws_early_next, temp_syspage, ram, crashed>>
  /\ GrantNone

Next ==
  \/ \E r \in Regions : add_ram(r)
  \/ \E ask \in Asks : alloc_ram(ask) \/ reserve_ram(ask)
  \/ alloc_image
  \/ \E r \in Reserved : alloc_reserved(r)
  \/ \E n \in WsSizes : ws_alloc(n)
  \/ add_sysram

Spec == Init /\ [][Next]_vars

-----------------------------------------------------------------------------
(* Properties.                                                             *)

(* The lists hold ranges, and ram_list has the shape that add_mem and      *)
(* alloc_ram rely on: entries in ascending order that neither overlap nor  *)
(* touch.                                                                  *)
TypeOK ==
  /\ ram_list \in Seq(RamEntry)
  /\ \A i \in 1 .. Len(ram_list) - 1 :
       ram_list[i].addr + ram_list[i].size < ram_list[i + 1].addr
  /\ avoid_list \in Seq([start : 0 .. Top, end : 0 .. Top + 1])
  /\ ws_early_next \in 0 .. Top + 1
  /\ temp_syspage \in {NULL_PADDR} \cup (0 .. Top)
  /\ ram \in Seq(Regions)
  /\ sysram \in Seq([start : 0 .. Top, end : 0 .. Top])
  /\ sysram_added \in BOOLEAN /\ crashed \in BOOLEAN
  /\ granted \subseteq 0 .. Top /\ twice \subseteq granted
  /\ grants \in 0 .. MaxGrants + 1 /\ late \in 0 .. MaxLate

(* No memory is handed out twice: the image, the compressed image, the     *)
(* workspaces of ws_alloc, the temporary system page, the allocations and  *)
(* what is reserved are all apart, although ws_alloc goes back to its      *)
(* early workspace when the list of free RAM runs empty; and what was      *)
(* handed out is no longer in ram_list for the kernel to be told of, but   *)
(* for startup's own workspace, which avoid_list covers.                   *)
GrantsApart ==
  /\ twice = {}
  /\ \A x \in granted \cap Cells(ram_list) :
       \E i \in DOMAIN avoid_list : x \in Avoided(avoid_list[i])

(* Once add_sysram has been called the ranges that the kernel is told of   *)
(* are the free ranges, after every later allocation too, and no address   *)
(* is told twice.                                                          *)
SysramIsFree ==
  sysram_added /\ ~ crashed =>
    /\ UNION {Covered(sysram[i]) : i \in DOMAIN sysram} = Cells(ram_list)
    /\ \A i, j \in DOMAIN sysram : i # j => Covered(sysram[i]) \cap Covered(sysram[j]) = {}

(* A request fails only for want of room: a free range that no avoided     *)
(* range touches and that holds the request, aligned, is found.            *)
NoFalseFailure ==
  \A ask \in Asks :
    find_ram(ram_list, avoid_list, ask.size, ask.align) = NULL_PADDR =>
      ~ \E i \in DOMAIN ram_list :
          /\ \A k \in DOMAIN avoid_list : Avoided(avoid_list[k]) \cap Extent(ram_list[i]) = {}
          /\ \E a \in Extent(ram_list[i]) :
               a % ask.align = 0 /\ a + ask.size <= ram_list[i].addr + ram_list[i].size

Free == INSTANCE FreeRam WITH free <- Cells(ram_list),
                              given <- granted,
                              Blocks <- {Extent(r) : r \in Regions},
                              Boot <- Image

(* The lists of ranges, with their splitting, merging and trimming, and    *)
(* the workspaces outside them implement a set of free addresses, from     *)
(* which an allocation takes what it hands out and nothing else.           *)
FreeSpec == Free!FreeSpec
=============================================================================
