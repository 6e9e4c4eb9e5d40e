------------------------------- MODULE SysDmac -------------------------------
(***************************************************************************)
(* Channels of the system DMA library (lib/dma/rcar/sysdmac): the attach   *)
(* with its rollback and the release, called by threads of one process.    *)
(* Channels and descriptors are reserved at the resource manager, which    *)
(* is external; the register blocks of the channel groups are mapped once  *)
(* per process and counted in the table sysdmac[].                         *)
(***************************************************************************)
EXTENDS Integers

CONSTANTS
  Clients,        \* threads that use one channel each
  NumChannels,    \* chan->channels
  NumGroups,      \* chan->channel_groups
  DescPerGroup,   \* SYSDMAC_DESCRIPTORS_PER_GROUP
  MaxMaps,        \* bound: register blocks mapped at a time
  NumWidth,       \* bound: values of the unsigned counter num
  Requests        \* attach requests the clients make

ChansPerGroup == NumChannels \div NumGroups
Channels      == 0 .. NumChannels - 1
Groups        == 1 .. NumGroups
Descs         == 0 .. NumGroups * DescPerGroup - 1
Entries       == 1 .. NumGroups
Policies      == {"strict", "atleast", "highest", "any"}

ASSUME SysDmacAssumption ==
  /\ NumGroups \in Nat \ {0} /\ DescPerGroup \in Nat /\ MaxMaps \in Nat \ {0}
  /\ NumWidth \in Nat /\ NumWidth > NumChannels
  /\ NumChannels \in Nat \ {0} /\ NumChannels % NumGroups = 0
  /\ Requests \subseteq [policy : Policies, priority : Channels, desc : 0 .. DescPerGroup,
                         event : BOOLEAN]

VARIABLES
  chan,     \* the dma_channel_t of each client
  pc,       \* what each client does next
  it,       \* mem_map_idx of each client
  back,     \* where sysdmac_unmap_registers returns to
  chans, descs,   \* channels and descriptors reserved at the resource manager
  irqs,     \* clients with an interrupt attached
  table,    \* sysdmac[]: group, mapping, number of users
  maps,     \* the group each mapping shows; 0 when it does not exist
  raced     \* history: have two clients been inside the library at a time?

lib  == <<chan, pc, it, back>>
rsrc == <<chans, descs, irqs>>
vars == <<lib, rsrc, table, maps, raced>>

Empty    == [paddr |-> 0, vaddr |-> 0, num |-> 0]
NoChan   == [want |-> 0, event |-> FALSE, chan_idx |-> 0, desc_num |-> 0,
             desc_idx |-> 0, vbase |-> 0]
Group(c) == chan[c].chan_idx \div ChansPerGroup + 1
Internal(c) == chan[c].desc_idx .. chan[c].desc_idx + chan[c].desc_num - 1

Init ==
  /\ chan = [c \in Clients |-> NoChan]
  /\ pc = [c \in Clients |-> "idle"]
  /\ it = [c \in Clients |-> 1]
  /\ back = [c \in Clients |-> "idle"]
  /\ chans = {} /\ descs = {} /\ irqs = {}
  /\ table = [e \in Entries |-> Empty]
  /\ maps = [v \in 1 .. MaxMaps |-> 0]
  /\ raced = FALSE

Lowest(i, S) == i \in S /\ \A j \in S : i <= j
Goto(c, l) == pc' = [pc EXCEPT ![c] = l]
Outside(c) == pc[c] \in {"idle", "attached"}
-----------------------------------------------------------------------------
(* dma_channel_attach.  An attach that the resource manager refuses leaves *)
(* nothing behind.  The search for a channel goes up or down the range.    *)
Wanted(r) ==
  CASE r.policy = "strict"  -> {r.priority}
    [] r.policy = "atleast" -> 0 .. NumChannels - 1 - r.priority
    [] OTHER                -> Channels

attach_channel(c, r) ==
  /\ pc[c] = "idle"
  /\ \E i \in Wanted(r) \ chans :
       /\ \A j \in Wanted(r) \ chans : IF r.policy \in {"atleast", "any"} THEN j <= i ELSE i <= j
       /\ chans' = chans \cup {i}
       /\ chan' = [chan EXCEPT ![c] = [NoChan EXCEPT !.want = r.desc, !.event = r.event,
                                                     !.chan_idx = i]]
  /\ Goto(c, "desc")
  /\ UNCHANGED <<it, back, descs, irqs, table, maps>>

(* Descriptor memory of the group, if there is a run of free descriptors;  *)
(* otherwise external memory is used later.                                *)
DescRuns(c) ==
  LET first == (Group(c) - 1) * DescPerGroup
      n     == chan[c].want
  IN  {s \in first .. first + DescPerGroup - n : (s .. s + n - 1) \cap descs = {}}

attach_desc(c) ==
  /\ pc[c] = "desc"
  /\ IF chan[c].want = 0 \/ DescRuns(c) = {}
       THEN UNCHANGED <<chan, descs>>
       ELSE \E s \in DescRuns(c) :
              /\ Lowest(s, DescRuns(c))
              /\ chan' = [chan EXCEPT ![c].desc_num = chan[c].want, ![c].desc_idx = s]
              /\ descs' = descs \cup (s .. s + chan[c].want - 1)
  /\ Goto(c, "find")
  /\ UNCHANGED <<it, back, chans, irqs, table, maps>>

(* sysdmac_map_registers: an entry for the group is used once more ...     *)
Entry(c) == {e \in Entries : table[e].paddr = Group(c)}

map_find(c) ==
  /\ pc[c] = "find"
  /\ \/ Entry(c) = {} /\ Goto(c, "mmap") /\ UNCHANGED it
     \/ \E e \in Entries :
          Lowest(e, Entry(c)) /\ Goto(c, "add") /\ it' = [it EXCEPT ![c] = e]
  /\ UNCHANGED <<chan, back, rsrc, table, maps>>

map_add(c) ==
  /\ pc[c] = "add"
  /\ table' = [table EXCEPT ![it[c]].num = (@ + 1) % NumWidth]
  /\ chan' = [chan EXCEPT ![c].vbase = table[it[c]].vaddr]
  /\ it' = [it EXCEPT ![c] = 1]
  /\ Goto(c, IF table[it[c]].vaddr = 0 THEN "mmap" ELSE "irq")
  /\ UNCHANGED <<back, rsrc, maps>>

(* ... or the block is mapped and entered.                                 *)
map_mmap(c) ==
  /\ pc[c] = "mmap"
  /\ \E v \in {v \in DOMAIN maps : maps[v] = 0} :
       /\ \A w \in 1 .. v - 1 : maps[w] # 0
       /\ maps' = [maps EXCEPT ![v] = Group(c)]
       /\ chan' = [chan EXCEPT ![c].vbase = v]
  /\ Goto(c, "insert")
  /\ UNCHANGED <<it, back, rsrc, table>>

map_failed(c) ==
  /\ pc[c] = "mmap"
  /\ Goto(c, "fail2")
  /\ UNCHANGED <<chan, it, back, rsrc, table, maps>>

Unused == {e \in Entries : table[e].num = 0}

map_insert(c) ==
  /\ pc[c] = "insert"
  /\ \/ Unused = {} /\ UNCHANGED table
     \/ \E e \in Entries :
          /\ Lowest(e, Unused)
          /\ table' = [table EXCEPT ![e] =
                         [paddr |-> Group(c), vaddr |-> chan[c].vbase, num |-> 1]]
  /\ Goto(c, "irq")
  /\ UNCHANGED <<chan, it, back, rsrc, maps>>

(* The channel is disabled and the interrupt attached, if an event is      *)
(* asked for; a failure goes to fail3.                                     *)
attach_irq(c) ==
  /\ pc[c] = "irq"
  /\ irqs' = IF chan[c].event THEN irqs \cup {c} ELSE irqs
  /\ Goto(c, "attached")
  /\ UNCHANGED <<chan, it, back, chans, descs, table, maps>>

attach_irq_failed(c) ==
  /\ pc[c] = "irq" /\ chan[c].event
  /\ back' = [back EXCEPT ![c] = "fail2"]
  /\ Goto(c, "unmap")
  /\ UNCHANGED <<chan, it, rsrc, table, maps>>

(* fail2, and the same calls in dma_channel_release: channel and           *)
(* descriptors go back to the resource manager.                            *)
\* Mutant: one descriptor too many.
rsrc_detach_more(c) ==
  /\ chans' = chans \ {chan[c].chan_idx}
  /\ descs' = descs \ (chan[c].desc_idx .. chan[c].desc_idx + chan[c].desc_num)

rsrc_detach(c) ==
  /\ chans' = chans \ {chan[c].chan_idx}
  /\ descs' = descs \ Internal(c)

\* Mutant: the descriptors are forgotten.
fail2_channel(c) ==
  /\ pc[c] = "fail2"
  /\ chans' = chans \ {chan[c].chan_idx}
  /\ chan' = [chan EXCEPT ![c] = NoChan]
  /\ Goto(c, "idle")
  /\ UNCHANGED <<it, back, descs, irqs, table, maps>>

fail2(c) ==
  /\ pc[c] = "fail2"
  /\ rsrc_detach(c)
  /\ chan' = [chan EXCEPT ![c] = NoChan]
  /\ Goto(c, "idle")
  /\ UNCHANGED <<it, back, irqs, table, maps>>

(* dma_channel_release: disable, detach the interrupt, give the resources  *)
(* back, unmap.                                                            *)
release(c) ==
  /\ pc[c] = "attached"
  /\ irqs' = irqs \ {c}
  /\ back' = [back EXCEPT ![c] = "idle"]
  /\ Goto(c, "detach")
  /\ UNCHANGED <<chan, it, chans, descs, table, maps>>

release_detach(c) ==
  /\ pc[c] = "detach"
  /\ rsrc_detach(c)
  /\ Goto(c, "unmap")
  /\ UNCHANGED <<chan, it, back, irqs, table, maps>>

(* sysdmac_unmap_registers: every entry of the group loses a user, and is  *)
(* unmapped when it was the last.                                          *)
Ahead(c) == {e \in Entry(c) : e >= it[c]}

unmap_sub(c) ==
  /\ pc[c] = "unmap"
  /\ \E e \in Entries :
       /\ Lowest(e, Ahead(c))
       /\ table' = [table EXCEPT ![e].num = (@ - 1) % NumWidth]
       /\ it' = [it EXCEPT ![c] = e]
  /\ Goto(c, "test")
  /\ UNCHANGED <<chan, back, rsrc, maps>>

\* Mutant: unmapped whoever else uses it.
unmap_test_always(c) ==
  /\ pc[c] = "test"
  /\ maps' = [v \in DOMAIN maps |-> IF v = table[it[c]].vaddr THEN 0 ELSE maps[v]]
  /\ table' = [table EXCEPT ![it[c]] = Empty]
  /\ chan' = [chan EXCEPT ![c].vbase = 0]
  /\ it' = [it EXCEPT ![c] = @ + 1]
  /\ Goto(c, "unmap")
  /\ UNCHANGED <<back, rsrc>>

\* Mutant: the entry is given up, the mapping is not.
unmap_test_nomunmap(c) ==
  /\ pc[c] = "test"
  /\ table' = IF table[it[c]].num = 0 THEN [table EXCEPT ![it[c]] = Empty] ELSE table
  /\ chan' = [chan EXCEPT ![c].vbase = 0]
  /\ it' = [it EXCEPT ![c] = @ + 1]
  /\ Goto(c, "unmap")
  /\ UNCHANGED <<back, rsrc, maps>>

unmap_test(c) ==
  /\ pc[c] = "test"
  /\ IF table[it[c]].num = 0
       THEN /\ maps' = [v \in DOMAIN maps |-> IF v = table[it[c]].vaddr THEN 0 ELSE maps[v]]
            /\ table' = [table EXCEPT ![it[c]] = Empty]
       ELSE UNCHANGED <<maps, table>>
  /\ chan' = [chan EXCEPT ![c].vbase = 0]
  /\ it' = [it EXCEPT ![c] = @ + 1]
  /\ Goto(c, "unmap")
  /\ UNCHANGED <<back, rsrc>>

unmap_done(c) ==
  /\ pc[c] = "unmap" /\ Ahead(c) = {}
  /\ Goto(c, back[c])
  /\ it' = [it EXCEPT ![c] = 1]
  /\ chan' = IF back[c] = "idle" THEN [chan EXCEPT ![c] = NoChan] ELSE chan
  /\ UNCHANGED <<back, rsrc, table, maps>>
-----------------------------------------------------------------------------
Step(c) ==
  \/ \E r \in Requests : attach_channel(c, r)
  \/ attach_desc(c) \/ map_find(c) \/ map_add(c) \/ map_mmap(c) \/ map_failed(c)
  \/ map_insert(c) \/ attach_irq(c) \/ attach_irq_failed(c) \/ fail2(c)
  \/ release(c) \/ release_detach(c)
  \/ unmap_sub(c) \/ unmap_test(c) \/ unmap_done(c)

(* A step of one client while another is inside is the race the table does *)
(* not exclude.                                                            *)
Races(c) == \E d \in Clients \ {c} : ~Outside(d)
Next == \E c \in Clients : Step(c) /\ raced' = (raced \/ Races(c))
Spec == Init /\ [][Next]_vars
-----------------------------------------------------------------------------
Labels == {"idle", "desc", "find", "add", "mmap", "insert", "irq", "attached", "fail2",
           "detach", "unmap", "test"}

Types ==
  /\ chan \in [Clients -> [want : 0 .. DescPerGroup,
                 event : BOOLEAN, chan_idx : Channels, desc_num : 0 .. DescPerGroup,
                 desc_idx : Descs \cup {0}, vbase : 0 .. MaxMaps]]
  /\ pc \in [Clients -> Labels]
  /\ it \in [Clients -> 1 .. NumGroups + 1]
  /\ back \in [Clients -> {"idle", "fail2"}]
  /\ chans \subseteq Channels /\ descs \subseteq Descs /\ irqs \subseteq Clients
  /\ table \in [Entries -> [paddr : 0 .. NumGroups, vaddr : 0 .. MaxMaps,
                            num : 0 .. NumWidth - 1]]
  /\ maps \in [1 .. MaxMaps -> 0 .. NumGroups]

(* Every variable has its type: descriptors come from the channel's range  *)
(* and the loops over the table stay inside it.                            *)
TypeOK == Types /\ raced \in BOOLEAN

(* A client that holds a channel can reach its registers: the block is     *)
(* mapped, and it is the block of the channel's own group ("unmap memory   *)
(* if not in use for other DMA channels in same group").  The table has no *)
(* lock, so this holds while clients have called the library one by one.   *)
RegistersMapped ==
  ~raced => \A c \in Clients : pc[c] \in {"irq", "attached"} => maps[chan[c].vbase] = Group(c)

(* When every client is back outside, after releases and failed attaches   *)
(* of every kind, no channel, descriptor or interrupt is reserved any      *)
(* more, with any number of threads inside the library before.             *)
AllIdle         == \A c \in Clients : pc[c] = "idle"
NothingReserved == AllIdle => chans = {} /\ descs = {} /\ irqs = {}

(* And no register block is mapped or counted any more, while the clients  *)
(* have called the library one by one.                                     *)
NothingLeft ==
  AllIdle /\ ~raced => /\ \A v \in DOMAIN maps : maps[v] = 0
                       /\ \A e \in Entries : table[e] = Empty

(* Channels and descriptors belong to one client at a time, with any       *)
(* number of threads inside the library.                                   *)
Inside   == {"desc", "find", "add", "mmap", "insert", "irq", "attached", "fail2", "detach"}
Holds(c) == pc[c] \in Inside \/ (pc[c] \in {"unmap", "test"} /\ back[c] = "fail2")
Held(c)  ==
  IF Holds(c) THEN {<<"chan", chan[c].chan_idx>>} \cup {<<"desc", d>> : d \in Internal(c)}
              ELSE {}

Pool == INSTANCE ResourcePool WITH held <- [c \in Clients |-> Held(c)]
PoolSpec == Pool!Spec
=============================================================================
