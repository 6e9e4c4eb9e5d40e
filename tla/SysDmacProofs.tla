---------------------------- MODULE SysDmacProofs ----------------------------
(***************************************************************************)
(* The DMA library implements ResourcePool for every number of clients,    *)
(* channels and descriptors, with any number of threads inside it; and its *)
(* table of mapped register blocks, which has no lock, is right while they *)
(* call it one by one.                                                     *)
(***************************************************************************)
EXTENDS SysDmac, TLAPS, FiniteSetTheorems

(* What is reserved at the resource manager is what the clients hold ...   *)
Reserved ==
  /\ \A i : i \in chans <=> \E c \in Clients : Holds(c) /\ i = chan[c].chan_idx
  /\ \A x : x \in descs <=> \E c \in Clients : Holds(c) /\ x \in Internal(c)

(* ... an interrupt is attached for the channels that asked for one ...    *)
IrqsAttached == irqs = {c \in Clients : pc[c] = "attached" /\ chan[c].event}

(* ... and no two of them hold the same.                                   *)
Separate ==
  \A c, d \in Clients :
    c # d /\ Holds(c) /\ Holds(d)
      => chan[c].chan_idx # chan[d].chan_idx /\ Internal(c) \cap Internal(d) = {}

(* Where a client is tells what its channel holds, where it is in the      *)
(* table, and where the unmapping of its registers returns to.             *)
Control ==
  \A c \in Clients :
    /\ pc[c] \in {"idle", "desc"} => chan[c].desc_num = 0
    /\ pc[c] \in {"add", "test"} => it[c] \in Entries
    /\ pc[c] = "detach" => back[c] = "idle"

PoolInv == Types /\ Reserved /\ IrqsAttached /\ Separate /\ Control
-----------------------------------------------------------------------------
(* A channel number below b * n is in one of n groups of b.                *)
LEMMA DivBound ==
  ASSUME NEW a \in Nat, NEW b \in Nat, NEW n \in Nat, b > 0, a < b * n
  PROVE  a \div b \in 0 .. n - 1
  <1> DEFINE q == a \div b
  <1>1. q \in Nat /\ b * q <= a
    BY Z3
  <1>2. SUFFICES ASSUME q >= n PROVE FALSE
    BY <1>1
  <1>3. b * q >= b * n
    BY <1>1, <1>2
  <1> QED BY <1>1, <1>3

(* Groups of equal size fill the channels.                                 *)
LEMMA ModZero ==
  ASSUME NEW m \in Nat \ {0}, NEW n \in Nat \ {0}, m % n = 0
  PROVE  m = (m \div n) * n /\ (m \div n) \in Nat \ {0}
  OBVIOUS

(* Every channel is in a group.                                            *)
LEMMA GroupType ==
  ASSUME Types, NEW c \in Clients
  PROVE  Group(c) \in Groups
  <1>1. ChansPerGroup \in Nat \ {0} /\ NumChannels = ChansPerGroup * NumGroups
    BY ModZero, SysDmacAssumption DEF ChansPerGroup
  <1>2. chan[c].chan_idx \in Nat /\ chan[c].chan_idx < ChansPerGroup * NumGroups
    <2>1. chan[c].chan_idx \in Channels
      BY DEF Types
    <2>2. chan[c].chan_idx \in Nat /\ chan[c].chan_idx < NumChannels
      BY <2>1, SysDmacAssumption DEF Channels
    <2> QED BY <1>1, <2>2
  <1>3. chan[c].chan_idx \div ChansPerGroup \in 0 .. NumGroups - 1
    BY <1>1, <1>2, DivBound, SysDmacAssumption
  <1> QED BY <1>3, SysDmacAssumption DEF Group, Groups

(* A run of descriptors found by attach lies in the descriptor memory.     *)
LEMMA RunType ==
  ASSUME Types, NEW c \in Clients, NEW s \in DescRuns(c), chan[c].want # 0
  PROVE  s \in Descs /\ s .. s + chan[c].want - 1 \subseteq Descs
  <1> DEFINE g == Group(c) - 1
             first == g * DescPerGroup
             n == chan[c].want
  <1>1. g \in 0 .. NumGroups - 1 /\ NumGroups \in Nat /\ DescPerGroup \in Nat /\ n \in Nat \ {0}
    <2>1. chan[c].want \in 0 .. DescPerGroup
      BY DEF Types
    <2> QED BY <2>1, GroupType, SysDmacAssumption DEF Groups
  <1> HIDE DEF g, n
  <1>2. g * DescPerGroup \in Nat /\ g * DescPerGroup + DescPerGroup <= NumGroups * DescPerGroup
    <2>1. (g + 1) * DescPerGroup <= NumGroups * DescPerGroup
      BY <1>1
    <2> QED BY <1>1, <2>1
  <1>3. s \in first .. first + DescPerGroup - n
    BY DEF DescRuns, g, n
  <1>4. s \in Nat /\ s + n - 1 < NumGroups * DescPerGroup /\ NumGroups * DescPerGroup \in Nat
    BY <1>1, <1>2, <1>3
  <1>5. s \in Descs /\ s .. s + n - 1 \subseteq Descs
    BY <1>1, <1>4 DEF Descs
  <1> QED BY <1>5 DEF n
-----------------------------------------------------------------------------
(* The records of a channel and of an entry of the table, and what their   *)
(* updates leave in place.                                                 *)
ChanRec ==
  [want : 0 .. DescPerGroup, event : BOOLEAN,
   chan_idx : Channels, desc_num : 0 .. DescPerGroup, desc_idx : Descs \cup {0},
   vbase : 0 .. MaxMaps]
EntryRec == [paddr : 0 .. NumGroups, vaddr : 0 .. MaxMaps, num : 0 .. NumWidth - 1]

(* The type invariant in these terms.                                      *)
LEMMA TypeParts ==
  Types <=> /\ chan \in [Clients -> ChanRec] /\ pc \in [Clients -> Labels]
             /\ it \in [Clients -> 1 .. NumGroups + 1]
             /\ back \in [Clients -> {"idle", "fail2"}]
             /\ chans \subseteq Channels /\ descs \subseteq Descs /\ irqs \subseteq Clients
             /\ table \in [Entries -> EntryRec] /\ maps \in [1 .. MaxMaps -> 0 .. NumGroups]
  BY DEF Types, ChanRec, EntryRec

(* The zeroed records, and the updates the actions make.                   *)
LEMMA RecordUpdates ==
  /\ NoChan \in ChanRec /\ Empty \in EntryRec
  /\ \A x \in ChanRec, v \in 0 .. MaxMaps : [x EXCEPT !.vbase = v] \in ChanRec
  /\ \A x \in ChanRec, n \in 0 .. DescPerGroup, i \in Descs :
       [x EXCEPT !.desc_num = n, !.desc_idx = i] \in ChanRec
  /\ \A e \in EntryRec, n \in 0 .. NumWidth - 1 : [e EXCEPT !.num = n] \in EntryRec
  <1>1. NoChan \in ChanRec /\ Empty \in EntryRec
    BY SysDmacAssumption DEF NoChan, ChanRec, Empty, EntryRec, Policies, Channels
  <1>2. \A x \in ChanRec, v \in 0 .. MaxMaps : [x EXCEPT !.vbase = v] \in ChanRec
    BY DEF ChanRec
  <1>3. \A x \in ChanRec, n \in 0 .. DescPerGroup, i \in Descs :
       [x EXCEPT !.desc_num = n, !.desc_idx = i] \in ChanRec
    BY DEF ChanRec
  <1>4. \A e \in EntryRec, n \in 0 .. NumWidth - 1 : [e EXCEPT !.num = n] \in EntryRec
    BY DEF EntryRec
  <1> QED BY <1>1, <1>2, <1>3, <1>4

(* The invariant holds initially.                                          *)
LEMMA InitPool == Init => PoolInv
  <1> SUFFICES ASSUME Init PROVE PoolInv
    OBVIOUS
  <1>1. Types
    <2>1. 1 \in 1 .. NumGroups + 1 /\ 0 \in 0 .. NumGroups
      BY SysDmacAssumption
    <2>2. table \in [Entries -> EntryRec] /\ chan \in [Clients -> ChanRec]
      BY RecordUpdates DEF Init
    <2> QED BY <2>1, <2>2, TypeParts DEF Init, Labels
  <1>2. \A c \in Clients : ~Holds(c) /\ pc[c] = "idle" /\ chan[c] = NoChan
    BY DEF Init, Holds, Inside
  <1>3. Reserved /\ Separate /\ IrqsAttached
    BY <1>2 DEF Init, Reserved, Separate, IrqsAttached
  <1>4. Control
    <2>1. NoChan.desc_num = 0
      BY DEF NoChan
    <2>2. \A c \in Clients : chan[c].desc_num = 0 /\ pc[c] = "idle"
      BY <1>2, <2>1
    <2> QED BY <2>2 DEF Control
  <1> QED BY <1>1, <1>3, <1>4 DEF PoolInv

(* Every step keeps the types; the index into the table is inside it where *)
(* it is used.                                                             *)
LEMMA StepType ==
  ASSUME PoolInv, NEW c \in Clients, Step(c)
  PROVE  Types'
  <1> USE DEF PoolInv
  <1> DEFINE T == /\ chan' \in [Clients -> ChanRec] /\ pc' \in [Clients -> Labels]
             /\ it' \in [Clients -> 1 .. NumGroups + 1]
             /\ back' \in [Clients -> {"idle", "fail2"}]
             /\ chans' \subseteq Channels /\ descs' \subseteq Descs /\ irqs' \subseteq Clients
             /\ table' \in [Entries -> EntryRec] /\ maps' \in [1 .. MaxMaps -> 0 .. NumGroups]
  <1>0. SUFFICES T
    BY DEF Types, ChanRec, EntryRec
  <1>t. /\ chan \in [Clients -> ChanRec] /\ pc \in [Clients -> Labels]
        /\ it \in [Clients -> 1 .. NumGroups + 1]
        /\ back \in [Clients -> {"idle", "fail2"}]
        /\ chans \subseteq Channels /\ descs \subseteq Descs /\ irqs \subseteq Clients
        /\ table \in [Entries -> EntryRec] /\ maps \in [1 .. MaxMaps -> 0 .. NumGroups]
    BY TypeParts
  <1>1. Group(c) \in 1 .. NumGroups
    BY GroupType DEF Groups
  <1>2. ASSUME NEW r \in Requests, attach_channel(c, r) PROVE T
    <2>1. r \in [policy : Policies, priority : Channels, desc : 0 .. DescPerGroup, event : BOOLEAN]
      BY SysDmacAssumption
    <2>2. Wanted(r) \subseteq Channels
      BY <2>1, SysDmacAssumption DEF Wanted, Channels, Policies
    <2>3. PICK i \in Wanted(r) \ chans :
            /\ chans' = chans \cup {i}
            /\ chan' = [chan EXCEPT ![c] = [NoChan EXCEPT !.want = r.desc, !.event = r.event,
                                                          !.chan_idx = i]]
      BY <1>2 DEF attach_channel
    <2>4. 0 \in 0 .. DescPerGroup /\ 0 \in 0 .. MaxMaps
      BY SysDmacAssumption
    <2>5. [NoChan EXCEPT !.want = r.desc, !.event = r.event, !.chan_idx = i] \in ChanRec
      BY <2>1, <2>2, <2>4 DEF NoChan, ChanRec
    <2> QED BY <1>2, <1>t, <2>2, <2>3, <2>5 DEF attach_channel, Goto, Labels
  <1>3. CASE attach_desc(c)
    <2>1. CASE UNCHANGED <<chan, descs>>
      BY <1>3, <1>t, <2>1 DEF attach_desc, Goto, Labels
    <2>2. CASE ~(chan[c].want = 0 \/ DescRuns(c) = {})
      <3>1. PICK s \in DescRuns(c) :
              /\ chan' = [chan EXCEPT ![c].desc_num = chan[c].want, ![c].desc_idx = s]
              /\ descs' = descs \cup (s .. s + chan[c].want - 1)
        BY <1>3, <2>2 DEF attach_desc
      <3>2. chan[c].want \in 0 .. DescPerGroup /\ chan[c] \in ChanRec
        BY <1>t DEF ChanRec
      <3>3. s \in Descs /\ s .. s + chan[c].want - 1 \subseteq Descs
        BY <2>2, RunType
      <3>4. [chan[c] EXCEPT !.desc_num = chan[c].want, !.desc_idx = s] \in ChanRec
        BY <3>2, <3>3, RecordUpdates
      <3> QED BY <1>3, <1>t, <3>1, <3>3, <3>4 DEF attach_desc, Goto, Labels
    <2> QED BY <1>3, <2>1, <2>2 DEF attach_desc
  <1>4. CASE map_find(c)
    <2>1. it' \in [Clients -> 1 .. NumGroups + 1]
      <3>1. \A e \in Entries : e \in 1 .. NumGroups + 1
        BY SysDmacAssumption DEF Entries
      <3> QED BY <1>4, <1>t, <3>1 DEF map_find
    <2>2. pc' \in [Clients -> Labels]
      BY <1>4, <1>t DEF map_find, Goto, Labels
    <2> QED BY <1>4, <1>t, <2>1, <2>2 DEF map_find, rsrc
  <1>5. CASE map_add(c)
    <2>1. it[c] \in Entries /\ table[it[c]] \in EntryRec /\ chan[c] \in ChanRec
      BY <1>5, <1>t DEF map_add, Control
    <2>2. table[it[c]].num \in 0 .. NumWidth - 1 /\ table[it[c]].vaddr \in 0 .. MaxMaps
      BY <2>1 DEF EntryRec
    <2>3. (table[it[c]].num + 1) % NumWidth \in 0 .. NumWidth - 1
      BY <2>2, SysDmacAssumption
    <2>4. table' \in [Entries -> EntryRec] /\ chan' \in [Clients -> ChanRec]
      BY <1>5, <1>t, <2>1, <2>2, <2>3, RecordUpdates DEF map_add
    <2>5. it' \in [Clients -> 1 .. NumGroups + 1] /\ pc' \in [Clients -> Labels]
      BY <1>5, <1>t, SysDmacAssumption DEF map_add, Goto, Labels
    <2> QED BY <1>5, <1>t, <2>4, <2>5 DEF map_add, rsrc
  <1>6. CASE map_mmap(c)
    <2>1. PICK v \in DOMAIN maps : /\ maps' = [maps EXCEPT ![v] = Group(c)]
                                   /\ chan' = [chan EXCEPT ![c].vbase = v]
      BY <1>6 DEF map_mmap
    <2>2. v \in 0 .. MaxMaps /\ Group(c) \in 0 .. NumGroups
      BY <1>1, <1>t, SysDmacAssumption
    <2>3. maps' \in [1 .. MaxMaps -> 0 .. NumGroups] /\ chan' \in [Clients -> ChanRec]
      BY <1>t, <2>1, <2>2, RecordUpdates
    <2> QED BY <1>6, <1>t, <2>3 DEF map_mmap, Goto, Labels, rsrc
  <1>7. CASE map_failed(c)
    BY <1>7, <1>t DEF map_failed, Goto, Labels, rsrc
  <1>8. CASE map_insert(c)
    <2>1. [paddr |-> Group(c), vaddr |-> chan[c].vbase, num |-> 1] \in EntryRec
      <3>1. chan[c].vbase \in 0 .. MaxMaps
        BY <1>t DEF ChanRec
      <3>2. 1 \in 0 .. NumWidth - 1 /\ Group(c) \in 0 .. NumGroups
        BY <1>1, SysDmacAssumption
      <3> QED BY <3>1, <3>2 DEF EntryRec
    <2> QED BY <1>8, <1>t, <2>1 DEF map_insert, Goto, Labels, rsrc
  <1>9. CASE attach_irq(c)
    BY <1>9, <1>t DEF attach_irq, Goto, Labels
  <1>10. CASE attach_irq_failed(c)
    BY <1>10, <1>t DEF attach_irq_failed, Goto, Labels, rsrc
  <1>11. CASE fail2(c)
    BY <1>11, <1>t, RecordUpdates DEF fail2, rsrc_detach, Goto, Labels
  <1>12. CASE release(c)
    BY <1>12, <1>t DEF release, Goto, Labels
  <1>13. CASE release_detach(c)
    BY <1>13, <1>t DEF release_detach, rsrc_detach, Goto, Labels
  <1>14. CASE unmap_sub(c)
    <2>1. PICK e \in Entries : /\ table' = [table EXCEPT ![e].num = (@ - 1) % NumWidth]
                               /\ it' = [it EXCEPT ![c] = e]
      BY <1>14 DEF unmap_sub
    <2>2. table[e] \in EntryRec /\ table[e].num \in 0 .. NumWidth - 1
      BY <1>t DEF EntryRec
    <2>3. (table[e].num - 1) % NumWidth \in 0 .. NumWidth - 1
      BY <2>2, SysDmacAssumption
    <2>4. table' \in [Entries -> EntryRec]
      BY <1>t, <2>1, <2>2, <2>3, RecordUpdates
    <2>5. it' \in [Clients -> 1 .. NumGroups + 1]
      BY <1>t, <2>1, SysDmacAssumption DEF Entries
    <2> QED BY <1>14, <1>t, <2>4, <2>5 DEF unmap_sub, Goto, Labels, rsrc
  <1>15. CASE unmap_test(c)
    <2>1. it[c] \in Entries /\ it[c] + 1 \in 1 .. NumGroups + 1
      BY <1>15, SysDmacAssumption DEF unmap_test, Control, Entries
    <2>2. 0 \in 0 .. MaxMaps /\ 0 \in 0 .. NumGroups
      BY SysDmacAssumption
    <2>3. chan' \in [Clients -> ChanRec] /\ it' \in [Clients -> 1 .. NumGroups + 1]
      BY <1>15, <1>t, <2>1, <2>2, RecordUpdates DEF unmap_test
    <2>4. table' \in [Entries -> EntryRec] /\ maps' \in [1 .. MaxMaps -> 0 .. NumGroups]
      BY <1>15, <1>t, <2>2, RecordUpdates DEF unmap_test
    <2> QED BY <1>15, <1>t, <2>3, <2>4 DEF unmap_test, Goto, Labels, rsrc
  <1>16. CASE unmap_done(c)
    <2>1. it' \in [Clients -> 1 .. NumGroups + 1]
      BY <1>16, <1>t, SysDmacAssumption DEF unmap_done
    <2> QED BY <1>16, <1>t, <2>1, RecordUpdates DEF unmap_done, Goto, Labels, rsrc
  <1> QED BY <1>2, <1>3, <1>4, <1>5, <1>6, <1>7, <1>8, <1>9, <1>10, <1>11, <1>12, <1>13,
             <1>14, <1>15, <1>16 DEF Step
-----------------------------------------------------------------------------
(* A step of one client leaves the others alone.                           *)
Alone(c) ==
  \A d \in Clients \ {c} : /\ chan'[d] = chan[d] /\ pc'[d] = pc[d]
                           /\ back'[d] = back[d] /\ it'[d] = it[d]

(* Every step is such a step.                                              *)
LEMMA StepAlone ==
  ASSUME Types, NEW c \in Clients, Step(c)
  PROVE  Alone(c)
  <1>t. DOMAIN chan = Clients /\ DOMAIN pc = Clients /\ DOMAIN back = Clients /\ DOMAIN it = Clients
    BY DEF Types
  <1>1. \A l : Goto(c, l) => \A d \in Clients \ {c} : pc'[d] = pc[d]
    BY <1>t DEF Goto
  <1>2. ASSUME NEW r \in Requests, attach_channel(c, r) PROVE Alone(c)
    BY <1>t, <1>1, <1>2 DEF attach_channel, Alone
  <1>3. CASE attach_desc(c)
    BY <1>t, <1>1, <1>3 DEF attach_desc, Alone
  <1>4. CASE map_find(c)
    BY <1>t, <1>1, <1>4 DEF map_find, Alone
  <1>5. CASE map_add(c)
    BY <1>t, <1>1, <1>5 DEF map_add, Alone
  <1>6. CASE map_mmap(c)
    BY <1>t, <1>1, <1>6 DEF map_mmap, Alone
  <1>7. CASE map_failed(c)
    BY <1>t, <1>1, <1>7 DEF map_failed, Alone
  <1>8. CASE map_insert(c)
    BY <1>t, <1>1, <1>8 DEF map_insert, Alone
  <1>9. CASE attach_irq(c)
    BY <1>t, <1>1, <1>9 DEF attach_irq, Alone
  <1>10. CASE attach_irq_failed(c)
    BY <1>t, <1>1, <1>10 DEF attach_irq_failed, Alone
  <1>11. CASE fail2(c)
    BY <1>t, <1>1, <1>11 DEF fail2, Alone
  <1>12. CASE release(c)
    BY <1>t, <1>1, <1>12 DEF release, Alone
  <1>13. CASE release_detach(c)
    BY <1>t, <1>1, <1>13 DEF release_detach, Alone
  <1>14. CASE unmap_sub(c)
    BY <1>t, <1>1, <1>14 DEF unmap_sub, Alone
  <1>15. CASE unmap_test(c)
    BY <1>t, <1>1, <1>15 DEF unmap_test, Alone
  <1>16. CASE unmap_done(c)
    BY <1>t, <1>1, <1>16 DEF unmap_done, Alone
  <1> QED BY <1>2, <1>3, <1>4, <1>5, <1>6, <1>7, <1>8, <1>9, <1>10, <1>11, <1>12, <1>13,
             <1>14, <1>15, <1>16 DEF Step

(* The others hold what they held.                                         *)
LEMMA OthersHold ==
  ASSUME NEW c \in Clients, Alone(c), NEW d \in Clients, d # c
  PROVE  /\ Holds(d)' <=> Holds(d)
         /\ chan'[d].chan_idx = chan[d].chan_idx
         /\ Internal(d)' = Internal(d) /\ Held(d)' = Held(d)
  <1>1. chan'[d] = chan[d] /\ pc'[d] = pc[d] /\ back'[d] = back[d]
    BY DEF Alone
  <1>2. Holds(d)' <=> Holds(d)
    BY <1>1 DEF Holds
  <1>3. Internal(d)' = Internal(d)
    BY <1>1 DEF Internal
  <1> QED BY <1>1, <1>2, <1>3 DEF Held

(* Four kinds of steps: the client keeps what it holds, takes a channel,   *)
(* takes descriptors, or gives everything back.                            *)
Keeps(c) ==
  /\ Holds(c)' <=> Holds(c)
  /\ Holds(c) => chan'[c].chan_idx = chan[c].chan_idx /\ Internal(c)' = Internal(c)
  /\ UNCHANGED <<chans, descs>>

TakesChannel(c) ==
  /\ ~Holds(c) /\ Holds(c)' /\ Internal(c)' = {}
  /\ chan'[c].chan_idx \notin chans /\ chans' = chans \cup {chan'[c].chan_idx}
  /\ UNCHANGED descs

TakesDescs(c) ==
  /\ Holds(c) /\ Holds(c)' /\ Internal(c) = {}
  /\ chan'[c].chan_idx = chan[c].chan_idx
  /\ Internal(c)' \cap descs = {} /\ descs' = descs \cup Internal(c)'
  /\ UNCHANGED chans

GivesBack(c) ==
  /\ Holds(c) /\ ~Holds(c)'
  /\ chans' = chans \ {chan[c].chan_idx} /\ descs' = descs \ Internal(c)

(* Each kind keeps the books, and is a step of the pool.                   *)
LEMMA KindPool ==
  ASSUME Reserved, Separate, NEW c \in Clients, Alone(c),
         Keeps(c) \/ TakesChannel(c) \/ TakesDescs(c) \/ GivesBack(c)
  PROVE  Reserved' /\ Separate'
  <1>1. \A d \in Clients \ {c} : /\ Holds(d)' <=> Holds(d)
                                 /\ chan'[d].chan_idx = chan[d].chan_idx
                                 /\ Internal(d)' = Internal(d)
    BY OthersHold
  <1>2. CASE Keeps(c)
    <2>1. Reserved'
      BY <1>1, <1>2 DEF Reserved, Keeps
    <2>2. Separate'
      BY <1>1, <1>2 DEF Separate, Keeps
    <2> QED BY <2>1, <2>2
  <1>3. CASE TakesChannel(c)
    <2>1. Reserved'
      BY <1>1, <1>3 DEF Reserved, TakesChannel
    <2>2. Separate'
      BY <1>1, <1>3 DEF Separate, Reserved, TakesChannel
    <2> QED BY <2>1, <2>2
  <1>4. CASE TakesDescs(c)
    <2>1. Reserved'
      BY <1>1, <1>4 DEF Reserved, TakesDescs
    <2>2. Separate'
      BY <1>1, <1>4 DEF Separate, Reserved, TakesDescs
    <2> QED BY <2>1, <2>2
  <1>5. CASE GivesBack(c)
    <2>1. Reserved'
      BY <1>1, <1>5 DEF Reserved, Separate, GivesBack
    <2>2. Separate'
      BY <1>1, <1>5 DEF Separate, GivesBack
    <2> QED BY <2>1, <2>2
  <1> QED BY <1>2, <1>3, <1>4, <1>5

(* A run that attach found is free.                                        *)
LEMMA RunFree ==
  ASSUME NEW c \in Clients, NEW s \in DescRuns(c)
  PROVE  (s .. s + chan[c].want - 1) \cap descs = {}
  BY DEF DescRuns

(* Every action of the library is of one of the four kinds.                *)
LEMMA StepKind ==
  ASSUME PoolInv, NEW c \in Clients, Step(c)
  PROVE  Keeps(c) \/ TakesChannel(c) \/ TakesDescs(c) \/ GivesBack(c)
  <1> USE DEF PoolInv
  <1>t. /\ chan \in [Clients -> ChanRec] /\ pc \in [Clients -> Labels]
        /\ back \in [Clients -> {"idle", "fail2"}] /\ chan[c] \in ChanRec
    BY TypeParts
  <1>2. ASSUME NEW r \in Requests, attach_channel(c, r) PROVE TakesChannel(c)
    <2>1. PICK i \in Wanted(r) \ chans :
            /\ chans' = chans \cup {i}
            /\ chan' = [chan EXCEPT ![c] = [NoChan EXCEPT !.want = r.desc, !.event = r.event,
                                                          !.chan_idx = i]]
      BY <1>2 DEF attach_channel
    <2>2. chan'[c].chan_idx = i /\ chan'[c].desc_num = 0 /\ chan'[c].desc_idx = 0
      BY <1>t, <2>1 DEF NoChan
    <2>3. Internal(c)' = {}
      BY <2>2 DEF Internal
    <2>4. ~Holds(c) /\ Holds(c)'
      BY <1>t, <1>2 DEF attach_channel, Goto, Holds, Inside
    <2> QED BY <1>2, <2>1, <2>2, <2>3, <2>4 DEF attach_channel, TakesChannel
  <1>3. CASE attach_desc(c)
    <2>1. Holds(c) /\ Holds(c)'
      BY <1>t, <1>3 DEF attach_desc, Goto, Holds, Inside
    <2>2. CASE UNCHANGED <<chan, descs>>
      <3>1. Internal(c)' = Internal(c)
        BY <2>2 DEF Internal
      <3> QED BY <1>3, <2>1, <2>2, <3>1 DEF attach_desc, Keeps
    <2>3. CASE ~(chan[c].want = 0 \/ DescRuns(c) = {})
      <3>1. PICK s \in DescRuns(c) :
              /\ chan' = [chan EXCEPT ![c].desc_num = chan[c].want, ![c].desc_idx = s]
              /\ descs' = descs \cup (s .. s + chan[c].want - 1)
        BY <1>3, <2>3 DEF attach_desc
      <3>2. /\ chan'[c].chan_idx = chan[c].chan_idx /\ chan'[c].desc_num = chan[c].want
            /\ chan'[c].desc_idx = s
        BY <1>t, <3>1 DEF ChanRec
      <3>3. Internal(c)' = s .. s + chan[c].want - 1
        BY <3>2 DEF Internal
      <3>4. Internal(c) = {}
        <4>1. chan[c].desc_num = 0
          BY <1>3 DEF attach_desc, Control
        <4>2. chan[c].desc_idx \in Int
          BY <1>t, SysDmacAssumption DEF ChanRec, Descs
        <4> QED BY <4>1, <4>2 DEF Internal
      <3> QED BY <1>3, <2>1, <3>1, <3>2, <3>3, <3>4, RunFree DEF attach_desc, TakesDescs
    <2> QED BY <1>3, <2>2, <2>3 DEF attach_desc
  <1>4. CASE map_find(c)
    <2>1. Holds(c) /\ Holds(c)'
      BY <1>t, <1>4 DEF map_find, Goto, Holds, Inside
    <2> QED BY <1>4, <2>1 DEF map_find, Keeps, Internal, rsrc
  <1>5. CASE map_add(c)
    <2>1. /\ chan'[c].chan_idx = chan[c].chan_idx /\ chan'[c].desc_num = chan[c].desc_num
          /\ chan'[c].desc_idx = chan[c].desc_idx
      BY <1>t, <1>5 DEF map_add, ChanRec
    <2>2. Holds(c) /\ Holds(c)'
      BY <1>t, <1>5 DEF map_add, Goto, Holds, Inside
    <2>3. Internal(c)' = Internal(c)
      BY <2>1 DEF Internal
    <2> QED BY <1>5, <2>1, <2>2, <2>3 DEF map_add, Keeps, rsrc
  <1>6. CASE map_mmap(c)
    <2>1. /\ chan'[c].chan_idx = chan[c].chan_idx /\ chan'[c].desc_num = chan[c].desc_num
          /\ chan'[c].desc_idx = chan[c].desc_idx
      BY <1>t, <1>6 DEF map_mmap, ChanRec
    <2>2. Holds(c) /\ Holds(c)'
      BY <1>t, <1>6 DEF map_mmap, Goto, Holds, Inside
    <2>3. Internal(c)' = Internal(c)
      BY <2>1 DEF Internal
    <2> QED BY <1>6, <2>1, <2>2, <2>3 DEF map_mmap, Keeps, rsrc
  <1>7. CASE map_failed(c)
    <2>1. Holds(c) /\ Holds(c)'
      BY <1>t, <1>7 DEF map_failed, Goto, Holds, Inside
    <2> QED BY <1>7, <2>1 DEF map_failed, Keeps, Internal, rsrc
  <1>8. CASE map_insert(c)
    <2>1. Holds(c) /\ Holds(c)'
      BY <1>t, <1>8 DEF map_insert, Goto, Holds, Inside
    <2> QED BY <1>8, <2>1 DEF map_insert, Keeps, Internal, rsrc
  <1>9. CASE attach_irq(c)
    <2>1. Holds(c) /\ Holds(c)'
      BY <1>t, <1>9 DEF attach_irq, Goto, Holds, Inside
    <2> QED BY <1>9, <2>1 DEF attach_irq, Keeps, Internal, rsrc
  <1>10. CASE attach_irq_failed(c)
    <2>1. Holds(c) /\ Holds(c)'
      BY <1>t, <1>10 DEF attach_irq_failed, Goto, Holds, Inside
    <2> QED BY <1>10, <2>1 DEF attach_irq_failed, Keeps, Internal, rsrc
  <1>11. CASE fail2(c)
    <2>1. Holds(c) /\ ~Holds(c)'
      BY <1>t, <1>11 DEF fail2, Goto, Holds, Inside
    <2> QED BY <1>11, <2>1 DEF fail2, rsrc_detach, GivesBack
  <1>12. CASE release(c)
    <2>1. Holds(c) /\ Holds(c)'
      BY <1>t, <1>12 DEF release, Goto, Holds, Inside
    <2> QED BY <1>12, <2>1 DEF release, Keeps, Internal
  <1>13. CASE release_detach(c)
    <2>1. Holds(c) /\ ~Holds(c)'
      BY <1>t, <1>13 DEF release_detach, Goto, Holds, Inside, Control
    <2> QED BY <1>13, <2>1 DEF release_detach, rsrc_detach, GivesBack
  <1>14. CASE unmap_sub(c)
    <2>1. Holds(c)' <=> Holds(c)
      BY <1>t, <1>14 DEF unmap_sub, Goto, Holds, Inside
    <2> QED BY <1>14, <2>1 DEF unmap_sub, Keeps, Internal, rsrc
  <1>15. CASE unmap_test(c)
    <2>1. /\ chan'[c].chan_idx = chan[c].chan_idx /\ chan'[c].desc_num = chan[c].desc_num
          /\ chan'[c].desc_idx = chan[c].desc_idx
      BY <1>t, <1>15 DEF unmap_test, ChanRec
    <2>2. Holds(c)' <=> Holds(c)
      BY <1>t, <1>15 DEF unmap_test, Goto, Holds, Inside
    <2>3. Internal(c)' = Internal(c)
      BY <2>1 DEF Internal
    <2> QED BY <1>15, <2>1, <2>2, <2>3 DEF unmap_test, Keeps, rsrc
  <1>16. CASE unmap_done(c)
    <2>1. Holds(c)' <=> Holds(c)
      BY <1>t, <1>16 DEF unmap_done, Goto, Holds, Inside
    <2>2. Holds(c) => chan' = chan
      BY <1>t, <1>16 DEF unmap_done, Holds, Inside
    <2>3. Holds(c) => Internal(c)' = Internal(c)
      BY <2>2 DEF Internal
    <2> QED BY <1>16, <2>1, <2>2, <2>3 DEF unmap_done, Keeps, rsrc
  <1> QED BY <1>2, <1>3, <1>4, <1>5, <1>6, <1>7, <1>8, <1>9, <1>10, <1>11, <1>12, <1>13,
             <1>14, <1>15, <1>16 DEF Step

(* Interrupts follow the attached channels, and the control state of a     *)
(* client fits its channel.                                                *)
LEMMA StepControl ==
  ASSUME PoolInv, NEW c \in Clients, Step(c)
  PROVE  IrqsAttached' /\ Control'
  <1> USE DEF PoolInv
  <1>t. /\ chan \in [Clients -> ChanRec] /\ pc \in [Clients -> Labels]
        /\ back \in [Clients -> {"idle", "fail2"}] /\ it \in [Clients -> 1 .. NumGroups + 1]
        /\ chan[c] \in ChanRec /\ irqs \subseteq Clients
    BY TypeParts
  <1>a. Alone(c)
    BY StepAlone
  <1> DEFINE On(d) == pc[d] = "attached" /\ chan[d].event
             Fits == /\ pc'[c] \in {"idle", "desc"} => chan'[c].desc_num = 0
                     /\ pc'[c] \in {"add", "test"} => it'[c] \in Entries
                     /\ pc'[c] = "detach" => back'[c] = "idle"
  <1>s. SUFFICES Fits /\ irqs' = IF On(c)' THEN irqs \cup {c} ELSE irqs \ {c}
    <2>1. ASSUME Fits PROVE Control'
      BY <1>a, <2>1 DEF Control, Alone
    <2>2. ASSUME irqs' = IF On(c)' THEN irqs \cup {c} ELSE irqs \ {c} PROVE IrqsAttached'
      BY <1>a, <1>t, <2>2 DEF IrqsAttached, Alone
    <2> QED BY <2>1, <2>2
  <1>i. c \in irqs <=> On(c)
    BY DEF IrqsAttached
  <1>2. ASSUME NEW r \in Requests, attach_channel(c, r)
        PROVE  Fits /\ irqs' = IF On(c)' THEN irqs \cup {c} ELSE irqs \ {c}
    BY <1>t, <1>i, <1>2 DEF attach_channel, Goto, NoChan
  <1>3. CASE attach_desc(c)
    BY <1>t, <1>i, <1>3 DEF attach_desc, Goto, Control, rsrc, NoChan
  <1>4. CASE map_find(c)
    BY <1>t, <1>i, <1>4 DEF map_find, Goto, Control, rsrc, NoChan
  <1>5. CASE map_add(c)
    BY <1>t, <1>i, <1>5 DEF map_add, Goto, Control, rsrc, NoChan
  <1>6. CASE map_mmap(c)
    BY <1>t, <1>i, <1>6 DEF map_mmap, Goto, Control, rsrc, NoChan
  <1>7. CASE map_failed(c)
    BY <1>t, <1>i, <1>7 DEF map_failed, Goto, Control, rsrc, NoChan
  <1>8. CASE map_insert(c)
    BY <1>t, <1>i, <1>8 DEF map_insert, Goto, Control, rsrc, NoChan
  <1>9. CASE attach_irq(c)
    BY <1>t, <1>i, <1>9 DEF attach_irq, Goto, Control, rsrc, NoChan
  <1>10. CASE attach_irq_failed(c)
    BY <1>t, <1>i, <1>10 DEF attach_irq_failed, Goto, Control, rsrc, NoChan
  <1>11. CASE fail2(c)
    BY <1>t, <1>i, <1>11 DEF fail2, Goto, Control, rsrc, NoChan
  <1>12. CASE release(c)
    BY <1>t, <1>i, <1>12 DEF release, Goto, Control, rsrc, NoChan
  <1>13. CASE release_detach(c)
    BY <1>t, <1>i, <1>13 DEF release_detach, Goto, Control, rsrc, NoChan
  <1>14. CASE unmap_sub(c)
    BY <1>t, <1>i, <1>14 DEF unmap_sub, Goto, Control, rsrc, NoChan
  <1>15. CASE unmap_test(c)
    BY <1>t, <1>i, <1>15 DEF unmap_test, Goto, Control, rsrc, NoChan
  <1>16. CASE unmap_done(c)
    BY <1>t, <1>i, <1>16 DEF unmap_done, Goto, Control, rsrc, NoChan
  <1> QED BY <1>2, <1>3, <1>4, <1>5, <1>6, <1>7, <1>8, <1>9, <1>10, <1>11, <1>12, <1>13,
             <1>14, <1>15, <1>16 DEF Step
-----------------------------------------------------------------------------
(* The invariant is inductive.                                             *)
LEMMA StepPool ==
  ASSUME PoolInv, [Next]_vars
  PROVE  PoolInv'
  <1>1. CASE UNCHANGED vars
    <2>1. Types'
      BY <1>1 DEF PoolInv, Types, vars, lib, rsrc
    <2>2. Reserved' /\ Separate' /\ IrqsAttached' /\ Control'
      BY <1>1 DEF PoolInv, Reserved, Separate, IrqsAttached, Control, Holds, Internal, vars, lib, rsrc
    <2> QED BY <2>1, <2>2 DEF PoolInv
  <1>2. ASSUME NEW c \in Clients, Step(c) PROVE PoolInv'
    <2>1. Types' /\ IrqsAttached' /\ Control'
      BY <1>2, StepType, StepControl
    <2>2. Reserved' /\ Separate'
      BY <1>2, StepAlone, StepKind, KindPool DEF PoolInv
    <2> QED BY <2>1, <2>2 DEF PoolInv
  <1> QED BY <1>1, <1>2 DEF Next

(* Every variable keeps its type in every behaviour: the loops over        *)
(* sysdmac[] and the descriptor runs stay inside their arrays.             *)
THEOREM PoolTypes == Spec => []TypeOK
  <1>1. Init => PoolInv /\ raced \in BOOLEAN
    BY InitPool DEF Init
  <1>2. ASSUME PoolInv, raced \in BOOLEAN, [Next]_vars PROVE PoolInv' /\ (raced \in BOOLEAN)'
    <2>1. CASE UNCHANGED vars
      BY <1>2, <2>1, StepPool DEF vars
    <2>2. CASE Next
      <3>1. PICK c \in Clients : raced' = (raced \/ Races(c))
        BY <2>2 DEF Next
      <3> QED BY <1>2, <3>1, StepPool
    <2> QED BY <1>2, <2>1, <2>2
  <1>3. PoolInv /\ raced \in BOOLEAN => TypeOK
    BY DEF PoolInv, TypeOK
  <1> QED BY <1>1, <1>2, <1>3, PTL DEF Spec

(* When every client is outside the library, after releases and failed     *)
(* attaches in any interleaving, no channel, descriptor or interrupt is    *)
(* left reserved.                                                          *)
THEOREM AttachRollsBack == Spec => []NothingReserved
  <1>1. ASSUME PoolInv PROVE NothingReserved
    <2> SUFFICES ASSUME \A c \in Clients : pc[c] = "idle"
                 PROVE  chans = {} /\ descs = {} /\ irqs = {}
      BY DEF NothingReserved, AllIdle
    <2>1. \A c \in Clients : ~Holds(c)
      BY DEF Holds, Inside
    <2> QED BY <1>1, <2>1 DEF PoolInv, Reserved, IrqsAttached
  <1> QED BY InitPool, StepPool, <1>1, PTL DEF Spec

(* Each kind of step is a step of the pool: descriptors and channels go    *)
(* only to a client while nobody holds them.                               *)
LEMMA KindSimulates ==
  ASSUME Reserved, NEW c \in Clients, Alone(c),
         Keeps(c) \/ TakesChannel(c) \/ TakesDescs(c) \/ GivesBack(c)
  PROVE  [Pool!Next]_([x \in Clients |-> Held(x)])
  <1> DEFINE H == [x \in Clients |-> Held(x)]
             K == [x \in Clients |-> Held(x)']
  <1>1. \A d \in Clients \ {c} : Held(d)' = Held(d)
    BY OthersHold
  <1>2. K = [H EXCEPT ![c] = K[c]]
    BY <1>1
  <1>3. CASE Keeps(c)
    <2>1. Held(c)' = Held(c)
      BY <1>3 DEF Keeps, Held
    <2>2. H' = H
      BY <1>1, <2>1
    <2> QED BY <2>2
  <1>4. ASSUME TakesChannel(c) \/ TakesDescs(c) PROVE Pool!Grant(c)
    <2>1. Held(c) \subseteq Held(c)'
      BY <1>4 DEF Held, TakesChannel, TakesDescs
    <2>2. ASSUME NEW r \in Held(c)' \ Held(c), NEW d \in Clients PROVE r \notin Held(d)
      <3>1. CASE TakesChannel(c)
        <4>1. r = <<"chan", chan'[c].chan_idx>>
          BY <2>2, <3>1 DEF TakesChannel, Held
        <4> QED BY <4>1, <3>1 DEF TakesChannel, Held, Reserved
      <3>2. CASE TakesDescs(c)
        <4>1. PICK x \in Internal(c)' : r = <<"desc", x>>
          BY <2>2, <3>2 DEF TakesDescs, Held
        <4> QED BY <4>1, <3>2 DEF TakesDescs, Held, Reserved
      <3> QED BY <1>4, <3>1, <3>2
    <2> QED BY <1>2, <2>1, <2>2 DEF Pool!Grant, Pool!Only, Pool!Free
  <1>5. ASSUME GivesBack(c) PROVE Pool!GiveBack(c)
    <2>1. Held(c)' = {}
      BY <1>5 DEF GivesBack, Held
    <2> QED BY <1>2, <2>1 DEF Pool!GiveBack
  <1> QED BY <1>3, <1>4, <1>5 DEF Pool!Next

(* The library implements the pool: with any number of threads inside it,  *)
(* a channel and a descriptor belong to one client at a time, and a client *)
(* loses them only by giving them back.                                    *)
THEOREM ImplementsPool == Spec => PoolSpec
  <1>1. Init => Pool!Init
    <2>1. ASSUME Init, NEW c \in Clients PROVE Held(c) = {}
      BY <2>1 DEF Init, Held, Holds, Inside
    <2> QED BY <2>1 DEF Pool!Init
  <1>2. ASSUME PoolInv, [Next]_vars PROVE [Pool!Next]_([c \in Clients |-> Held(c)])
    <2>1. CASE UNCHANGED vars
      <3>1. \A c \in Clients : Held(c)' = Held(c)
        BY <2>1 DEF vars, lib, Held, Holds, Internal
      <3> QED BY <3>1
    <2>2. ASSUME NEW c \in Clients, Step(c) PROVE [Pool!Next]_([x \in Clients |-> Held(x)])
      BY <1>2, <2>2, StepAlone, StepKind, KindSimulates DEF PoolInv
    <2> QED BY <1>2, <2>1, <2>2 DEF Next
  <1> QED BY <1>1, <1>2, InitPool, StepPool, PTL DEF Spec, PoolSpec, Pool!Spec
-----------------------------------------------------------------------------
(* While clients call the library one by one, the table counts them.       *)
Serial == \A c, d \in Clients : c # d => Outside(c) \/ Outside(d)

(* The clients an entry counts: from sysdmac_map_registers to the first    *)
(* entry that sysdmac_unmap_registers finds.                               *)
Counted(c) == pc[c] \in {"irq", "attached", "detach"} \/ (pc[c] = "unmap" /\ it[c] = 1)
Users(g)   == {c \in Clients : Counted(c) /\ Group(c) = g}

(* They have different channels, so the counter cannot overflow.           *)
Distinct ==
  \A c, d \in Clients :
    c # d /\ Counted(c) /\ Counted(d) => chan[c].chan_idx # chan[d].chan_idx

(* A group has one entry at most; an entry counts the users of its group   *)
(* and shows its mapping, and is cleared when the last user is gone.       *)
EntryOk(e) ==
  /\ table[e].paddr = 0 => table[e] = Empty
  /\ \A g \in Groups : table[e].paddr = g =>
       /\ table[e].vaddr \in 1 .. MaxMaps /\ maps[table[e].vaddr] = g
       /\ table[e].num = Cardinality(Users(g))
       /\ table[e].num = 0 => \E c \in Clients : pc[c] = "test" /\ it[c] = e
       /\ \A f \in Entries : e # f => table[f].paddr # g

(* A mapping belongs to an entry, or to the client about to enter it.      *)
MapOk(v) ==
  maps[v] # 0 => \/ \E e \in Entries : table[e].vaddr = v
                 \/ \E c \in Clients : pc[c] = "insert" /\ chan[c].vbase = v

(* What a client relies on in the table.                                   *)
ClientOk(c) ==
  /\ pc[c] \notin {"add", "test", "unmap"} => it[c] = 1
  /\ Counted(c) => \E e \in Entries : table[e].paddr = Group(c)
  /\ pc[c] \in {"irq", "attached"} =>
       \E e \in Entries : table[e].paddr = Group(c) /\ table[e].vaddr = chan[c].vbase
  /\ pc[c] \in {"add", "test"} => table[it[c]].paddr = Group(c)
  /\ pc[c] \in {"mmap", "insert"} => \A e \in Entries : table[e].paddr # Group(c)
  /\ pc[c] = "insert" => chan[c].vbase \in 1 .. MaxMaps /\ maps[chan[c].vbase] = Group(c)
  /\ pc[c] = "unmap" /\ it[c] # 1 => Ahead(c) = {}

Ledger ==
  /\ Serial /\ Distinct
  /\ \A e \in Entries : EntryOk(e)
  /\ \A v \in 1 .. MaxMaps : MapOk(v)
  /\ \A c \in Clients : ClientOk(c)

LedgerInv == PoolInv /\ (~raced => Ledger)

(* A step of one client while all the others are outside.                  *)
Solo(c) ==
  /\ PoolInv /\ PoolInv' /\ Ledger /\ Alone(c)
  /\ \A d \in Clients \ {c} : Outside(d)

(* Clients with different channels are no more than the channels.          *)
LEMMA ChannelsBound ==
  ASSUME NEW U, NEW f \in [U -> Channels], \A c, d \in U : f[c] = f[d] => c = d
  PROVE  IsFiniteSet(U) /\ Cardinality(U) \in 0 .. NumChannels
  <1>1. f \in Injection(U, Channels)
    BY DEF Injection, IsInjective
  <1>2. IsFiniteSet(Channels) /\ Cardinality(Channels) = NumChannels
    BY FS_Interval, SysDmacAssumption DEF Channels
  <1>3. IsFiniteSet(U) /\ Cardinality(U) <= NumChannels
    BY <1>1, <1>2, FS_Injection
  <1>4. Cardinality(U) \in Nat
    BY <1>3, FS_CardinalityType
  <1> QED BY <1>3, <1>4, SysDmacAssumption

(* So the users of a group are bounded, before a step and after it.        *)
LEMMA UsersBounded ==
  ASSUME Types, Distinct, NEW g
  PROVE  IsFiniteSet(Users(g)) /\ Cardinality(Users(g)) \in 0 .. NumChannels
  <1> DEFINE f == [c \in Users(g) |-> chan[c].chan_idx]
  <1>1. f \in [Users(g) -> Channels]
    BY DEF Types, Users
  <1>2. \A c, d \in Users(g) : f[c] = f[d] => c = d
    BY DEF Distinct, Users
  <1> HIDE DEF f
  <1> QED BY <1>1, <1>2, ChannelsBound

(* The users of a block after a step: finitely many, and no more than      *)
(* channels.                                                               *)
LEMMA UsersBoundedAfter ==
  ASSUME Types', Distinct', NEW g
  PROVE  IsFiniteSet(Users(g)') /\ Cardinality(Users(g)') \in 0 .. NumChannels
  <1> DEFINE f == [c \in Users(g)' |-> chan'[c].chan_idx]
  <1>1. f \in [Users(g)' -> Channels]
    BY DEF Types, Users
  <1>2. \A c, d \in Users(g)' : f[c] = f[d] => c = d
    BY DEF Distinct, Users
  <1> HIDE DEF f
  <1> QED BY <1>1, <1>2, ChannelsBound

(* The other clients are counted as before ...                             *)
LEMMA OthersCounted ==
  ASSUME NEW c \in Clients, Alone(c)
  PROVE  \A d \in Clients \ {c} : (Counted(d)' <=> Counted(d)) /\ Group(d)' = Group(d)
  BY DEF Alone, Counted, Group

(* ... and stay outside.                                                   *)
LEMMA StaysSerial ==
  ASSUME NEW c \in Clients, Solo(c)
  PROVE  Serial'
  BY DEF Solo, Alone, Serial, Outside

(* Counted clients that hold their channels have different ones.           *)
LEMMA StaysDistinct ==
  ASSUME NEW c \in Clients, Solo(c),
         \/ Counted(c)' => Holds(c)'
         \/ Counted(c)' => Counted(c) /\ chan'[c].chan_idx = chan[c].chan_idx
  PROVE  Distinct'
  <1>1. \A d \in Clients \ {c} : /\ Counted(d)' <=> Counted(d)
                                 /\ chan'[d].chan_idx = chan[d].chan_idx
                                 /\ Counted(d) => Holds(d)'
    BY OthersCounted DEF Solo, Alone, Counted, Outside, Holds, Inside
  <1>2. CASE Counted(c)' => Holds(c)'
    <2>1. Separate'
      BY DEF Solo, PoolInv
    <2> QED BY <1>1, <1>2, <2>1 DEF Distinct, Separate
  <1>3. CASE Counted(c)' => Counted(c) /\ chan'[c].chan_idx = chan[c].chan_idx
    BY <1>1, <1>3 DEF Solo, Ledger, Distinct
  <1> QED BY <1>2, <1>3

(* A step that leaves the table, the mappings and the count alone.         *)
LEMMA NeutralStep ==
  ASSUME NEW c \in Clients, Solo(c), UNCHANGED <<table, maps>>,
         Counted(c)' <=> Counted(c), Counted(c) => chan'[c].chan_idx = chan[c].chan_idx,
         pc[c] \notin {"insert", "test"}, ClientOk(c)'
  PROVE  Ledger'
  <1>1. Serial' /\ Distinct'
    BY StaysSerial, StaysDistinct
  <1>2. ASSUME NEW e \in Entries PROVE EntryOk(e)'
    <2>1. ASSUME NEW g PROVE Users(g)' = Users(g)
      <3>1. Counted(c) => Group(c)' = Group(c)
        BY DEF Group
      <3> QED BY <3>1, OthersCounted DEF Users, Solo
    <2>2. ~\E d \in Clients : pc[d] = "test" /\ it[d] = e
      BY DEF Solo, Outside
    <2> QED BY <2>1, <2>2 DEF Solo, Ledger, EntryOk
  <1>3. ASSUME NEW v \in 1 .. MaxMaps PROVE MapOk(v)'
    BY DEF Solo, Ledger, MapOk, Outside
  <1>4. ASSUME NEW d \in Clients \ {c} PROVE ClientOk(d)'
    <2>1. pc'[d] = pc[d] /\ it'[d] = it[d] /\ chan'[d] = chan[d]
      BY DEF Solo, Alone
    <2>2. ClientOk(d) /\ pc[d] \in {"idle", "attached"}
      BY DEF Solo, Ledger, Outside
    <2>3. Group(d)' = Group(d)
      BY <2>1 DEF Group
    <2> QED BY <2>1, <2>2, <2>3 DEF ClientOk, Counted
  <1> QED BY <1>1, <1>2, <1>3, <1>4 DEF Ledger

(* The other clients keep what they rely on when their entry keeps group   *)
(* and mapping.                                                            *)
LEMMA OthersOk ==
  ASSUME NEW c \in Clients, Solo(c), NEW d \in Clients \ {c},
         \A e \in Entries : table[e].paddr = Group(d) /\ Counted(d)
                              => table'[e].paddr = table[e].paddr /\ table'[e].vaddr = table[e].vaddr
  PROVE  ClientOk(d)'
  <1>1. pc'[d] = pc[d] /\ it'[d] = it[d] /\ chan'[d] = chan[d]
    BY DEF Solo, Alone
  <1>2. ClientOk(d) /\ pc[d] \in {"idle", "attached"}
    BY DEF Solo, Ledger, Outside
  <1>3. Group(d)' = Group(d)
    BY <1>1 DEF Group
  <1> QED BY <1>1, <1>2, <1>3 DEF ClientOk, Counted

(* The groups, and the types of what the steps on the table use.           *)
LEMMA SoloTypes ==
  ASSUME NEW c \in Clients, Solo(c)
  PROVE  /\ chan \in [Clients -> ChanRec] /\ pc \in [Clients -> Labels]
         /\ it \in [Clients -> 1 .. NumGroups + 1] /\ table \in [Entries -> EntryRec]
         /\ maps \in [1 .. MaxMaps -> 0 .. NumGroups]
         /\ chan[c] \in ChanRec /\ Types /\ Types' /\ Control /\ Distinct
         /\ Group(c) \in Groups /\ 0 \notin Groups
  <1>1. Types /\ Types' /\ Control /\ Distinct
    BY DEF Solo, PoolInv, Ledger
  <1>2. 0 \notin Groups
    BY SysDmacAssumption DEF Groups
  <1> QED BY <1>1, <1>2, TypeParts, GroupType

(* A user more.                                                            *)
LEMMA AddStep ==
  ASSUME NEW c \in Clients, Solo(c), map_add(c)
  PROVE  Ledger'
  <1>t. /\ chan \in [Clients -> ChanRec] /\ pc \in [Clients -> Labels]
        /\ it \in [Clients -> 1 .. NumGroups + 1] /\ table \in [Entries -> EntryRec]
        /\ chan[c] \in ChanRec /\ Types /\ Types' /\ Control /\ Distinct
        /\ 0 \notin Groups
    BY SoloTypes
  <1>e. PICK e \in Entries : e = it[c]
    BY <1>t DEF map_add, Control
  <1>g. PICK g \in Groups : g = Group(c)
    BY SoloTypes
  <1>1. /\ pc[c] = "add" /\ table[e].paddr = g /\ EntryOk(e) /\ ClientOk(c)
        /\ ~Counted(c) /\ table[e] \in EntryRec
    BY <1>t, <1>e, <1>g DEF map_add, Solo, Ledger, ClientOk, Counted
  <1>2. table[e].vaddr # 0 /\ table[e].num = Cardinality(Users(g))
    BY <1>1, <1>t DEF EntryOk
  <1>3. /\ table' = [table EXCEPT ![e].num = (@ + 1) % NumWidth]
        /\ chan' = [chan EXCEPT ![c].vbase = table[e].vaddr]
        /\ it' = [it EXCEPT ![c] = 1] /\ pc' = [pc EXCEPT ![c] = "irq"] /\ maps' = maps
    BY <1>2, <1>e DEF map_add, Goto
  <1>4. /\ pc'[c] = "irq" /\ it'[c] = 1 /\ Counted(c)' /\ Holds(c)'
        /\ chan'[c].vbase = table[e].vaddr /\ Group(c)' = g
    <2>1. chan'[c].chan_idx = chan[c].chan_idx /\ chan'[c].vbase = table[e].vaddr
      BY <1>3, <1>t DEF ChanRec
    <2>2. Group(c)' = g
      BY <1>g, <2>1 DEF Group
    <2> QED BY <1>3, <1>t, <2>1, <2>2 DEF Counted, Holds, Inside
  <1>5. Serial' /\ Distinct'
    BY <1>4, StaysSerial, StaysDistinct
  <1>6. /\ table'[e].paddr = g /\ table'[e].vaddr = table[e].vaddr
        /\ table'[e].num = (table[e].num + 1) % NumWidth
        /\ \A f \in Entries \ {e} : table'[f] = table[f]
    BY <1>1, <1>3, <1>t DEF EntryRec
  <1>7. Users(g)' = Users(g) \cup {c} /\ \A h \in Groups \ {g} : Users(h)' = Users(h)
    BY <1>1, <1>4, <1>g, OthersCounted DEF Users, Solo
  <1>8. table'[e].num = Cardinality(Users(g)') /\ table'[e].num # 0
    <2>1. c \notin Users(g) /\ IsFiniteSet(Users(g)) /\ Cardinality(Users(g)) \in 0 .. NumChannels
      BY <1>1, <1>t, UsersBounded DEF Users
    <2>2. Cardinality(Users(g)') = Cardinality(Users(g)) + 1
      BY <1>7, <2>1, FS_AddElement
    <2>3. Cardinality(Users(g)') \in 0 .. NumChannels
      BY <1>5, <1>t, UsersBoundedAfter
    <2>4. table[e].num + 1 \in 1 .. NumWidth - 1
      BY <1>2, <2>1, <2>2, <2>3, SysDmacAssumption
    <2>5. (table[e].num + 1) % NumWidth = table[e].num + 1
      BY <2>4, SysDmacAssumption
    <2> QED BY <1>2, <1>6, <2>2, <2>4, <2>5
  <1>9. ASSUME NEW f \in Entries PROVE EntryOk(f)'
    <2>0. EntryOk(f) /\ \A h \in Entries : table'[h].paddr = table[h].paddr
      BY <1>1, <1>6 DEF Solo, Ledger
    <2>1. CASE f = e
      BY <1>1, <1>3, <1>6, <1>8, <1>t, <2>0, <2>1 DEF EntryOk
    <2>2. CASE f # e
      <3>1. \A h \in Groups : table'[f].paddr = h => h # g /\ Users(h)' = Users(h)
        BY <1>1, <1>6, <1>7, <2>2 DEF EntryOk
      <3>2. ~\E d \in Clients : pc[d] = "test"
        BY <1>1 DEF Solo, Outside
      <3> QED BY <1>3, <1>6, <2>0, <2>2, <3>1, <3>2 DEF EntryOk
    <2> QED BY <2>1, <2>2
  <1>10. ASSUME NEW v \in 1 .. MaxMaps PROVE MapOk(v)'
    <2>1. MapOk(v) /\ \A d \in Clients : pc[d] # "insert"
      BY <1>1 DEF Solo, Ledger, Outside
    <2> QED BY <1>3, <1>6, <2>1 DEF MapOk
  <1>11. ClientOk(c)'
    BY <1>4, <1>6 DEF ClientOk
  <1>12. ASSUME NEW d \in Clients \ {c} PROVE ClientOk(d)'
    BY <1>1, <1>6, OthersOk
  <1> QED BY <1>5, <1>9, <1>10, <1>11, <1>12 DEF Ledger

(* A block is mapped.                                                      *)
LEMMA MmapStep ==
  ASSUME NEW c \in Clients, Solo(c), map_mmap(c)
  PROVE  Ledger'
  <1>t. /\ chan \in [Clients -> ChanRec] /\ pc \in [Clients -> Labels]
        /\ maps \in [1 .. MaxMaps -> 0 .. NumGroups] /\ chan[c] \in ChanRec
        /\ 0 \notin Groups
    BY SoloTypes
  <1>g. PICK g \in Groups : g = Group(c)
    BY SoloTypes
  <1>1. pc[c] = "mmap" /\ ~Counted(c) /\ it[c] = 1 /\ \A e \in Entries : table[e].paddr # g
    BY <1>g DEF map_mmap, Solo, Ledger, ClientOk, Counted
  <1>2. PICK v \in 1 .. MaxMaps : /\ maps[v] = 0 /\ maps' = [maps EXCEPT ![v] = g]
                                  /\ chan' = [chan EXCEPT ![c].vbase = v]
    BY <1>g, <1>t DEF map_mmap
  <1>3. pc' = [pc EXCEPT ![c] = "insert"] /\ table' = table /\ it' = it
    BY DEF map_mmap, Goto
  <1>4. /\ pc'[c] = "insert" /\ ~Counted(c)' /\ chan'[c].vbase = v /\ Group(c)' = g
    <2>1. chan'[c].chan_idx = chan[c].chan_idx /\ chan'[c].vbase = v
      BY <1>2, <1>t DEF ChanRec
    <2>2. Group(c)' = g
      BY <1>g, <2>1 DEF Group
    <2> QED BY <1>3, <1>t, <2>1, <2>2 DEF Counted
  <1>5. Serial' /\ Distinct'
    BY <1>4, StaysSerial, StaysDistinct
  <1>6. \A h \in Groups : Users(h)' = Users(h)
    BY <1>1, <1>4, OthersCounted DEF Users, Solo
  <1>7. ASSUME NEW e \in Entries PROVE EntryOk(e)'
    <2>1. EntryOk(e) /\ (\A h \in Groups : table[e].paddr = h => table[e].vaddr # v)
      BY <1>2, <1>t DEF Solo, Ledger, EntryOk
    <2>2. ~\E d \in Clients : pc[d] = "test"
      BY <1>1 DEF Solo, Outside
    <2> QED BY <1>2, <1>3, <1>6, <1>t, <2>1, <2>2 DEF EntryOk
  <1>8. ASSUME NEW w \in 1 .. MaxMaps PROVE MapOk(w)'
    <2>1. MapOk(w) /\ \A d \in Clients : pc[d] # "insert"
      BY <1>1 DEF Solo, Ledger, Outside
    <2>2. CASE w = v
      BY <1>4, <2>2 DEF MapOk
    <2>3. CASE w # v
      BY <1>2, <1>3, <1>t, <2>1, <2>3 DEF MapOk
    <2> QED BY <2>2, <2>3
  <1>9. ClientOk(c)'
    BY <1>1, <1>2, <1>3, <1>4, <1>t DEF ClientOk
  <1>10. ASSUME NEW d \in Clients \ {c} PROVE ClientOk(d)'
    BY <1>3, OthersOk
  <1> QED BY <1>5, <1>7, <1>8, <1>9, <1>10 DEF Ledger

(* The table has an entry for every group: a group without one finds an    *)
(* unused entry.                                                           *)
LEMMA EntryFree ==
  ASSUME table \in [Entries -> EntryRec], \A e \in Entries : EntryOk(e),
         NEW g \in Groups, \A e \in Entries : table[e].paddr # g
  PROVE  Unused # {}
  <1> SUFFICES ASSUME Unused = {} PROVE FALSE
    OBVIOUS
  <1> DEFINE f == [e \in Entries |-> table[e].paddr]
             T == Groups \ {g}
  <1>1. ASSUME NEW e \in Entries PROVE table[e].paddr \in T
    <2>1. table[e].num # 0 /\ table[e].paddr \in 0 .. NumGroups
      BY DEF Unused, EntryRec
    <2>2. table[e].paddr # 0
      BY <2>1 DEF EntryOk, Empty
    <2> QED BY <2>1, <2>2, SysDmacAssumption DEF Groups
  <1>2. f \in [Entries -> T]
    BY <1>1
  <1>3. IsFiniteSet(Entries) /\ Cardinality(Entries) = NumGroups
    BY FS_Interval, SysDmacAssumption DEF Entries
  <1>4. IsFiniteSet(Groups) /\ Cardinality(Groups) = NumGroups
    BY FS_Interval, SysDmacAssumption DEF Groups
  <1>5. IsFiniteSet(T) /\ Cardinality(T) = NumGroups - 1
    BY <1>4, FS_RemoveElement
  <1>6. Cardinality(T) < Cardinality(Entries)
    BY <1>3, <1>5, SysDmacAssumption
  <1> HIDE DEF f, T
  <1>7. \E d, e \in Entries : d # e /\ f[d] = f[e]
    BY <1>2, <1>3, <1>5, <1>6, FS_PigeonHole
  <1>8. PICK d \in Entries, e \in Entries : d # e /\ table[d].paddr = table[e].paddr
    BY <1>7 DEF f
  <1> QED BY <1>1, <1>8 DEF EntryOk, T

(* A block that was mapped is entered.                                     *)
LEMMA InsertStep ==
  ASSUME NEW c \in Clients, Solo(c), map_insert(c)
  PROVE  Ledger'
  <1>t. /\ chan \in [Clients -> ChanRec] /\ pc \in [Clients -> Labels]
        /\ table \in [Entries -> EntryRec] /\ chan[c] \in ChanRec /\ 0 \notin Groups
    BY SoloTypes
  <1>g. PICK g \in Groups : g = Group(c)
    BY SoloTypes
  <1>v. PICK v \in 1 .. MaxMaps : v = chan[c].vbase /\ maps[v] = g
    BY <1>g DEF map_insert, Solo, Ledger, ClientOk
  <1>1. pc[c] = "insert" /\ ~Counted(c) /\ it[c] = 1 /\ \A e \in Entries : table[e].paddr # g
    BY <1>g DEF map_insert, Solo, Ledger, ClientOk, Counted
  <1>2. Unused # {}
    BY <1>1, <1>t, EntryFree DEF Solo, Ledger
  <1>3. PICK e \in Entries :
          /\ Lowest(e, Unused)
          /\ table' = [table EXCEPT ![e] = [paddr |-> g, vaddr |-> v, num |-> 1]]
    BY <1>2, <1>g, <1>v DEF map_insert
  <1>4. table[e] = Empty
    <2>1. table[e].num = 0 /\ EntryOk(e) /\ table[e].paddr \in 0 .. NumGroups
      BY <1>3, <1>t DEF Lowest, Unused, Solo, Ledger, EntryRec
    <2>2. ~\E d \in Clients : pc[d] = "test"
      BY <1>1 DEF Solo, Outside
    <2>3. table[e].paddr \notin Groups
      BY <2>1, <2>2 DEF EntryOk
    <2>4. table[e].paddr = 0
      BY <2>1, <2>3, SysDmacAssumption DEF Groups
    <2> QED BY <2>1, <2>4 DEF EntryOk
  <1>5. pc' = [pc EXCEPT ![c] = "irq"] /\ chan' = chan /\ it' = it /\ maps' = maps
    BY DEF map_insert, Goto
  <1>6. pc'[c] = "irq" /\ Counted(c)' /\ Holds(c)' /\ Group(c)' = g
    BY <1>5, <1>g, <1>t DEF Counted, Holds, Inside, Group
  <1>7. Serial' /\ Distinct'
    BY <1>6, StaysSerial, StaysDistinct
  <1>8. Users(g)' = {c} /\ \A h \in Groups \ {g} : Users(h)' = Users(h)
    <2>1. ASSUME NEW d \in Clients \ {c} PROVE ~(Counted(d)' /\ Group(d)' = g)
      <3>1. ~(Counted(d) /\ Group(d) = g)
        BY <1>1 DEF Solo, Ledger, ClientOk
      <3> QED BY <3>1, OthersCounted DEF Solo
    <2>2. Users(g)' = {c}
      BY <1>6, <2>1 DEF Users
    <2>3. \A h \in Groups \ {g} : Users(h)' = Users(h)
      BY <1>1, <1>6, OthersCounted DEF Users, Solo
    <2> QED BY <2>2, <2>3
  <1>9. Cardinality({c}) = 1
    BY FS_Singleton
  <1>10. /\ table'[e].paddr = g /\ table'[e].vaddr = v /\ table'[e].num = 1
         /\ \A f \in Entries \ {e} : table'[f] = table[f]
    BY <1>3, <1>t
  <1>11. ASSUME NEW f \in Entries PROVE EntryOk(f)'
    <2>1. EntryOk(f) /\ ~\E d \in Clients : pc[d] = "test"
      BY <1>1 DEF Solo, Ledger, Outside
    <2>2. CASE f = e
      <3>1. \A h \in Entries : h # e => table'[h].paddr # g
        BY <1>1, <1>10
      <3>2. table'[e].num = Cardinality(Users(g)') /\ maps'[table'[e].vaddr] = g
        BY <1>5, <1>8, <1>9, <1>10, <1>v
      <3> QED BY <1>10, <1>t, <1>v, <2>2, <3>1, <3>2 DEF EntryOk
    <2>3. CASE f # e
      <3>1. \A h \in Groups : table[f].paddr = h => h # g /\ Users(h)' = Users(h)
        BY <1>1, <1>8
      <3> QED BY <1>5, <1>10, <2>1, <2>3, <3>1 DEF EntryOk
    <2> QED BY <2>2, <2>3
  <1>12. ASSUME NEW w \in 1 .. MaxMaps PROVE MapOk(w)'
    <2>1. MapOk(w) /\ \A d \in Clients \ {c} : pc[d] # "insert"
      BY DEF Solo, Ledger, Outside
    <2>2. table[e].vaddr = 0
      BY <1>4 DEF Empty
    <2>3. (\E f \in Entries : table[f].vaddr = w) => \E f \in Entries : table'[f].vaddr = w
      BY <1>10, <2>2
    <2>4. pc[c] = "insert" /\ chan[c].vbase = w => table'[e].vaddr = w
      BY <1>10, <1>v
    <2> QED BY <1>5, <2>1, <2>3, <2>4 DEF MapOk
  <1>13. ClientOk(c)'
    BY <1>1, <1>5, <1>6, <1>10, <1>v DEF ClientOk
  <1>14. ASSUME NEW d \in Clients \ {c} PROVE ClientOk(d)'
    <2>1. Empty.paddr = 0
      BY DEF Empty
    <2>2. Group(d) # 0
      BY GroupType, <1>t DEF Solo, PoolInv
    <2> QED BY <1>4, <1>10, <2>1, <2>2, OthersOk
  <1> QED BY <1>7, <1>11, <1>12, <1>13, <1>14 DEF Ledger

(* A user less.                                                            *)
LEMMA SubStep ==
  ASSUME NEW c \in Clients, Solo(c), unmap_sub(c)
  PROVE  Ledger'
  <1>t. /\ chan \in [Clients -> ChanRec] /\ pc \in [Clients -> Labels]
        /\ it \in [Clients -> 1 .. NumGroups + 1] /\ table \in [Entries -> EntryRec]
        /\ Types /\ Distinct /\ 0 \notin Groups
    BY SoloTypes
  <1>g. PICK g \in Groups : g = Group(c)
    BY SoloTypes
  <1>e. PICK e \in Entries : /\ Lowest(e, Ahead(c))
                             /\ table' = [table EXCEPT ![e].num = (@ - 1) % NumWidth]
                             /\ it' = [it EXCEPT ![c] = e]
    BY DEF unmap_sub
  <1>1. /\ pc[c] = "unmap" /\ Counted(c) /\ table[e].paddr = g /\ EntryOk(e)
        /\ table[e] \in EntryRec
    <2>1. e \in Ahead(c) /\ pc[c] = "unmap"
      BY <1>e DEF Lowest, unmap_sub
    <2>2. it[c] = 1
      BY <2>1 DEF Solo, Ledger, ClientOk
    <2> QED BY <1>g, <1>t, <2>1, <2>2 DEF Ahead, Entry, Counted, Solo, Ledger
  <1>2. pc' = [pc EXCEPT ![c] = "test"] /\ chan' = chan /\ maps' = maps
    BY DEF unmap_sub, Goto
  <1>3. pc'[c] = "test" /\ it'[c] = e /\ ~Counted(c)' /\ Group(c)' = g
    BY <1>2, <1>e, <1>g, <1>t DEF Counted, Group
  <1>4. Serial' /\ Distinct'
    BY <1>3, StaysSerial, StaysDistinct
  <1>5. /\ table'[e].paddr = g /\ table'[e].vaddr = table[e].vaddr
        /\ table'[e].num = (table[e].num - 1) % NumWidth
        /\ \A f \in Entries \ {e} : table'[f] = table[f]
    BY <1>1, <1>e, <1>t DEF EntryRec
  <1>6. Users(g)' = Users(g) \ {c} /\ \A h \in Groups \ {g} : Users(h)' = Users(h)
    BY <1>1, <1>3, <1>g, OthersCounted DEF Users, Solo
  <1>7. table'[e].num = Cardinality(Users(g)')
    <2>1. c \in Users(g) /\ IsFiniteSet(Users(g)) /\ Cardinality(Users(g)) \in 0 .. NumChannels
      BY <1>1, <1>g, <1>t, UsersBounded DEF Users
    <2>2. Cardinality(Users(g)') = Cardinality(Users(g)) - 1
      BY <1>6, <2>1, FS_RemoveElement
    <2>3. Cardinality(Users(g)') \in Nat
      BY <1>6, <2>1, FS_RemoveElement, FS_CardinalityType
    <2>4. table[e].num = Cardinality(Users(g))
      BY <1>1 DEF EntryOk
    <2>5. (table[e].num - 1) % NumWidth = table[e].num - 1
      <3>1. table[e].num - 1 \in 0 .. NumWidth - 1
        BY <2>1, <2>2, <2>3, <2>4, SysDmacAssumption
      <3> QED BY <3>1, SysDmacAssumption
    <2> QED BY <1>5, <2>2, <2>4, <2>5
  <1>8. ASSUME NEW f \in Entries PROVE EntryOk(f)'
    <2>0. EntryOk(f) /\ \A h \in Entries : table'[h].paddr = table[h].paddr
      BY <1>1, <1>5 DEF Solo, Ledger
    <2>1. CASE f = e
      BY <1>1, <1>2, <1>3, <1>5, <1>7, <1>t, <2>0, <2>1 DEF EntryOk
    <2>2. CASE f # e
      <3>1. \A h \in Groups : table'[f].paddr = h => h # g /\ Users(h)' = Users(h)
        BY <1>1, <1>5, <1>6, <2>2 DEF EntryOk
      <3>2. ~\E d \in Clients : pc[d] = "test"
        BY <1>1 DEF Solo, Outside
      <3> QED BY <1>2, <1>5, <2>0, <2>2, <3>1, <3>2 DEF EntryOk
    <2> QED BY <2>1, <2>2
  <1>9. ASSUME NEW v \in 1 .. MaxMaps PROVE MapOk(v)'
    <2>1. MapOk(v) /\ \A d \in Clients : pc[d] # "insert"
      BY <1>1 DEF Solo, Ledger, Outside
    <2> QED BY <1>2, <1>5, <2>1 DEF MapOk
  <1>10. ClientOk(c)'
    BY <1>3, <1>5 DEF ClientOk
  <1>11. ASSUME NEW d \in Clients \ {c} PROVE ClientOk(d)'
    BY <1>1, <1>5, OthersOk
  <1> QED BY <1>4, <1>8, <1>9, <1>10, <1>11 DEF Ledger

(* The block is unmapped after its last user.                              *)
LEMMA TestStep ==
  ASSUME NEW c \in Clients, Solo(c), unmap_test(c)
  PROVE  Ledger'
  <1>t. /\ chan \in [Clients -> ChanRec] /\ pc \in [Clients -> Labels]
        /\ it \in [Clients -> 1 .. NumGroups + 1] /\ table \in [Entries -> EntryRec]
        /\ maps \in [1 .. MaxMaps -> 0 .. NumGroups] /\ chan[c] \in ChanRec
        /\ Types /\ Control /\ Distinct /\ 0 \notin Groups
    BY SoloTypes
  <1>e. PICK e \in Entries : e = it[c]
    BY <1>t DEF unmap_test, Control
  <1>g. PICK g \in Groups : g = Group(c)
    BY SoloTypes
  <1>1. pc[c] = "test" /\ ~Counted(c) /\ table[e].paddr = g /\ EntryOk(e)
    BY <1>e, <1>g DEF unmap_test, Solo, Ledger, ClientOk, Counted
  <1>v. PICK v \in 1 .. MaxMaps : v = table[e].vaddr /\ maps[v] = g
    BY <1>1 DEF EntryOk
  <1>2. /\ pc' = [pc EXCEPT ![c] = "unmap"] /\ it' = [it EXCEPT ![c] = e + 1]
        /\ chan' = [chan EXCEPT ![c].vbase = 0]
    BY <1>e DEF unmap_test, Goto
  <1>3. pc'[c] = "unmap" /\ it'[c] = e + 1 /\ e + 1 # 1 /\ ~Counted(c)' /\ Group(c)' = g
    <2>1. chan'[c].chan_idx = chan[c].chan_idx
      BY <1>2, <1>t DEF ChanRec
    <2>2. Group(c)' = g
      BY <1>g, <2>1 DEF Group
    <2>3. e + 1 # 1
      BY SysDmacAssumption DEF Entries
    <2> QED BY <1>2, <1>t, <2>2, <2>3 DEF Counted
  <1>4. Serial' /\ Distinct'
    BY <1>3, StaysSerial, StaysDistinct
  <1>5. \A h \in Groups : Users(h)' = Users(h)
    BY <1>1, <1>3, OthersCounted DEF Users, Solo
  <1>6. ASSUME NEW f \in Entries \ {e}
        PROVE  /\ EntryOk(f) /\ table[f].paddr # g
               /\ \A h \in Groups : table[f].paddr = h => table[f].num # 0 /\ table[f].vaddr # v
    <2>1. EntryOk(f) /\ table[f].paddr # g
      BY <1>1 DEF Solo, Ledger, EntryOk
    <2>2. ~\E d \in Clients : pc[d] = "test" /\ it[d] = f
      BY <1>e, <1>6 DEF Solo, Outside
    <2> QED BY <1>v, <2>1, <2>2 DEF EntryOk
  <1>7. CASE table[e].num # 0
    <2>1. table' = table /\ maps' = maps
      BY <1>7, <1>e DEF unmap_test
    <2>2. ASSUME NEW f \in Entries PROVE EntryOk(f)'
      <3>1. CASE f = e
        BY <1>1, <1>5, <1>7, <2>1, <3>1 DEF EntryOk
      <3>2. CASE f # e
        BY <1>5, <1>6, <2>1, <3>2 DEF EntryOk
      <3> QED BY <3>1, <3>2
    <2>3. ASSUME NEW w \in 1 .. MaxMaps PROVE MapOk(w)'
      BY <1>1, <2>1 DEF Solo, Ledger, Outside, MapOk
    <2>4. Ahead(c)' = {}
      <3>1. \A f \in Entries : table'[f].paddr = g => f = e
        BY <1>6, <2>1
      <3>2. e \in Int
        BY DEF Entries
      <3>3. \A f \in Ahead(c)' : f \in Entries /\ table'[f].paddr = g /\ f >= e + 1
        BY <1>3 DEF Ahead, Entry
      <3>4. ~(e >= e + 1)
        BY <3>2
      <3> QED BY <3>1, <3>3, <3>4
    <2>5. ClientOk(c)'
      BY <1>3, <2>4 DEF ClientOk
    <2>6. ASSUME NEW d \in Clients \ {c} PROVE ClientOk(d)'
      BY <2>1, OthersOk
    <2> QED BY <1>4, <2>2, <2>3, <2>5, <2>6 DEF Ledger
  <1>8. CASE table[e].num = 0
    <2>1. /\ table' = [table EXCEPT ![e] = Empty]
          /\ maps' = [w \in 1 .. MaxMaps |-> IF w = v THEN 0 ELSE maps[w]]
      BY <1>8, <1>e, <1>t, <1>v DEF unmap_test
    <2>2. table'[e] = Empty /\ \A f \in Entries \ {e} : table'[f] = table[f]
      BY <2>1, <1>t
    <2>3. Empty.paddr = 0 /\ Empty.vaddr = 0
      BY DEF Empty
    <2>4. Users(g) = {}
      <3>1. IsFiniteSet(Users(g)) /\ Cardinality(Users(g)) = 0
        BY <1>1, <1>8, <1>t, UsersBounded DEF EntryOk
      <3> QED BY <3>1, FS_EmptySet
    <2>5. ASSUME NEW f \in Entries PROVE EntryOk(f)'
      <3>1. CASE f = e
        BY <1>t, <2>2, <2>3, <3>1 DEF EntryOk
      <3>2. CASE f # e
        <4>1. \A h \in Groups : table[f].paddr = h =>
                 table[f].vaddr \in 1 .. MaxMaps /\ maps'[table[f].vaddr] = h
          BY <1>6, <2>1, <3>2 DEF EntryOk
        <4>2. EntryOk(f) /\ \A h \in Groups : table[f].paddr = h => table[f].num # 0
          BY <1>6, <3>2
        <4>3. \A h \in Groups, i \in Entries : table[f].paddr = h /\ i # f => table'[i].paddr # h
          BY <1>t, <2>2, <2>3, <4>2 DEF EntryOk
        <4>4. table'[f] = table[f]
          BY <2>2, <3>2
        <4> QED BY <1>5, <4>1, <4>2, <4>3, <4>4 DEF EntryOk
      <3> QED BY <3>1, <3>2
    <2>6. ASSUME NEW w \in 1 .. MaxMaps PROVE MapOk(w)'
      <3>1. MapOk(w) /\ \A d \in Clients : pc[d] # "insert"
        BY <1>1 DEF Solo, Ledger, Outside
      <3> QED BY <1>v, <2>1, <2>2, <3>1 DEF MapOk
    <2>7. Ahead(c)' = {}
      <3>1. \A f \in Entries : table'[f].paddr # g
        BY <1>6, <1>t, <2>2, <2>3
      <3> QED BY <1>3, <3>1 DEF Ahead, Entry
    <2>8. ClientOk(c)'
      BY <1>3, <2>7 DEF ClientOk
    <2>9. ASSUME NEW d \in Clients \ {c} PROVE ClientOk(d)'
      <3>1. Counted(d) => Group(d) # g
        BY <2>4 DEF Users
      <3> QED BY <1>1, <2>2, <3>1, OthersOk
    <2> QED BY <1>4, <2>5, <2>6, <2>8, <2>9 DEF Ledger
  <1> QED BY <1>7, <1>8

(* The other steps do not touch the table.                                 *)
LEMMA OtherSteps ==
  ASSUME NEW c \in Clients, Solo(c),
         \/ \E r \in Requests : attach_channel(c, r)
         \/ attach_desc(c) \/ map_find(c) \/ map_failed(c) \/ attach_irq(c)
         \/ attach_irq_failed(c) \/ fail2(c) \/ release(c) \/ release_detach(c) \/ unmap_done(c)
  PROVE  Ledger'
  <1>t. /\ chan \in [Clients -> ChanRec] /\ pc \in [Clients -> Labels]
        /\ it \in [Clients -> 1 .. NumGroups + 1] /\ chan[c] \in ChanRec
        /\ back \in [Clients -> {"idle", "fail2"}]
    BY SoloTypes DEF Types
  <1>o. ClientOk(c)
    BY DEF Solo, Ledger
  <1>f. UNCHANGED <<table, maps>> /\ pc[c] \notin {"insert", "test"}
    BY DEF attach_channel, attach_desc, map_find, map_failed, attach_irq, attach_irq_failed, fail2,
       release, release_detach, unmap_done
  <1> DEFINE Fits == /\ Counted(c)' <=> Counted(c)
                     /\ Counted(c) => chan'[c].chan_idx = chan[c].chan_idx
                     /\ ClientOk(c)'
  <1>s. SUFFICES Fits
    BY <1>f, NeutralStep
  <1>1. ASSUME NEW r \in Requests, attach_channel(c, r) PROVE Fits
    BY <1>1, <1>o, <1>t DEF attach_channel, Goto, Counted, ClientOk
  <1>2. CASE attach_desc(c)
    BY <1>2, <1>o, <1>t DEF attach_desc, Goto, Counted, ClientOk
  <1>3. CASE map_find(c)
    <2>1. CASE Entry(c) = {} /\ Goto(c, "mmap") /\ UNCHANGED it
      BY <1>3, <1>o, <1>t, <2>1 DEF map_find, Goto, Counted, ClientOk, Entry, Group
    <2>2. ASSUME NEW e \in Entries, Lowest(e, Entry(c)), Goto(c, "add"), it' = [it EXCEPT ![c] = e]
          PROVE  Fits
      BY <1>3, <1>o, <1>t, <2>2 DEF map_find, Goto, Counted, ClientOk, Entry, Group, Lowest
    <2> QED BY <1>3, <2>1, <2>2 DEF map_find
  <1>4. CASE map_failed(c)
    BY <1>4, <1>o, <1>t DEF map_failed, Goto, Counted, ClientOk
  <1>5. CASE attach_irq(c)
    BY <1>5, <1>o, <1>t DEF attach_irq, Goto, Counted, ClientOk, Group
  <1>6. CASE attach_irq_failed(c)
    BY <1>6, <1>o, <1>t DEF attach_irq_failed, Goto, Counted, ClientOk, Group
  <1>7. CASE fail2(c)
    BY <1>7, <1>o, <1>t DEF fail2, Goto, Counted, ClientOk
  <1>8. CASE release(c)
    BY <1>8, <1>o, <1>t DEF release, Goto, Counted, ClientOk, Group
  <1>9. CASE release_detach(c)
    BY <1>9, <1>o, <1>t DEF release_detach, Goto, Counted, ClientOk, Group
  <1>10. CASE unmap_done(c)
    <2>1. ~Counted(c)
      <3>1. \A e \in Entries : e >= 1
        BY SysDmacAssumption DEF Entries
      <3> QED BY <1>10, <1>o, <3>1 DEF unmap_done, Counted, ClientOk, Ahead, Entry
    <2>2. pc'[c] \in {"idle", "fail2"} /\ it'[c] = 1
      BY <1>10, <1>t DEF unmap_done, Goto
    <2> QED BY <2>1, <2>2 DEF Counted, ClientOk
  <1> QED BY <1>1, <1>2, <1>3, <1>4, <1>5, <1>6, <1>7, <1>8, <1>9, <1>10
-----------------------------------------------------------------------------
(* Nothing is mapped and nobody is inside.                                 *)
LEMMA InitLedger == Init => LedgerInv
  <1> SUFFICES ASSUME Init PROVE LedgerInv
    OBVIOUS
  <1>1. PoolInv
    BY InitPool
  <1>2. \A c \in Clients : pc[c] = "idle" /\ it[c] = 1
    BY DEF Init
  <1>3. Serial /\ Distinct /\ \A c \in Clients : ClientOk(c)
    BY <1>2 DEF Serial, Outside, Distinct, Counted, ClientOk
  <1>4. ASSUME NEW e \in Entries PROVE EntryOk(e)
    <2>1. table[e] = Empty /\ Empty.paddr = 0
      BY DEF Init, Empty
    <2>2. 0 \notin Groups
      BY SysDmacAssumption DEF Groups
    <2> QED BY <2>1, <2>2 DEF EntryOk
  <1>5. \A v \in 1 .. MaxMaps : MapOk(v)
    BY DEF Init, MapOk
  <1> QED BY <1>1, <1>3, <1>4, <1>5 DEF LedgerInv, Ledger

(* Every step keeps the ledger of sysdmac[].                               *)
LEMMA StepLedger ==
  ASSUME LedgerInv, [Next]_vars
  PROVE  LedgerInv'
  <1>1. PoolInv /\ PoolInv'
    BY StepPool DEF LedgerInv
  <1>2. CASE UNCHANGED vars
    <2> USE <1>2 DEF vars, lib
    <2>1. \A c \in Clients : Group(c)' = Group(c) /\ (Counted(c)' <=> Counted(c))
      BY DEF Group, Counted
    <2>2. \A g : Users(g)' = Users(g)
      BY <2>1 DEF Users
    <2>3. \A e \in Entries : EntryOk(e) => EntryOk(e)'
      BY <2>2 DEF EntryOk
    <2>4. \A c \in Clients : ClientOk(c) => ClientOk(c)'
      BY <2>1 DEF ClientOk, Ahead, Entry
    <2>5. Serial /\ Distinct => Serial' /\ Distinct'
      BY <2>1 DEF Serial, Outside, Distinct
    <2>6. \A v \in 1 .. MaxMaps : MapOk(v) => MapOk(v)'
      BY DEF MapOk
    <2> QED BY <1>1, <2>3, <2>4, <2>5, <2>6 DEF LedgerInv, Ledger
  <1>3. ASSUME NEW c \in Clients, Step(c), raced' = (raced \/ Races(c)) PROVE LedgerInv'
    <2> SUFFICES ASSUME ~raced' PROVE Ledger'
      BY <1>1 DEF LedgerInv
    <2>1. Ledger /\ \A d \in Clients \ {c} : Outside(d)
      BY <1>3 DEF LedgerInv, Races
    <2>2. Alone(c)
      BY <1>1, <1>3, StepAlone DEF PoolInv
    <2>3. Solo(c)
      BY <1>1, <2>1, <2>2 DEF Solo
    <2> QED BY <1>3, <2>3, AddStep, MmapStep, InsertStep, SubStep, TestStep, OtherSteps DEF Step
  <1> QED BY <1>2, <1>3 DEF Next

(* While clients have called the library one by one, the block of its own  *)
(* channel group is mapped for every client that holds a channel, for any  *)
(* number of clients, channels and groups: sysdmac_unmap_registers unmaps  *)
(* a block only when no user is left, and the counter does not overflow    *)
(* because users have different channels.                                  *)
THEOREM RegistersStayMapped == Spec => []RegistersMapped
  <1>1. ASSUME LedgerInv PROVE RegistersMapped
    <2> SUFFICES ASSUME ~raced, NEW c \in Clients, pc[c] \in {"irq", "attached"}
                 PROVE  maps[chan[c].vbase] = Group(c)
      BY DEF RegistersMapped
    <2>1. PICK e \in Entries : table[e].paddr = Group(c) /\ table[e].vaddr = chan[c].vbase
      BY <1>1 DEF LedgerInv, Ledger, ClientOk
    <2>2. Group(c) \in Groups /\ EntryOk(e)
      BY <1>1, GroupType DEF LedgerInv, PoolInv, Ledger
    <2> QED BY <2>1, <2>2 DEF EntryOk
  <1> QED BY <1>1, InitLedger, StepLedger, PTL DEF Spec

(* When all clients are outside again after calling the library one by     *)
(* one, no block is mapped and no entry of sysdmac[] is in use.            *)
THEOREM MappingsAreReturned == Spec => []NothingLeft
  <1>1. ASSUME LedgerInv PROVE NothingLeft
    <2> SUFFICES ASSUME AllIdle, ~raced
                 PROVE  /\ \A v \in DOMAIN maps : maps[v] = 0
                        /\ \A e \in Entries : table[e] = Empty
      BY DEF NothingLeft
    <2>1. Ledger /\ \A c \in Clients : pc[c] = "idle" /\ ~Counted(c)
      BY <1>1 DEF LedgerInv, AllIdle, Counted
    <2>2. \A g : Users(g) = {}
      BY <2>1 DEF Users
    <2>3. ASSUME NEW e \in Entries PROVE table[e] = Empty
      <3>1. table[e].paddr \notin Groups
        BY <2>1, <2>2, FS_EmptySet DEF Ledger, EntryOk
      <3>2. table[e].paddr \in 0 .. NumGroups
        BY <1>1, TypeParts DEF LedgerInv, PoolInv, EntryRec
      <3>3. table[e].paddr = 0
        BY <3>1, <3>2, SysDmacAssumption DEF Groups
      <3> QED BY <2>1, <3>3 DEF Ledger, EntryOk
    <2>4. ASSUME NEW v \in DOMAIN maps PROVE maps[v] = 0
      <3>1. v \in 1 .. MaxMaps /\ v # 0
        BY <1>1, SysDmacAssumption DEF LedgerInv, PoolInv, Types
      <3>2. \A e \in Entries : table[e].vaddr # v
        BY <2>3, <3>1 DEF Empty
      <3> QED BY <2>1, <3>1, <3>2 DEF Ledger, MapOk
    <2> QED BY <2>3, <2>4
  <1> QED BY <1>1, InitLedger, StepLedger, PTL DEF Spec
=============================================================================
