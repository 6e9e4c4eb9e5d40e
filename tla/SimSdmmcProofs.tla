--------------------------- MODULE SimSdmmcProofs ---------------------------
(***************************************************************************)
(* The driver thread of the SD/MMC driver, for every set of clients and    *)
(* every choice of the requests they make: which partition a request       *)
(* reaches, what a reset loses, and what a sync promises.                  *)
(***************************************************************************)
EXTENDS SimSdmmc, TLAPS, FiniteSetTheorems

(* A request is in one place: in the queue, once, or in progress; what it  *)
(* asks for stays as it is until it is posted.                             *)
QueueInv ==
  /\ \A i \in 1 .. Len(simq) : ccb[simq[i]] = "queued"
  /\ \A i, j \in 1 .. Len(simq) : simq[i] = simq[j] => i = j
  /\ nexus # none => ccb[nexus] = "nexus"
  /\ \A c \in Ccb : ccb[c] # "idle" => req[c] \in Request

(* The pulses in the channel and those about to be sent fit in it.         *)
Calling  == {d \in Ccb : caller[d] = "pulse"}
PulseInv == pulses + Cardinality(Calling) <= MaxPulses

(* The thread is in the handler of the request in progress.                *)
HandlerInv ==
  /\ pc \in {"switch", "io", "reset"} => R.op \in {"read", "write", "erase", "protect"}
  /\ pc = "io" => pactive = R.part
  /\ pc = "flush" => R.op = "sync"
  /\ pc = "mode" => R.op = "mode"
  /\ pc = "register" => R.op \in {"register_part", "register_cache"}

(* The driver's record is what the device does, but for a reset that is    *)
(* due and for what happened behind it; only a cache that is on holds data.*)
RecordInv ==
  /\ "part" \notin behind /\ pc # "reset" => dev.part = pactive
  /\ "cache" \notin behind => dev.cache = cache
  /\ wce = cache
  /\ dev.dirty => dev.cache

SimInv == TypeOK /\ QueueInv /\ PulseInv /\ HandlerInv /\ RecordInv
            /\ LossProtects /\ SyncDurable
-----------------------------------------------------------------------------
(* What the fields of a request are.                                       *)
LEMMA RequestFields ==
  ASSUME NEW r \in Request
  PROVE  /\ r.op \in {"read", "write", "erase", "protect", "sync", "mode",
                      "register_part", "register_cache"}
         /\ r.op \in {"read", "write", "erase", "protect", "register_part"} => r.part \in Part
         /\ r.op \in {"mode", "register_cache"} => r.wce \in BOOLEAN
BY DEF Request

(* The outcomes of a SWITCH are devices, and one that succeeds has its     *)
(* effect.                                                                 *)
LEMMA SwitchOutcome ==
  ASSUME NEW d \in Device, NEW e \in Device, NEW o \in Switch(d, e)
  PROVE  /\ o[1] \in {"ok", "error"} /\ o[2] \in {d, e}
         /\ o[1] = "ok" => o[2] = e
BY DEF Switch

(* The devices a handler makes of a device.                                *)
LEMMA PartUpdate ==
  ASSUME NEW d \in Device, NEW p \in Part
  PROVE  /\ [d EXCEPT !.part = p] \in Device
         /\ [d EXCEPT !.part = p].part = p /\ [d EXCEPT !.part = p].cache = d.cache
         /\ [d EXCEPT !.part = p].dirty = d.dirty /\ [d EXCEPT !.part = p].lost = d.lost
BY DEF Device

(* Data that comes into the cache, or leaves it, changes nothing else of   *)
(* the device.                                                             *)
LEMMA DirtyUpdate ==
  ASSUME NEW d \in Device, NEW on \in BOOLEAN
  PROVE  /\ [d EXCEPT !.dirty = on] \in Device
         /\ [d EXCEPT !.dirty = on].part = d.part /\ [d EXCEPT !.dirty = on].cache = d.cache
         /\ [d EXCEPT !.dirty = on].dirty = on /\ [d EXCEPT !.dirty = on].lost = d.lost
BY DEF Device

(* Switching the cache: off flushes it, and the partition stays.           *)
LEMMA CacheUpdate ==
  ASSUME NEW d \in Device, NEW on \in BOOLEAN
  PROVE  /\ CacheSet(d, on) \in Device
         /\ CacheSet(d, on).part = d.part /\ CacheSet(d, on).cache = on
         /\ CacheSet(d, on).dirty = (on /\ d.dirty) /\ CacheSet(d, on).lost = d.lost
BY DEF Device, CacheSet

(* The invariant holds with an empty queue and an idle device.             *)
LEMMA InitInv == Init => SimInv
<1> SUFFICES ASSUME Init PROVE SimInv
  OBVIOUS
<1>1. TypeOK
  <2>1. dev \in Device /\ pactive \in Part /\ simq \in Seq(Ccb) /\ pulses \in 0 .. MaxPulses
    BY SimAssumption DEF Init, Device, Part
  <2>2. armed = (pm = "active") /\ {tpulse, recent, cache, wce, wp, dropped} \subseteq BOOLEAN
    BY Zenon DEF Init
  <2> QED BY <2>1, <2>2 DEF Init, TypeOK
<1>2. PulseInv
  <2>1. Calling = {}
    BY DEF Init, Calling
  <2> QED BY <2>1, FS_EmptySet, SimAssumption DEF Init, PulseInv
<1>3. QueueInv
  <2>1. Len(simq) = 0
    BY DEF Init
  <2> QED BY <2>1 DEF Init, QueueInv
<1>4. HandlerInv /\ SyncDurable
  BY DEF Init, HandlerInv, SyncDurable
<1>5. RecordInv /\ LossProtects
  BY DEF Init, RecordInv, LossProtects
<1> QED BY <1>1, <1>2, <1>3, <1>4, <1>5 DEF SimInv
-----------------------------------------------------------------------------
(* The clients, the queue and the pulses.                                  *)
LEMMA CallingFinite ==
  ASSUME TypeOK
  PROVE  IsFiniteSet(Calling) /\ Cardinality(Calling) \in Nat
<1>1. Calling \subseteq Ccb
  BY DEF Calling
<1> QED BY <1>1, FS_Subset, FS_CardinalityType, SimAssumption

(* A step that leaves caller and pulses alone keeps PulseInv.              *)
LEMMA PulseKept ==
  ASSUME PulseInv, UNCHANGED <<caller, pulses>>
  PROVE  PulseInv'
BY DEF PulseInv, Calling

(* A client queues a request.                                              *)
LEMMA ActionStep ==
  ASSUME SimInv, NEW c \in Ccb, sdmmc_sim_action(c)
  PROVE  SimInv'
<1> USE SimAssumption DEF SimInv, sdmmc_sim_action, thread, timer, record
<1>r. PICK r \in Request : req' = [req EXCEPT ![c] = r]
  OBVIOUS
<1>n. nexus # c
  BY DEF QueueInv
<1>1. TypeOK'
  BY <1>r DEF TypeOK
<1>2. QueueInv'
  <2>1. simq \in Seq(Ccb) /\ simq' = Append(simq, c) /\ Len(simq') = Len(simq) + 1
        /\ Len(simq) \in Nat
    BY DEF TypeOK
  <2>2. \A i \in 1 .. Len(simq) : simq'[i] = simq[i] /\ simq[i] \in Ccb /\ simq[i] # c
    BY <2>1 DEF QueueInv
  <2>3. simq'[Len(simq')] = c
    BY <2>1
  <2>4. \A i \in 1 .. Len(simq') : ccb'[simq'[i]] = "queued"
    BY <2>1, <2>2, <2>3 DEF QueueInv, TypeOK
  <2>5. \A i, j \in 1 .. Len(simq') : simq'[i] = simq'[j] => i = j
    BY <2>1, <2>2, <2>3 DEF QueueInv
  <2>6. nexus' # none => ccb'[nexus'] = "nexus"
    BY <1>n DEF QueueInv, TypeOK
  <2>7. \A d \in Ccb : ccb'[d] # "idle" => req'[d] \in Request
    BY <1>r DEF QueueInv, TypeOK
  <2> QED BY <2>4, <2>5, <2>6, <2>7 DEF QueueInv
<1>3. PulseInv'
  <2>1. Calling' = Calling \cup {c} /\ c \notin Calling
    BY DEF Calling, TypeOK
  <2>2. Cardinality(Calling') = Cardinality(Calling) + 1
    BY <2>1, CallingFinite, FS_AddElement
  <2> QED BY <2>2, CallingFinite DEF PulseInv, TypeOK, Calling
<1>4. R' = R \/ nexus = none
  BY <1>r, <1>n DEF R, TypeOK
<1>5. nexus = none => pc \in {"wait", "start"}
  BY DEF TypeOK
<1>6. HandlerInv' /\ RecordInv' /\ LossProtects' /\ SyncDurable'
  BY <1>4, <1>5 DEF HandlerInv, RecordInv, LossProtects, SyncDurable
<1> QED BY <1>1, <1>2, <1>3, <1>6

(* A client sends the pulse for its request.                               *)
LEMMA PulseStep ==
  ASSUME SimInv, NEW c \in Ccb, sim_pulse(c)
  PROVE  SimInv'
<1> USE SimAssumption DEF SimInv, sim_pulse, thread, timer, record
<1>1. Calling' = Calling \ {c} /\ c \in Calling
  BY DEF Calling, TypeOK
<1>2. Cardinality(Calling') = Cardinality(Calling) - 1
  BY <1>1, CallingFinite, FS_RemoveElement
<1>3. pulses' + Cardinality(Calling') <= MaxPulses /\ Cardinality(Calling') \in Nat
  <2>1. Calling' \subseteq Calling
    BY <1>1
  <2>2. Cardinality(Calling') \in Nat
    BY <2>1, CallingFinite, FS_Subset, FS_CardinalityType
  <2> QED BY <1>2, <2>2, CallingFinite DEF PulseInv, TypeOK
<1>4. TypeOK'
  <2>1. pulses' \in 0 .. MaxPulses
    BY <1>3 DEF TypeOK
  <2>2. dropped' \in BOOLEAN
    BY Zenon DEF TypeOK
  <2> QED BY <2>1, <2>2 DEF TypeOK
<1>5. PulseInv'
  BY <1>3 DEF PulseInv
<1>6. QueueInv' /\ HandlerInv' /\ RecordInv' /\ LossProtects' /\ SyncDurable'
  BY DEF QueueInv, HandlerInv, RecordInv, LossProtects, SyncDurable, R
<1> QED BY <1>4, <1>5, <1>6

(* The steps of the thread between two requests that only change where it  *)
(* is, and the expiry of the timer.                                        *)
LEMMA IdleStep ==
  ASSUME SimInv, receive_enqueue \/ sdmmc_timer \/ start_ccb_empty \/ timer_expires
  PROVE  SimInv'
<1> USE DEF SimInv
<1>f. UNCHANGED <<ccb, caller, req, simq, nexus, status, record, dev, behind>>
  BY DEF receive_enqueue, sdmmc_timer, start_ccb_empty, timer_expires, client, thread, timer, record
<1>p. /\ pc' = pc \/ (pc \in {"wait", "start"} /\ pc' \in {"wait", "start"})
      /\ pulses' = pulses \/ (pulses > 0 /\ pulses' = pulses - 1)
  BY DEF receive_enqueue, sdmmc_timer, start_ccb_empty, timer_expires, client, thread
<1>1. TypeOK'
  <2>1. /\ pm' \in {"active", "idle"} /\ armed' = (pm' = "active")
        /\ {tpulse', recent', dropped'} \subseteq BOOLEAN
    <3>1. CASE receive_enqueue
      BY <3>1 DEF receive_enqueue, TypeOK, timer
    <3>2. CASE sdmmc_timer
      <4>1. tpulse' \in BOOLEAN /\ recent' \in BOOLEAN /\ dropped' = dropped
        BY <3>2 DEF sdmmc_timer, client
      <4>2. \/ pm' = "idle" /\ armed' = FALSE
            \/ pm' = pm /\ armed' = armed
        BY <3>2 DEF sdmmc_timer
      <4> QED BY <4>1, <4>2 DEF TypeOK
    <3>3. CASE start_ccb_empty
      BY <3>3 DEF start_ccb_empty, TypeOK, timer
    <3>4. CASE timer_expires
      BY <3>4 DEF timer_expires, TypeOK, client
    <3> QED BY <3>1, <3>2, <3>3, <3>4
  <2>2. pulses' \in 0 .. MaxPulses
    BY <1>p, SimAssumption DEF TypeOK
  <2>3. {cache', wce', wp'} \subseteq BOOLEAN
    BY <1>f DEF TypeOK, record
  <2> QED BY <1>f, <1>p, <2>1, <2>2, <2>3 DEF TypeOK, record
<1>2. QueueInv'
  BY <1>f DEF QueueInv
<1>3. PulseInv'
  <2>1. Calling' = Calling
    BY <1>f DEF Calling
  <2> QED BY <2>1, <1>p, CallingFinite, SimAssumption DEF PulseInv, TypeOK
<1>4. HandlerInv' /\ RecordInv' /\ LossProtects' /\ SyncDurable'
  BY <1>f, <1>p DEF HandlerInv, RecordInv, LossProtects, SyncDurable, R, record
<1> QED BY <1>1, <1>2, <1>3, <1>4

(* The next request is taken off the queue.                                *)
LEMMA StartStep ==
  ASSUME SimInv, sdmmc_start_ccb
  PROVE  SimInv'
<1> USE SimAssumption DEF SimInv, sdmmc_start_ccb, record
<1> DEFINE h == Head(simq)
           q == req[h]
<1>1. /\ simq \in Seq(Ccb) /\ Len(simq) \in Nat /\ Len(simq) > 0
      /\ h = simq[1] /\ h \in Ccb /\ Len(Tail(simq)) = Len(simq) - 1
      /\ Tail(simq) \in Seq(Ccb)
      /\ \A i \in 1 .. Len(simq) - 1 : Tail(simq)[i] = simq[i + 1]
  BY DEF TypeOK
<1>2. ccb[h] = "queued" /\ q \in Request /\ h # none
  BY <1>1 DEF QueueInv
<1>3. nexus' = h /\ simq' = Tail(simq) /\ R' = q /\ nexus = none
  BY DEF R, TypeOK
<1> HIDE DEF h, q
<1>4. pc' = Dispatch(q) /\ status' = IF Refused(q) THEN "error" ELSE "ok"
  BY DEF h, q
<1>5. /\ pc' \in {"flush", "post", "mode", "register", "switch"}
      /\ pc' = "switch" => q.op \in {"read", "write", "erase", "protect"}
      /\ pc' = "flush" => q.op = "sync"
      /\ pc' = "mode" => q.op = "mode"
      /\ pc' = "register" => q.op \in {"register_part", "register_cache"}
      /\ pc' = "post" /\ q.op = "sync" => ~cache
  BY <1>2, <1>4, RequestFields DEF Dispatch
<1>6. TypeOK'
  <2>1. ccb' \in [Ccb -> {"idle", "queued", "nexus"}]
    BY <1>1 DEF TypeOK, h
  <2>2. status' \in {"ok", "error"}
    BY <1>4
  <2>3. pm' = "active" /\ armed' = TRUE
    OBVIOUS
  <2>4. {tpulse', recent', cache', wce', wp', dropped'} \subseteq BOOLEAN
    BY DEF TypeOK
  <2> QED BY <1>1, <1>2, <1>3, <1>5, <2>1, <2>2, <2>3, <2>4 DEF TypeOK
<1>7. QueueInv'
  <2>1. Len(simq') = Len(simq) - 1 /\ \A i \in 1 .. Len(simq') : simq'[i] = simq[i + 1]
    BY <1>1, <1>3
  <2>2. \A i \in 1 .. Len(simq') : simq[i + 1] \in Ccb /\ simq[i + 1] # h
    BY <1>1, <2>1 DEF QueueInv
  <2>3. ccb' = [ccb EXCEPT ![h] = "nexus"]
    BY DEF h
  <2>4. \A i \in 1 .. Len(simq') : ccb'[simq'[i]] = "queued"
    BY <1>1, <2>1, <2>2, <2>3 DEF QueueInv, TypeOK
  <2>5. \A i, j \in 1 .. Len(simq') : simq'[i] = simq'[j] => i = j
    BY <1>1, <2>1 DEF QueueInv
  <2>6. ccb'[nexus'] = "nexus"
    BY <1>1, <1>3, <2>3 DEF TypeOK
  <2>7. \A d \in Ccb : ccb'[d] # "idle" => req'[d] \in Request
    BY <1>1, <1>2, <2>3 DEF QueueInv, TypeOK, q
  <2> QED BY <2>4, <2>5, <2>6, <2>7 DEF QueueInv
<1>8. PulseInv'
  BY PulseKept
<1>9. HandlerInv'
  BY <1>3, <1>5 DEF HandlerInv
<1>10. RecordInv' /\ LossProtects'
  BY <1>5, <1>3 DEF RecordInv, LossProtects, TypeOK
<1>11. SyncDurable'
  BY <1>3, <1>5 DEF SyncDurable, RecordInv
<1> QED BY <1>6, <1>7, <1>8, <1>9, <1>10, <1>11

(* The request is handed back.                                             *)
LEMMA PostStep ==
  ASSUME SimInv, sdmmc_post_ccb
  PROVE  SimInv'
<1> USE SimAssumption DEF SimInv, sdmmc_post_ccb, record
<1>1. nexus \in Ccb /\ ccb[nexus] = "nexus"
  BY DEF TypeOK, QueueInv
<1>2. TypeOK'
  <2>1. {tpulse', recent', cache', wce', wp', dropped'} \subseteq BOOLEAN
    BY DEF TypeOK
  <2> QED BY <1>1, <2>1 DEF TypeOK
<1>3. QueueInv'
  <2>1. \A i \in 1 .. Len(simq) : simq[i] \in Ccb /\ simq[i] # nexus
    BY <1>1 DEF QueueInv, TypeOK
  <2> QED BY <1>1, <2>1 DEF QueueInv, TypeOK
<1>4. PulseInv'
  BY PulseKept
<1>5. HandlerInv' /\ RecordInv' /\ LossProtects' /\ SyncDurable'
  BY DEF HandlerInv, RecordInv, LossProtects, SyncDurable
<1> QED BY <1>2, <1>3, <1>4, <1>5
-----------------------------------------------------------------------------
(* The handlers.  They leave the clients, the queue and the timer alone.   *)
Handler ==
  \/ mmc_set_partition \/ sdmmc_rw \/ erase_protect \/ sdmmc_reset
  \/ sdmmc_sync \/ sdmmc_mpage_caching \/ sdmmc_card_register_devctl

(* A handler of a request leaves the clients, the queue and the timer      *)
(* alone.                                                                  *)
LEMMA HandlerFrame ==
  ASSUME SimInv, Handler
  PROVE  /\ UNCHANGED <<client, nexus, timer>> /\ R' = R
         /\ pc \notin {"wait", "start"} /\ R \in Request
         /\ QueueInv' /\ PulseInv'
<1>1. UNCHANGED <<client, nexus, timer>> /\ pc \notin {"wait", "start"}
  BY DEF Handler, mmc_set_partition, sdmmc_rw, erase_protect, sdmmc_reset, sdmmc_sync,
         sdmmc_mpage_caching, sdmmc_card_register_devctl
<1>2. nexus \in Ccb /\ ccb[nexus] = "nexus"
  BY <1>1, SimAssumption DEF SimInv, TypeOK, QueueInv
<1>3. R \in Request /\ R' = R
  BY <1>1, <1>2 DEF SimInv, QueueInv, R, client
<1>4. QueueInv' /\ PulseInv'
  BY <1>1, PulseKept DEF SimInv, QueueInv, client
<1> QED BY <1>1, <1>3, <1>4

(* After a handler step the types hold if they do for what it may change.  *)
LEMMA HandlerTypes ==
  ASSUME SimInv, Handler,
         pc' \in {"io", "reset", "post"}, status' \in {"ok", "error"},
         {cache', wce', wp'} \subseteq BOOLEAN, pactive' \in Part, dev' \in Device,
         behind' \subseteq {"part", "cache"}
  PROVE  TypeOK'
<1>1. UNCHANGED <<client, nexus, timer>> /\ nexus # none
  BY HandlerFrame DEF SimInv, TypeOK
<1>2. {tpulse', recent', dropped'} \subseteq BOOLEAN
  BY <1>1 DEF SimInv, TypeOK, client, timer
<1> QED BY <1>1, <1>2 DEF SimInv, TypeOK, client, timer

(* mmc_set_partition keeps the invariant, whether the command works, fails *)
(* or fails after it worked.                                               *)
LEMMA SwitchStep ==
  ASSUME SimInv, mmc_set_partition
  PROVE  SimInv'
<1> USE DEF SimInv
<1>1. Handler
  BY DEF Handler
<1>2. /\ UNCHANGED <<client, nexus, timer>> /\ R' = R /\ R \in Request
      /\ QueueInv' /\ PulseInv'
  BY <1>1, HandlerFrame
<1>3. R.op \in {"read", "write", "erase", "protect"} /\ R.part \in Part
  BY <1>2, RequestFields DEF mmc_set_partition, HandlerInv
<1>4. UNCHANGED <<cache, wce, wp>> /\ pc = "switch"
      /\ dev \in Device /\ {cache, wce, wp} \subseteq BOOLEAN /\ pactive \in Part
      /\ behind \subseteq {"part", "cache"} /\ status \in {"ok", "error"}
  BY DEF mmc_set_partition, TypeOK
<1>5. CASE pactive = R.part
  <2>1. pc' = "io" /\ UNCHANGED <<status, pactive, dev, behind>>
    BY <1>5 DEF mmc_set_partition
  <2>2. TypeOK'
    BY <1>1, <1>4, <2>1, HandlerTypes
  <2>3. HandlerInv' /\ SyncDurable'
    BY <1>2, <1>3, <1>5, <2>1 DEF HandlerInv, SyncDurable
  <2>4. RecordInv' /\ LossProtects'
    BY <1>4, <2>1 DEF RecordInv, LossProtects
  <2> QED BY <1>2, <2>2, <2>3, <2>4
<1>6. CASE pactive # R.part
  <2> DEFINE e == [dev EXCEPT !.part = R.part]
  <2>1. PICK o \in Switch(dev, e) :
              /\ status' = o[1] /\ dev' = o[2]
              /\ \/ o[1] = "ok" /\ pc' = "io" /\ pactive' = R.part /\ UNCHANGED behind
                 \/ /\ o[1] = "error" /\ UNCHANGED pactive
                    /\ \/ R.op \in {"read", "write"} /\ pc' = "reset" /\ UNCHANGED behind
                       \/ /\ R.op \in {"erase", "protect"} /\ pc' = "post"
                          /\ behind' = IF dev'.part # pactive
                                         THEN behind \cup {"part"} ELSE behind
    BY <1>6 DEF mmc_set_partition
  <2>2. /\ e \in Device /\ e.part = R.part /\ e.cache = dev.cache
        /\ e.dirty = dev.dirty /\ e.lost = dev.lost
    BY <1>3, <1>4, PartUpdate
  <2> HIDE DEF e
  <2>3. /\ status' \in {"ok", "error"} /\ dev' \in {dev, e}
        /\ status' = "ok" => dev' = e
    BY <1>4, <2>1, <2>2, SwitchOutcome
  <2>4. dev' \in Device /\ dev'.cache = dev.cache /\ dev'.dirty = dev.dirty
        /\ dev'.lost = dev.lost
    BY <1>4, <2>2, <2>3
  <2>5. TypeOK'
    <3>1. pc' \in {"io", "reset", "post"} /\ pactive' \in Part
          /\ behind' \subseteq {"part", "cache"}
      BY <1>3, <1>4, <2>1
    <3> QED BY <1>1, <1>4, <2>3, <2>4, <3>1, HandlerTypes
  <2>6. HandlerInv' /\ SyncDurable'
    BY <1>2, <1>3, <2>1 DEF HandlerInv, SyncDurable
  <2>7. "cache" \in behind => "cache" \in behind'
    BY <2>1
  <2>8. "part" \notin behind' /\ pc' # "reset" => dev'.part = pactive'
    BY <1>3, <1>4, <2>1, <2>2, <2>3 DEF RecordInv
  <2>9. RecordInv'
    BY <1>4, <2>4, <2>7, <2>8 DEF RecordInv
  <2>10. LossProtects'
    BY <1>4, <2>4, <2>7 DEF LossProtects
  <2> QED BY <1>2, <2>5, <2>6, <2>9, <2>10
<1> QED BY <1>5, <1>6

(* sdmmc_rw keeps the invariant.                                           *)
LEMMA RwStep ==
  ASSUME SimInv, sdmmc_rw
  PROVE  SimInv'
<1> USE DEF SimInv
<1>1. Handler
  BY DEF Handler
<1>2. /\ UNCHANGED <<client, nexus, timer>> /\ R' = R /\ R \in Request
      /\ QueueInv' /\ PulseInv'
  BY <1>1, HandlerFrame
<1>3. /\ pc = "io" /\ R.op \in {"read", "write"} /\ UNCHANGED <<pactive, cache, wce, wp, behind>>
      /\ dev \in Device /\ {cache, wce, wp} \subseteq BOOLEAN /\ pactive \in Part
      /\ behind \subseteq {"part", "cache"}
  BY DEF sdmmc_rw, TypeOK, record
<1>4. pc' \in {"reset", "post"} /\ status' \in {"ok", "error"}
  BY DEF sdmmc_rw
<1>5. /\ dev' \in Device /\ dev'.part = dev.part /\ dev'.cache = dev.cache
      /\ dev'.lost = dev.lost
      /\ dev'.dirty => (dev.dirty \/ dev.cache)
  <2>1. CASE dev' = dev
    BY <1>3, <2>1
  <2>2. CASE dev' # dev
    <3> DEFINE on == dev.dirty \/ (R.op = "write" /\ dev.cache /\ dev.part = "user")
    <3>1. dev' = [dev EXCEPT !.dirty = on]
      BY <2>2 DEF sdmmc_rw
    <3>2. on \in BOOLEAN /\ (on => dev.dirty \/ dev.cache)
      <4>1. dev.dirty \in BOOLEAN
        BY <1>3 DEF Device
      <4> QED BY <4>1, Zenon
    <3> HIDE DEF on
    <3> QED BY <1>3, <3>1, <3>2, DirtyUpdate
  <2> QED BY <2>1, <2>2
<1>6. TypeOK'
  BY <1>1, <1>3, <1>4, <1>5, HandlerTypes
<1>7. HandlerInv' /\ SyncDurable'
  BY <1>2, <1>3, <1>4 DEF HandlerInv, SyncDurable
<1>8. RecordInv'
  BY <1>3, <1>5 DEF RecordInv
<1>9. LossProtects'
  BY <1>3, <1>5 DEF LossProtects
<1> QED BY <1>2, <1>6, <1>7, <1>8, <1>9

(* Erasing and protecting keep the invariant.                              *)
LEMMA EraseStep ==
  ASSUME SimInv, erase_protect
  PROVE  SimInv'
<1> USE DEF SimInv
<1>1. Handler
  BY DEF Handler
<1>2. /\ UNCHANGED <<client, nexus, timer>> /\ R' = R /\ R \in Request
      /\ QueueInv' /\ PulseInv'
  BY <1>1, HandlerFrame
<1>3. /\ pc = "io" /\ pc' = "post" /\ R.op \in {"erase", "protect"}
      /\ UNCHANGED <<pactive, cache, wce, wp, dev, behind>> /\ status' \in {"ok", "error"}
      /\ dev \in Device /\ {cache, wce, wp} \subseteq BOOLEAN /\ pactive \in Part
      /\ behind \subseteq {"part", "cache"}
  BY DEF erase_protect, TypeOK, record
<1>4. TypeOK'
  BY <1>1, <1>3, HandlerTypes
<1>5. HandlerInv' /\ SyncDurable' /\ RecordInv' /\ LossProtects'
  BY <1>2, <1>3 DEF HandlerInv, SyncDurable, RecordInv, LossProtects
<1> QED BY <1>2, <1>4, <1>5

(* A reset brings the driver's record and the device together again, and   *)
(* protects the user partition when the cache may have held data.          *)
LEMMA ResetStep ==
  ASSUME SimInv, sdmmc_reset
  PROVE  SimInv'
<1> USE DEF SimInv
<1>1. Handler
  BY DEF Handler
<1>2. /\ UNCHANGED <<client, nexus, timer>> /\ R' = R /\ R \in Request
      /\ QueueInv' /\ PulseInv'
  BY <1>1, HandlerFrame
<1>3. /\ pc = "reset" /\ pc' = "post" /\ status' = "error" /\ pactive' = "user"
      /\ ~wce' /\ wp' = (wp \/ cache) /\ ~cache' /\ {cache', wce', wp'} \subseteq BOOLEAN
      /\ behind' = behind \ {"part"} /\ behind' \subseteq {"part", "cache"}
      /\ dev \in Device /\ pactive' \in Part
  <2>1. {cache', wce', wp'} \subseteq BOOLEAN
    BY Zenon DEF sdmmc_reset
  <2> QED BY <2>1 DEF sdmmc_reset, TypeOK, Part
<1>4. /\ dev' \in Device /\ dev'.part = "user" /\ ~dev'.cache /\ ~dev'.dirty
      /\ dev'.lost = (dev.lost \/ dev.dirty)
  <2>1. PICK up \in BOOLEAN :
          dev' = [up |-> up, part |-> "user", cache |-> FALSE, dirty |-> FALSE,
                  lost |-> dev.lost \/ dev.dirty]
    BY DEF sdmmc_reset
  <2>2. (dev.lost \/ dev.dirty) \in BOOLEAN
    BY Zenon
  <2> QED BY <2>1, <2>2 DEF Device, Part
<1>5. TypeOK'
  BY <1>1, <1>3, <1>4, HandlerTypes
<1>6. HandlerInv' /\ SyncDurable'
  BY <1>3 DEF HandlerInv, SyncDurable
<1>7. RecordInv'
  <2>1. dev'.cache = cache' /\ wce' = cache'
    <3>1. dev'.cache = FALSE /\ cache' = FALSE /\ wce' = FALSE
      BY <1>4 DEF sdmmc_reset
    <3> QED BY <3>1
  <2> QED BY <1>3, <1>4, <2>1 DEF RecordInv
<1>8. LossProtects'
  BY <1>3, <1>4 DEF LossProtects, RecordInv
<1> QED BY <1>2, <1>5, <1>6, <1>7, <1>8

(* sdmmc_sync keeps the invariant.                                         *)
LEMMA SyncStep ==
  ASSUME SimInv, sdmmc_sync
  PROVE  SimInv'
<1> USE DEF SimInv
<1>1. Handler
  BY DEF Handler
<1>2. /\ UNCHANGED <<client, nexus, timer>> /\ R' = R /\ R \in Request
      /\ QueueInv' /\ PulseInv'
  BY <1>1, HandlerFrame
<1>3. /\ pc = "flush" /\ pc' = "post" /\ UNCHANGED <<pactive, cache, wce, wp, behind>>
      /\ dev \in Device /\ {cache, wce, wp} \subseteq BOOLEAN /\ pactive \in Part
      /\ behind \subseteq {"part", "cache"}
  BY DEF sdmmc_sync, TypeOK, record
<1> DEFINE e == [dev EXCEPT !.dirty = FALSE]
<1>4. /\ e \in Device /\ e.part = dev.part /\ e.cache = dev.cache
      /\ ~e.dirty /\ e.lost = dev.lost
  BY <1>3, DirtyUpdate
<1> HIDE DEF e
<1>5. /\ status' \in {"ok", "error"} /\ dev' \in {dev, e}
      /\ status' = "ok" => dev' = e \/ ~wce
  BY <1>3, <1>4, SwitchOutcome DEF sdmmc_sync, e
<1>6. /\ dev' \in Device /\ dev'.part = dev.part /\ dev'.cache = dev.cache
      /\ dev'.dirty => dev.dirty
      /\ dev'.lost = dev.lost
  BY <1>3, <1>4, <1>5
<1>7. TypeOK'
  BY <1>1, <1>3, <1>5, <1>6, HandlerTypes
<1>8. HandlerInv'
  BY <1>3 DEF HandlerInv
<1>9. RecordInv' /\ LossProtects'
  BY <1>3, <1>6 DEF RecordInv, LossProtects
<1>10. SyncDurable'
  BY <1>3, <1>4, <1>5, <1>6 DEF RecordInv, SyncDurable
<1> QED BY <1>2, <1>7, <1>8, <1>9, <1>10

(* Switching the cache by a mode page keeps the invariant.                 *)
LEMMA ModeStep ==
  ASSUME SimInv, sdmmc_mpage_caching
  PROVE  SimInv'
<1> USE DEF SimInv
<1>1. Handler
  BY DEF Handler
<1>2. /\ UNCHANGED <<client, nexus, timer>> /\ R' = R /\ R \in Request
      /\ QueueInv' /\ PulseInv'
  BY <1>1, HandlerFrame
<1>3. /\ pc = "mode" /\ pc' = "post" /\ UNCHANGED <<pactive, wp>> /\ R.op = "mode"
      /\ dev \in Device /\ {cache, wce, wp} \subseteq BOOLEAN /\ pactive \in Part
      /\ behind \subseteq {"part", "cache"} /\ R.wce \in BOOLEAN
  BY <1>2, RequestFields DEF sdmmc_mpage_caching, TypeOK, HandlerInv
<1> DEFINE e == CacheSet(dev, R.wce)
<1>4. PICK o \in Switch(dev, e) :
         /\ status' = o[1] /\ dev' = o[2]
         /\ \/ o[1] = "ok" /\ wce' = R.wce /\ cache' = R.wce /\ UNCHANGED behind
            \/ /\ o[1] = "error" /\ UNCHANGED <<wce, cache>>
               /\ behind' = IF dev'.cache # cache THEN behind \cup {"cache"} ELSE behind
  BY DEF sdmmc_mpage_caching
<1>5. /\ e \in Device /\ e.part = dev.part /\ e.cache = R.wce
      /\ e.dirty = (R.wce /\ dev.dirty) /\ e.lost = dev.lost
  BY <1>3, CacheUpdate
<1> HIDE DEF e
<1>6. /\ status' \in {"ok", "error"} /\ dev' \in {dev, e}
      /\ status' = "ok" => dev' = e
  BY <1>3, <1>4, <1>5, SwitchOutcome
<1>7. TypeOK'
  <2>1. {cache', wce', wp'} \subseteq BOOLEAN /\ behind' \subseteq {"part", "cache"}
    BY <1>3, <1>4
  <2> QED BY <1>1, <1>3, <1>5, <1>6, <2>1, HandlerTypes
<1>8. HandlerInv' /\ SyncDurable'
  BY <1>2, <1>3 DEF HandlerInv, SyncDurable
<1>9. RecordInv'
  <2>1. dev'.part = dev.part /\ ("part" \in behind => "part" \in behind')
    BY <1>4, <1>5, <1>6
  <2>2. dev'.dirty => dev'.cache
    BY <1>5, <1>6 DEF RecordInv
  <2>3. "cache" \notin behind' => dev'.cache = cache'
    BY <1>3, <1>4, <1>5, <1>6
  <2> QED BY <1>3, <1>4, <2>1, <2>2, <2>3 DEF RecordInv
<1>10. LossProtects'
  BY <1>3, <1>4, <1>5, <1>6 DEF LossProtects
<1> QED BY <1>2, <1>7, <1>8, <1>9, <1>10

(* A register access by devctl keeps the invariant.                        *)
LEMMA RegisterStep ==
  ASSUME SimInv, sdmmc_card_register_devctl
  PROVE  SimInv'
<1> USE DEF SimInv
<1>1. Handler
  BY DEF Handler
<1>2. /\ UNCHANGED <<client, nexus, timer>> /\ R' = R /\ R \in Request
      /\ QueueInv' /\ PulseInv'
  BY <1>1, HandlerFrame
<1>3. /\ pc = "register" /\ pc' = "post" /\ UNCHANGED <<pactive, cache, wce, wp>>
      /\ R.op \in {"register_part", "register_cache"}
      /\ dev \in Device /\ {cache, wce, wp} \subseteq BOOLEAN /\ pactive \in Part
      /\ behind \subseteq {"part", "cache"}
      /\ R.op = "register_part" => R.part \in Part
      /\ R.op = "register_cache" => R.wce \in BOOLEAN
  BY <1>2, RequestFields DEF sdmmc_card_register_devctl, TypeOK, HandlerInv, record
<1> DEFINE e == IF R.op = "register_part" THEN [dev EXCEPT !.part = R.part]
                                          ELSE CacheSet(dev, R.wce)
<1>4. PICK o \in Switch(dev, e) : status' = o[1] /\ dev' = o[2]
  BY DEF sdmmc_card_register_devctl
<1>5. e \in Device /\ e.lost = dev.lost /\ (e.dirty => e.cache)
  <2>1. CASE R.op = "register_part"
    BY <1>3, <2>1, PartUpdate DEF RecordInv
  <2>2. CASE R.op = "register_cache"
    BY <1>3, <2>2, CacheUpdate DEF RecordInv
  <2> QED BY <1>3, <2>1, <2>2
<1> HIDE DEF e
<1>6. status' \in {"ok", "error"} /\ dev' \in {dev, e}
  BY <1>3, <1>4, <1>5, SwitchOutcome
<1>7. behind' = behind \cup (IF dev'.part # pactive THEN {"part"} ELSE {})
                       \cup (IF dev'.cache # cache THEN {"cache"} ELSE {})
  BY DEF sdmmc_card_register_devctl
<1>8. TypeOK'
  <2>1. behind' \subseteq {"part", "cache"}
    BY <1>3, <1>7
  <2> QED BY <1>1, <1>3, <1>5, <1>6, <2>1, HandlerTypes
<1>9. HandlerInv' /\ SyncDurable'
  BY <1>2, <1>3 DEF HandlerInv, SyncDurable
<1>10. RecordInv'
  BY <1>3, <1>5, <1>6, <1>7 DEF RecordInv
<1>11. LossProtects'
  BY <1>3, <1>5, <1>6, <1>7 DEF LossProtects
<1> QED BY <1>2, <1>8, <1>9, <1>10, <1>11
-----------------------------------------------------------------------------
(* Every step of clients, driver thread, timer and device keeps the        *)
(* invariant.                                                              *)
LEMMA NextInv == SimInv /\ [Next]_vars => SimInv'
<1> SUFFICES ASSUME SimInv, [Next]_vars PROVE SimInv'
  OBVIOUS
<1>1. CASE \E c \in Ccb : sdmmc_sim_action(c) \/ sim_pulse(c)
  BY <1>1, ActionStep, PulseStep
<1>2. CASE timer_expires \/ receive_enqueue \/ sdmmc_timer \/ start_ccb_empty
  BY <1>2, IdleStep
<1>3. CASE sdmmc_start_ccb \/ sdmmc_post_ccb
  BY <1>3, StartStep, PostStep
<1>4. CASE Handler
  BY <1>4, SwitchStep, RwStep, EraseStep, ResetStep, SyncStep, ModeStep, RegisterStep DEF Handler
<1>5. CASE UNCHANGED vars
  BY <1>5 DEF vars, client, thread, timer, record, SimInv, TypeOK, QueueInv, PulseInv, Calling,
       HandlerInv, RecordInv, LossProtects, SyncDurable, R
<1> QED BY <1>1, <1>2, <1>3, <1>4, <1>5 DEF Next, Driver, Handler

(* The invariant of the driver thread: a request is in the queue once or   *)
(* in progress, the thread is in its handler, and what the driver notes of *)
(* the device (sdmmc_ext, sdio_dev) is what the device does, but for the   *)
(* changes it does not see.                                                *)
THEOREM SimInvariant == Spec => []SimInv
BY InitInv, NextInv, PTL DEF Spec

(* The variables have their types, the thread has a request in hand        *)
(* exactly while it serves one, and the PM timer runs in the active state. *)
THEOREM SimTypes == Spec => []TypeOK
<1>1. SimInv => TypeOK
  BY DEF SimInv
<1> QED BY <1>1, SimInvariant, PTL

(* mmc_set_partition may save the SWITCH: a request reaches the partition  *)
(* it names whatever was read, failed and was reset before it, as long as  *)
(* the device's partition did not change behind the driver.                *)
THEOREM PartitionIsRight == Spec => []RightPartition
<1>1. SimInv => RightPartition
  BY DEF SimInv, HandlerInv, RecordInv, RightPartition
<1> QED BY <1>1, SimInvariant, PTL

(* Whatever a reset loses, sdmmc_reset has made the user partition read    *)
(* only, since SDMMC_EFLAG_CACHE was set whenever the device's cache was.  *)
THEOREM LossIsProtected == Spec => []LossProtects
<1>1. SimInv => LossProtects
  BY DEF SimInv
<1> QED BY <1>1, SimInvariant, PTL

(* A sync that sdmmc_sync answers with success leaves no acknowledged data *)
(* in the cache alone: the shortcuts for a cache that is off and for       *)
(* DEV_FLAG_WCE are taken only when there is nothing to flush.             *)
THEOREM SyncIsDurable == Spec => []SyncDurable
<1>1. SimInv => SyncDurable
  BY DEF SimInv
<1> QED BY <1>1, SimInvariant, PTL
=============================================================================
