# A TLA+ verification project for the R-Car M3 Salvator BSP

The repository is a board support package for QNX 7.0 on the Renesas R-Car M3
(Salvator board): device drivers, driver libraries, the boot code and a few
utilities, all under `src/R-CarM3/src`. Nearly everything in it is a small
concurrent program of its own: a driver thread, an interrupt handler and a piece of
hardware that share descriptors, flags and registers. That is what this project
models: for each driver the threads and handlers as actions, the hardware and the
QNX frameworks (io-pkt, libi2c, io-audio ...) as an environment that does what the
driver's own code expects of them.

All paths below are relative to `src/R-CarM3/src`.

## 1. Inventory

| Part | State it keeps | Operations | What is hard | What makes it correct |
|---|---|---|---|---|
| `hardware/devnp/ravb` Ethernet AVB driver | two DMA rings (descriptor types, mbuf tables, indices), interface flags, latched interrupt statuses | `ravb_start`, `ravb_reap_tx`, `ravb_receive`, `ravb_dmac_isr`, `ravb_process_interrupt`, `ravb_init`, `ravb_stop`, link callback, attach/detach | two threads and the DMAC on the same rings; interrupts masked by the ISR and re-enabled later; stop and restart during traffic | a buffer belongs to one owner; nothing is freed twice or while the DMAC uses it; no lost wake-up in either direction |
| `hardware/i2c/rcar-A`, `rcar-B` I2C masters | transfer buffer and position, `status`, registers | send/recv, interrupt state machine, time-out | a late interrupt of one transfer meets the next one; NACK and arbitration loss | a transfer that reports success moved its bytes; every transfer ends |
| `lib/dma/rcar/sysdmac`, `audioppdmac` DMA library | channel table, per-channel mask and interrupt, descriptors | attach/release, setup, start, abort, complete | several clients and one channel table; partial failure in attach | a channel has one owner; a failed attach leaves nothing behind |
| `hardware/devc/serscif` serial driver | FIFOs, tty buffers, control register, flow-control flags | `tto`, `ser_stty`, `ser_intr`, `tx_tto` | `tto` and the handler read and write the control register on two processors without a lock | output resumes, input arrives, no order to the register is lost |
| `lib/vin` video capture | frame queue, buffer ownership, decoder state | start/stop, get frame, ISR | frame buffers handed between ISR and client | a frame the client holds is not written |
| `hardware/devu/dc/rcar` HS-USB device controller | endpoint and pipe state | enumeration, transfer, reset | bus reset during a transfer | a transfer completes once |
| `hardware/devb/sdmmc/sdiodi` SD/MMC library and host controller | `hc->wspc`, `dev->flags`, usage counter, card detection queue | command, time-out, abort, reset, identification, removal | time-out races completion; a card is pulled out inside a request; flags updated by two threads | a completion belongs to its command; the detection knows the card in the slot and always ends |
| `hardware/devb/sdmmc/sim_sdmmc.c` SD/MMC SIM module | request queue, pulses, PM timer, `pactive`, cache and write-protect flags | action entry, driver thread, read/write/erase, sync, mode select, reset | commands that fail after they took effect; lost pulses | requests reach their partition; what a sync acknowledged is durable; no request is forgotten |
| `hardware/deva/ctrl/rcar` audio driver | capture and playback DMA positions | prepare, trigger, interrupt | fragments and positions, shared clocks | no fragment is reported twice |
| `hardware/wfd/rcar` display driver | ports, pipelines, VSP display lists | commit, vsync, display-list switch | commit against vsync | a committed configuration becomes visible once |
| `hardware/flash` QSPI NOR driver | erase and program state of a block | probe, read, write, erase, suspend | power loss and time-outs in the embedded file system are outside this repository | sector arithmetic |
| `lib/imr` distortion correction | mapping and interrupt wait | setup, start | one command at a time | completion is waited for |
| `hardware/support` thermal, wdtkick, genmac | trip points; kick timer | threshold interrupt, kick | periods | the watchdog is kicked in time |
| `hardware/startup/lib` RAM lists | `ram_list`, `avoid_list`, early workspace, sysram entries | `add_ram`, `alloc_ram`, `find_ram`, `avoid_ram`, `ws_alloc`, `add_sysram` | long sequences of splits, merges and work-arounds, one order per board | RAM is never handed out twice nor told to the kernel as free |
| rest of `hardware/startup`, `hardware/ipl` boot code | syspage, registers | board set-up, image load | sequential, runs once | - |
| `services/pci` PCI server modules | configuration space, capability tables | config read/write, IRQ setup | headers and thin register access | - |
| `utils` camera_ctrl, i2c-control, `lib/wfdcfg` | - | command-line tools and tables | - | - |

## 2. Plan

Done, in this order (the most state-sharing and most used code first):

1. `Ravb`, `RavbProofs`: data path and life cycle of the Ethernet driver.
2. `I2cRcarA`, `I2cRcarAProofs`: the I2C master's interrupt state machine, its
   time-outs and reset.
3. `SysDmac`, `ResourcePool`, `SysDmacProofs`: the DMA library's channel table, and
   the abstract resource pool it implements.
4. `DmaXfer`, `RcarRpc`, `RcarRpcProofs`: the HyperFlash controller as a client of two
   DMA channels. `DmaXfer` holds the library's transfer calls as operators on a
   channel; `RcarRpc` extends it, so that the driver and the library are checked
   together.

5. `Sdio`: commands, time-outs and card detection of the SD/MMC library with the R-Car
   host controller.
6. `SimSdmmc`: the SIM module above it, its thread, its queue and the cache and
   partitions of an eMMC.
7. `SerScif`: the serial driver's two actors on one control register.
8. `StartupRam`, `FreeRam`: startup's RAM lists, and the set of free addresses they
   implement.

9. `SimSdmmcProofs`, `SdioProofs`, `SerScifProofs`, `StartupRamProofs`: theorems about the
   newer modules.
10. The rest of the invariants of the older ones: the transmit ring as a queue between
    the consumer and the producer index (`RavbProofs`), the position of every byte on its
    way (`I2cRcarAProofs`), the mappings while no two calls overlap (`SysDmacProofs`).

Next:

11. HyperFlash callouts (`f3s_qspi_sps26ks.c`, `spi_cmds.c`): erase, suspend, lock and
    status as sequences of command cycles against the modes of the device. Property:
    every callout leaves the device in read mode, whichever command fails.
12. `DmaXfer` with descriptor lists, and the audio driver's use of them.
13. `RavbAttach`: acquisition and rollback of the Ethernet driver's resources, and the
    order of `ravb_cleanup`. Abstract specification: `ResourcePool`.
14. `lib/vin`: who owns a frame buffer, the interrupt thread or the client;
    `hardware/i2c/rcar-B`; HS-USB.

## 3. The modules and the code they model

`PROJECT.json` maps every definition to its lines. Names of actions are the names of
the functions; a function that other actors can observe half-done is split at the
points where they can, and its parts carry a suffix (`ravb_start_top`,
`ravb_start_put` ...). A definition that follows a comment `Mutant:` is a plausible
wrong version of the one after it and is not part of any specification.

### Ravb

State: the two descriptor rings (`tx_bd`, `rx_bd`: the `die_dt` of each descriptor),
the tables of mbufs, the producer, consumer and receive indices, the send queue
`ifp->if_snd`, the owner of every mbuf, the flags that matter (`IFF_RUNNING`,
`IFF_OACTIVE`, link), the mutex `if_snd_ex`, the registers of the AVB-DMAC, the
statuses latched by the ISR, and the local indices of each thread.

Two threads run driver code: the stack context (output, init, stop, link callback) and
the work thread of `ravb_process_interrupt`. io-pkt runs them on different processors,
so every access to shared memory is a step of its own where it matters: in
`ravb_reap_tx` an mbuf is freed and its slot cleared in two steps; `ravb_start` reads
its indices, reaps, puts and kicks in separate ones; `ravb_receive` keeps its index in
a local variable until it writes it back. `ravb_dmac_isr_iss`/`_queue` are the ISR,
which masks the interrupts that `ravb_dmac_enable_interrupt` unmasks at the end.
`dmac_transmit`, `dmac_receive`, `if_output`, `stack_free` and `if_stop` are external:
the DMAC walks its own cursors, raises the statuses the driver acknowledges and stops
at a descriptor that is not empty.

`RunSpec` is the interface brought up once; `Spec` adds stop and re-initialisation.

### I2cRcarA

State: the fields of `dev` (`buf`, `len`, `status`, the pending event), the registers
`ICMSR`, `ICMIER`, `ICMCR` as sets of flags, the transmit register and the shift
register, the phase of the bus, and two histories (bytes the slave has taken, bytes
stored in the client's buffer). Bytes are named by their position, so that a lost,
repeated or swapped byte is visible.

`rcar_i2c_send` and `rcar_i2c_recv` are `xfer_setup`, `xfer_len`, `xfer_enable`,
`xfer_go`: between them the handler may run on another processor.
`rcar_i2c_wait_complete` is `wait_event` and `wait_timeout`, `rcar_i2c_reset` with
`force_stop` the actions after it. `intr_mat` ... `intr_mal` are the branches of
`rcar_i2c_intr` in the order in which the code tests the flags. The controller
(`hw_*`) is external: a bus phase takes tens of microseconds, so an interrupt is served
within the phase that raised it; a STOP after NACK is generated by hardware; what
`FSDA` reads in `force_stop` is a free choice. Slave addresses are 7 bits.

### SysDmac and ResourcePool

State: the `dma_channel_t` of each client, what is reserved at the resource manager
(channels, descriptors) and attached (interrupts), the process-wide table `sysdmac[]`
with its user counters, and the mappings that exist. `dma_channel_attach` is
`attach_channel`, `attach_desc`, `map_*`, `attach_irq` and the failure labels
(`fail2`, with `unmap_*` before it for `fail3`); `dma_channel_release` is `release`,
`release_detach` and `unmap_*`. Each access to the shared table is a step;
`map_insert` and `unmap_test` join a test and the assignment after it. The counter
wraps at `NumWidth`. The library takes no lock, so any number of clients may be inside;
`raced` is a history variable: two calls have overlapped.

`ResourcePool` says what clients rely on: a grant only of what nobody holds, and giving
back all at once. `PoolSpec` is its specification under the mapping `held <- Held`.

### DmaXfer and RcarRpc

`DmaXfer` is a channel during single-block transfers: the bits IE, DE and TE of CHCR,
TCR, the address, and whether the kernel masks the interrupt.
`_NTO_INTR_FLAGS_TRK_MSK` makes the kernel mask an interrupt on delivery;
`dma_abort` and `xfer_complete` unmask it.

`RcarRpc` counts words of four bytes, the unit of the transfers
(`set_flash_config` excludes unaligned accesses). `rpc_read` and `rpc_write` start an
operation; `rpc_write_buffer` copies and starts the DMA, `write_buffer_program` starts
the programming after the wait, whatever its result; `rpc_write_word` programs the
rest. `rpc_wait` is `wait_rdma`, `wait_tdma`, `wait_timeout`; `rpc_dma_xfer` is the
abort after a failure. The DMA engines move one word per step and interrupts are
delivered at any moment, before or after the time-out. A part of a write begins with
commands (`rpc_enable_write`) and ends with the programming; after both the driver polls
the controller and the flash without a time-out, and waits for `busy` to end, which
`device_ready` does when the hardware gets to it, if ever. Other command cycles touch no
shared state and are part of the action.
`early` is a history variable: a time-out has expired while its transfer was still
going on or its event was still to be delivered.

### Sdio

One slot of the R-Car host controller and the two threads that use it. State: the card
in the slot (`slot`, odd numbers are cards, so that a card put in later is told from the
one before), the controller (`stat`, `eng`, `adtc`, `dma`), the interrupt thread with
the status it has read (`hpc`, `hs`, `hcs`), `hc->wspc.cmd` (`wspc`) and its status
`cs`, the command of each thread (`x`, `res`, `left`), the driver thread (`cpc`, `op`,
`usage`), the detection thread (`dpc`, `cdq`, `ident`), and `dev->flags` with the value
a thread has loaded and not yet stored (`ld`).

`hc_read`, `hc_event`, `hc_command` and `sdio_cmd_cmplt` are `rcar_sdmmc_event` in the
interrupt thread; `set_media_change` and `cd_pulse` its call of `sdio_hc_event`, in the
order of the code. `publish`, `rcar_sdmmc_cmd`, `sdio_wait_cmd`, `wait_timeout` and
`abort` are `sdio_issue_cmd`. `sim_io`, `sim_reset`, `reset_store`, `sim_retry` and
`sim_exit` are what the driver thread does through `sdio_send_cmd` and `sdio_reset`,
both inside `sdio_synchronize`; `sdio_cd`, `cd_change` ... `ident_store` are the detection
thread, through removal, `sdmmc_detach` and identification, which may end without a
device (`ident_unattached`: `sdmmc_sdio_insertion` returns early or `sdmmc_attach`
fails). The slot and the controller
are external. History variables: `taint` (a command was published while the controller
or its interrupt thread was still busy with another one) and `raced` (a store of
`dev->flags` overwrote a change).

Abstractions: one command without data stands for the sequences that reset and identify
a card (they retry at `Clks` clock rates); requests of the driver thread carry data; the
errno values EAGAIN, EINVAL and ETIMEDOUT are one class; the commands that set up a card
between identification and the insertion callback, tuning, interrupt masks and spurious
pulses are left out.

### SimSdmmc

State: for each client's CCB where it is and where its caller stands (`ccb`, `caller`,
`req`), the queue `simq` and the pulses in the channel, the driver thread (`pc`, `nexus`,
`status`), the power-management timer (`pm`, `armed`, `tpulse`, `recent`), the driver's
own picture of the device (`pactive`, `cache`, `wce`, `wp`), and the device itself
(`dev`: active partition, cache switch, whether the cache holds acknowledged data, and
whether a reset has lost some). A client's `sdmmc_sim_action` is two steps, queue and
pulse, and the pulse may fail. Every command to the device has three outcomes: it
succeeds, it fails without effect, or it fails although it took effect. `behind` records
that the driver's picture was overtaken on one of three known ways (section 6).

Abstractions: no background operations, no HC_CAP_SLEEP, no card lock, RPMB, ASSD or
inquiry data; only the user area is cached; the queue is first come, first served;
the idle time is counted in pulses of the timer, as of when they are handled, where the code
compares clocks: the PM state may go idle one period earlier or later than in the model;
`SDMMC_CACHE_SUP` is not defined in the build, so the cache starts off and a mode select
switches it on.

### SerScif

State: the control register `scscr` as a set of bits, the two FIFOs, TDFE, a pending
receive error (`err`), the reset of the receive FIFO, the io-char buffers as counts, `rts_flag`, the page and high-water
flags, the transmit timer, and for each of the two actors `tto` and `isr` what it still has
to do (`todo`) and what it has read of the register (`got`): a `set_port16` is a read and
a later write. `tto` is called for output, flow control, break and line settings; the
handler reads, stores and transmits, and disables the receive interrupts of a device that
is flow controlled. A character may arrive with an error, which asserts the interrupt
until `error_handling` clears it, before it reads the next character. `clobbered` is a
history variable: the bits an order to which was undone by the other actor's write.

io-char is external. Left out: the search for the baud rate divider, `options.c`,
`disable_uart`, the drain check, the paged override, several devices on one interrupt,
CREAD off, the kind of an error and what io-char makes of it, overruns
(their status comes with a full FIFO, so that the handler reads), and RDF and DR, which `read_char` clears
and a FIFO that is not empty sets again.

### StartupRam and FreeRam

State: `ram_list`, `avoid_list`, the early workspace, the temporary system page, the "ram"
and "sysram" entries of the address space, and, as history, the addresses that were
handed out (`granted`) and those that were handed out more than once (`twice`).
`add_ram`, `alloc_ram`, `find_ram`, `avoid_ram`, `ws_alloc`, `add_sysram` and the
reservation of the image keep the code's lists entry by entry; a call that stops startup
by `crash` is the state `crashed`. `FreeRam` is the set of free addresses a caller has in
mind: RAM is added, always without the boot image; a contiguous range is taken and
exactly this range is given to somebody; a workspace is given out of what stays free.

`StartupRamAssumption` holds the premises on the board: regions do not overlap, a region
that meets the RAM behind the image, as far as the early workspaces can reach
(`EarlyRoom`), begins no later than it, and the compressed image was not left there.
`ws_init` relies on this: "We can be fairly sure there's some ram following".
One more premise is in the guard of `alloc_reserved`: memory that the board or an option
takes at an address (`main.c:52`, `init_raminfo.c:37`, `jtag.c:35`) lies in RAM that was
added and meets nothing that was handed out before, such as the temporary system page.
No code checks this: `alloc_ram` would take the range, and it would have two owners.

Left out: allocation watchers (no caller), colours, masks and ranges of a request, the
overflow of the two lists, the zeroing for a secure system, overlapping "ram" entries.
Addresses have no width, so that the wrap of an unsigned subtraction that the comparison
at `ram.c:230` guards against does not show.

## 4. Runs

| Run | Instance | What it shows |
|---|---|---|
| `ravb_run` | 3 transmit, 2 receive descriptors, 4 mbufs, errored frames | steady operation: no double free, no DMA on a buffer that was given away, no leak, no lost wake-up for output, no stranded frame |
| `ravb_live` | 2 + 1 descriptors, 3 mbufs, fair | a stalled receiver restarts; queued packets are taken |
| `ravb_life` | 2 + 1 descriptors, 2 mbufs, stop and restart | types hold, and after `ravb_stop` no descriptor is left to the DMAC |
| `ravb_rx_errors` | violation | an errored frame stalls the receiver |
| `i2c_a_quiet` | up to 3 bytes, both directions, with and without STOP, dead bus | what returns DONE has been moved in order; the handler stays inside the buffer, and off it afterwards |
| `i2c_a_faults` | 1 byte, NACK, lost arbitration, hanging bus, late time-outs, fair | every transfer returns |
| `dma_run` | 3 clients, 4 channels in 2 groups, 3 descriptors a group | reservations have one owner and come back whatever failed, and the library implements `ResourcePool`, for overlapping calls too; until two calls overlap registers stay mapped for their users and no mapping is left |
| `rpc_run` | 7 words, buffers of 4, a write of 4 + 2 + 1 words, two reads, time-outs at any moment, fair | reads return the flash or nothing; writes are right until an early time-out; reads return, and writes do if the controller and the flash get ready |
| `sdio_run` | a card, its removal, another card; 1 retry, 2 clocks; fair | commands of the two threads never meet; a device outlives its thread; completions belong to their commands; the detection ends, and ends with the right card |
| `sim_run` | two clients: one reads, writes, erases, switches cache and registers, one syncs; every command may fail, with and without effect; fair | requests reach their partition; a successful sync is durable; lost data write-protects; requests are posted; the device goes idle |
| `ser_run` | transmit FIFO of one character, receive FIFO of two, errors, 2 characters each way, one break or change of settings, fair | the register is as ordered unless an order was undone; output drains, input arrives, the handler rests |
| `ram_run` | 26 addresses, three regions (two of them touch), an image and a compressed image, one reservation, 4 grants before `add_sysram` and up to 3 after it | the list is ordered and merged; nothing is handed out twice; the kernel is told of the free ranges; a request that fits is met; the list implements `FreeRam` |

Why the bounds are enough to be interesting. *Ravb*: with 3 transmit descriptors the
ring is empty, partly filled and full, and wraps; 2 receive descriptors let one be
handled while the DMAC fills the other; 4 mbufs let the pool run dry while both rings
are in use. One packet in `if_snd` at a time (`MaxSnd`) is enough to make `ravb_start`
go round its loop. *I2C*: the code treats the last byte and the last but one apart, so
three bytes have a first, a middle and a last. *SysDmac*: two groups of two channels
make clients share a register block or not; 3 descriptors a group make requests for 2
and 3 collide; `NumWidth` is larger than the number of channels, so a counter that
wraps has gone below zero; `MaxMaps` is the number of blocks that can be mapped.
*RPC*: a write with a whole buffer, a shorter one and a rest.
*Sdio*: the first card is removed and a second one put in (`MaxChanges` counts the first
insertion), before or after anybody has noticed the removal; one retry makes a late
answer of the first try meet the second. *SimSdmmc*: one partition besides the user area is enough to be in the wrong
one; two pulses may be waiting for requests that are already served. *SerScif*: a transmit FIFO
of one is full and empty within two steps, a receive FIFO of two lets the handler's loop go
round twice, and the races are between two read-modify-writes, whatever the length. *StartupRam*: regions that touch and one apart, requests of two
sizes with and without alignment, so that candidates lie before, in, after and across
the avoided ranges and entries are cut at the front, at the end, in the middle and whole.

`TypeOK` is a run's property where it says more than types (`Ravb`: an index that leaves
its ring; `StartupRam`: the order of the list). The other modules define it for their
proofs; it has been checked with the same instances.

Premises of the runs, each needed:

* `ravb_life` has the constraint `NoDoubleFree`: after the first double free
  (section 6) the owner of an mbuf means nothing, so the run explores every
  behaviour up to it. The theorems about both properties of this run need no such
  premise.
* `ravb_live` has `RxErrors = FALSE`; the finding `ravb_rx_errors` shows why.
* `TxProgress` assumes that the interrupt thread keeps coming out of `ravb_receive`.
  The loop has no budget: frames that arrive as fast as they are taken keep it there.
* `i2c_a_quiet` has no NACK, no lost arbitration and no time-out of a live bus, and no
  send directly after a send without STOP (`SendAfterHeld`), whose MDE is still set
  when `xfer_enable` enables the interrupt, so that the handler runs before START.
* `RegistersMapped` and `NothingLeft` of `dma_run` hold until two calls have overlapped
  (`raced`); section 6 says what happens then. The constraint `RaceOfTwo` lets
  three clients hold channels as long as their calls come one by one; once calls have
  overlapped, one of the three stays without a channel.
* `CompletionIsOwn` speaks of commands published on a quiet controller, and
  `NoStaleCardUntilRaced` holds until a store of `dev->flags` has lost a change.
* The properties of `sim_run` except the two temporal ones hold while the driver's record
  of the device has not been overtaken (`behind`); `RequestPosted` makes an exception for
  a request whose pulse failed while no timer ran.
* `ControlAsOrdered` and `InputDelivered` of `ser_run` hold as long as no write undid an
  order of the other side (`clobbered`); `OutputDrains` and `HandlerRests` hold even then.
  `HandlerRests` assumes that an error that stays pending has a character in the FIFO again
  and again; section 6 says what happens otherwise.
* The second half of `OperationReturns`, on writes, assumes that the controller and the
  flash are ready again and again. The first half, on reads, assumes nothing of hardware.
* In `ram_run`, what `alloc_reserved` takes at an address meets nothing handed out before
  (section 3); `GrantsApart` and its theorem rest on it.

Fairness. Threads that can run do run (`WF` on the steps of driver threads, handlers
and, where the code waits for it, of the controller). `process_tx_lock` has strong
fairness: a QNX mutex goes to the longest waiter of the highest priority, so a thread is
not overtaken for ever although the mutex is free again and again. In `RcarRpc` only the
driver thread is fair: its time-outs, not the hardware, must end the waits for the DMA;
for the polls of a write, which have none, the premise of `OperationReturns` stands. `Sdio` is the
same: the driver thread and the detection thread are fair, the controller and even its
interrupt thread are not, since every wait has a time-out. In `SimSdmmc` the driver
thread, a client between queueing a request and sending its pulse, and the repeating timer
are fair. In `SerScif` io-char's thread, the handler while its interrupt is asserted and
the transmitter are. Clients, networks, slaves, cards and administrators are under no
obligation.

Deadlock is checked except in `sdio_run`, `sim_run`, `ser_run` and `ram_run`: there every
thread may wait for a client, a card or a character that never comes, and startup ends.

## 5. Theorems

Proved by TLAPS for all values of the constants that satisfy the modules' named
assumptions, each evaluated by TLC in the runs: `RingAssumption` (at least two transmit
descriptors and one receive descriptor), `PoolAssumption`, `I2cAssumption`,
`SysDmacAssumption` (a counter is wider than the number of channels), `RpcAssumption`,
`SdioAssumption` (one insertion, one clock), `SimAssumption` (finitely many clients, some
room for pulses), `SerScifAssumption` and `StartupRamAssumption` (see section 3, also for the guard of
`alloc_reserved`, on which `StartupRamProofs` rests). Every inductive invariant below was checked by
TLC on the constants of its module's run before it was proved.

`RavbProofs`

* `TypeCorrect`: `Spec => []TypeOK`, through the whole life cycle.
* `StopClearsRing`: `Spec => []StoppedRingClear`. `StopInv` says what `ravb_stop` can rely
  on at each of its steps: once `IFF_RUNNING` is off no thread that is inside
  `ravb_start` hands out a descriptor, and those below its loop index are cleared.
* `RunInvariant`, and from it `NeverFreedTwice`, `TransmitFromOwned`,
  `ReceiveIntoOwned`. None of the three properties is inductive. `RunInv` adds: a
  thread is inside `ravb_start` exactly while it holds `if_snd_ex` (`LockInv`); before
  the interface runs everything is quiet, and `ravb_stop` is only reached then
  (`QuietInv`, `BringUpInv`); queued packets are distinct and owned by the queue
  (`SndInv`); an occupied slot owns its mbuf except between the two statements of
  `ravb_reap_tx`, and slots hold distinct mbufs (`TxInv`). `DmaInsideRings` joins the last
  two: `DmaSafe`.
* `RingInvariant`, and from it `NothingLeaks`, `OutputIsWoken`, `NoFrameIsStranded`. The
  ring is described by distances (`Dist`) from the next descriptor to reap, which is
  `tx_cidx` or, while a thread reaps, its local index (`Base`): the slots from there to
  `tx_pidx` are the occupied ones, those from the DMAC's cursor to `tx_pidx` the unsent
  ones, and the cursor lies between (`Ring`). With it go `LocalInv` (the indices a
  thread has read are still right when it uses them), `AtRest` (nothing has moved before
  the interface runs), `KickInv` (whoever has filled a descriptor has told the DMAC or
  is about to) and `WakeInv`. The wake-up needs all of them: `ravb_start` gives up on a
  full ring, a full ring whose oldest packet is unsent is one where the DMAC stands
  (`RingFull`), and the DMAC has been told, so that its interrupt will come.

`I2cRcarAProofs`, all on a quiet bus (`QuietBus`)

* `HandlerInBuffer`, `HandlerLeavesBuffer`: `NoOverrun` and `BufferPrivate`. The invariant
  `QuietInv` names, for each place of the client's thread, the stage of the controller:
  parked, prepared, started, addressed, sending, receiving, ended, with the exact masks of
  each stage. It is needed because what the handler does depends on flags, masks and
  lengths together.
* `DoneHasMoved`: `DoneMeansMoved`. `Moved` adds where each byte is: of the bytes a send
  has taken from the buffer all are on the wire but those in ICTXD and the shift
  register, which are the last ones; a receive has stored all before `buf`, and the
  controller holds the next one exactly while MDR says so.

`SysDmacProofs`, for any number of threads

* `PoolTypes`, `AttachRollsBack`, `ImplementsPool`. `PoolInv`: what the resource manager
  has reserved is exactly what the clients hold (`Reserved`), no two hold the same
  (`Separate`), interrupts belong to attached clients (`IrqsAttached`), and the program
  counter tells what a channel record holds (`Control`). Every step is of one of four
  kinds (takes a channel, takes descriptors, gives everything back, changes nothing that
  is held), and each kind keeps the invariant and maps to a step of `ResourcePool` or a
  stutter.
* `RegistersStayMapped`, `MappingsAreReturned`: `RegistersMapped` and `NothingLeft`, which
  speak of calls that have not overlapped. `LedgerInv`: until then the entries of
  `sysdmac[]` are distinct, each counts the clients that use its block - cardinalities,
  so that the last one to leave is known - and the one client that is inside is where its
  program counter says.

`RcarRpcProofs`

* `ReadsAreRight`: `ReadReturnsFlash` with all time-outs and stale pulses.
  `ReadInv`: only the read that waits (or is failing) lets the receive channel run, and
  what the channel has moved is a prefix of what was asked for.
* `WritesAreRight`, `EventsAcknowledged`: until the first early time-out.
  `OnTime`: the channel that is not waited for is idle, the other runs or has announced
  its end by the only pulse in the queue; the words before `i` are programmed, and those
  the transmit channel has moved are in the controller's buffer.

`SdioProofs`

* `SdioInvariant`, and from it `SdioTypes`, `CommandsAreSerial`, `DeviceIsKept`,
  `AnswersAreOwn`, `CardIsKnown`. `Places` relates the driver thread, the detection
  thread, the device and its usage counter: it is what keeps the two threads out of
  `sdio_issue_cmd` together. `Own` and `Answered` say what an untainted command can find
  in the status, in the interrupt thread's copy of it and in `cs`. `Fresh` and `Known`
  follow a change of the card through status, event, pulse, flags and the copies of the
  flags that the threads have loaded.

`SimSdmmcProofs`

* `SimInvariant`, and from it `SimTypes`, `PartitionIsRight`, `LossIsProtected`,
  `SyncIsDurable`. A request is queued once or in progress (`QueueInv`), the thread is in
  the handler of the request in progress (`HandlerInv`), pulses fit in the channel
  (`PulseInv`), and the driver's record is what the device does unless it was overtaken
  (`RecordInv`).

`SerScifProofs`

* `ControlIsOrdered`: `ControlAsOrdered`. `Orders` lists the points at which the two
  programs of register operations can be and, for each point of `tto()`, which of its
  orders the register shows by then. Whatever the handler writes in between either
  touches only the bits of its own mask or is recorded in `clobbered`.

`StartupRamProofs`, for every memory, set of regions and sequence of requests

* The operations are folds over lists. `FoldExists` shows that a fold has the rounds one
  expects: a function of the number of entries done, each value made from the one before.
  It and the lemmas that unroll each loop (`AbsorbRounds`, `TakenRounds`,
  `CandidateRounds`, `PieceRounds`, `SysramRounds`, `CutRounds`) use induction in the form of
  a set of numbers that has 0 and the successor of each member (`NatSet`), which the
  provers can apply.
* What each operation computes: `AddMem` (the list stays ascending with gaps and gains
  the region), `TakenRight` (it loses exactly the hole), `CandidateRight` (the search
  looks at a part of an entry that meets no avoided range, and at all of it when none
  touches the entry), `FindRam`, `FindTop`, `AvoidRam`, `ContainingRight`, `CutRight`.
* `RamInvariant`, and from it `GrantsStayApart`, `RequestsAreMet` and `ImplementsFreeRam`
  (`Spec => FreeSpec`: what an allocation takes from the lists is what it hands out).
  `GrantsApart` is not inductive. `RamInv` adds that free RAM lies in
  regions that were added (`ListInv`, `AddedInv`), that `avoid_list` covers startup, the
  compressed image and the workspaces behind the image (`AvoidInv`), how far those reach
  (`EarlyInv`), and that the RAM behind the image, once added, is never used up
  (`GrantInv`). The last one answers the hazard at `ram.c:432`: an empty list does not
  mean that no RAM was added yet, but it does mean that the RAM behind the image was not,
  so that the early workspace is still nobody else's.
* `SysInvariant`, and from it `SysramStaysFree`; with `RamInvariant`, `TypeCorrect`.

Only model-checked: all liveness (`RxRestarts`, `TxProgress`, `TransferReturns`,
`OperationReturns`, `RemovalEnds`, `RequestPosted`, `GoesIdle`, `OutputDrains`,
`InputDelivered`, `HandlerRests`), which is out of the prover's reach, and the types of
`RcarRpc`, `I2cRcarA` outside a quiet bus and `SerScif`. Every safety property of a run is
stated by a theorem, those of `I2cRcarA` for a quiet bus, as its run checks them.

## 6. Disagreements between the code and what it says of itself

With a run (`findings` in `PROJECT.json`):

* `ravb_rx_errors` (`receive.c:60`): a descriptor with an error status is skipped and not
  given back, so the DMAC stops at it.

Seen in the models, without a run of their own; the properties in parentheses show them
when they are added to the instance named:

* `ravb.c:443`: `ravb_stop` frees pending transmit buffers and leaves the pointers; the
  next stop frees them again (`NoDoubleFree` under `Spec`, which is why `ravb_life` has
  it as a constraint).
* `rcar-A/intr.c:196`: the STOP after a NACK overwrites the status `NACK|DONE` by `DONE`
  (`DoneMeansMoved` with `Faults = {"nack"}`).
* `rcar_rpc.c:383`: `rpc_write` ignores the failure of `rpc_write_buffer`, which programs
  the half-filled buffer all the same and reports it as written (`WriteReturnsWritten` in
  `rpc_run`).
* `ravb.c:424`: `ravb_stop` clears `IFF_OACTIVE` in `if_flags`, but the driver keeps it
  in `if_flags_tx`; after a restart with a full ring nothing restarts output
  (`OactiveHasWakeup` under `Spec`).
* `ravb.c:454`: the interrupt thread may write `rx_idx` back after `ravb_stop` has reset
  it; driver and DMAC then start at different descriptors.
* `rcar-A/intr.c:174`: a one-byte send without STOP that loses arbitration reports DONE:
  MDE is tested before MAL, and `MDT` is already set when it is enabled.
* `rcar-A/init.c:127`: after a time-out of a live bus (`Late = TRUE`) `force_stop` may do
  nothing, and the handler goes on in a buffer that was given back (`BufferPrivate`).
* `sysdmac.c:401`: two threads that attach channels of one group both find no entry, map
  the block twice and enter it twice; the first release takes a user from both entries
  and unmaps the registers of the other thread (`RegistersMapped` without
  `~raced`).
* `sysdmac.c:484`: `DMA_ATTACH_PRIORITY_STRICT` takes the priority level for a channel
  number, although lower channel numbers have higher priority and `ATLEAST` converts.
* `rcar_rpc.c:136`: a pulse of a transfer that still has units left is not acknowledged,
  and only `rxdma` is aborted: the transmit interrupt stays masked and later writes all
  time out (`AcknowledgedUntilEarly` without its premise).
* `rcar_rpc.c:180`, `315` and `342`: the polls for the end of a command and for a flash that
  is ready have no time-out; a write hangs with the device (`OperationReturns` without its
  premise).
* `sdiodi/base.c:1329` and `1074`: `dev->flags` is changed by `|=` and `&=` of two threads
  while the interrupt thread sets `DEV_FLAG_MEDIA_CHANGE` in it; a change that falls
  between load and store is lost, and a card that was taken out stays attached
  (`NoStaleCard`).
* `sdiodi/hc/rcar.c:433`: `rcar_sdmmc_abort` is empty. The command that timed out stays on
  the bus, and its answer completes the next one (`CompletionIsOwn` without `taint`).
* `sim_sdmmc.c:1162` and the erase paths: a SWITCH that fails is returned without a
  reset, so that `dev->pactive` may name another partition than the device's from then on;
  likewise a cache switch that fails after it took effect (`sim_sdmmc.c:604`), and the
  register write of a devctl (`sim_sdmmc.c:1880`) changes partition or cache behind the
  driver (`RightPartition`, `SyncDurable`, `LossProtects` without `behind`).
* `sim_sdmmc.c:2640`: the result of MsgSendPulse is ignored; with the PM state idle the
  request then waits for the next one (`RequestPosted` without `dropped`).
* `serscif/intr.c` and `tto.c` through `set_port16`: on two processors one side's write of
  SCSCR puts back a bit the other has just changed; receive interrupts may stay off or a
  break go on (`ControlAsOrdered` without `clobbered`).
* `serscif/intr.c:149`: error statuses are cleared only while the receive FIFO has a
  character. An error whose character a FIFO reset in `ser_stty_scif` has discarded
  interrupts again and again until the next character arrives (`HandlerRests` without its
  premise).
* `startup/lib/ram.c:320`: an allocation after `add_sysram` that fits a sysram entry
  exactly stops startup ("Can't remove whole sysram entry"); the state `crashed`.

## 7. Not modelled

`PROJECT.json` lists every part with its reason. In short: code that keeps no state
(tables, command-line tools, register set-up, headers of register addresses, which are
most of the repository's lines), sequential boot code other than the RAM lists, parts
whose partner is a binary outside the repository (PCI server, Screen), and the drivers of
the plan above that have not had their turn. The audio driver was read for this: its
acquire, trigger and release change shared registers under different locks, but what can
go wrong depends on what io-audio serialises, which the repository does not show.

Within the modelled drivers: statistics, logging, cache maintenance, the contents of
frames, `ravb_attach`, PHY access, I2C bus speed and options, DMA descriptor lists, the
set-up and tear-down of the RPC driver, and what section 3 says of each. Three
things visible there without a model: `rpc_read` does not split reads longer than its
8 KB buffer, `rpc_dinit` detaches an interrupt that was never attached, and
`sps26ks_write` still contains a test that erases a sector at 0xa00000. One thing visible in
the serial driver: `error_handling` never looks at the overrun status of an HSCIF
(`intr.c:71`), although it enables the interrupt. Not modelled and
not covered by a property either: the AVB-DMAC clearing TSRQ0 between the test and the
store at `transmit.c:150`, the division by zero for an attach without `ver`
(`sysdmac.c:296`), the 32-bit sum of an erase range (`sim_sdmmc.c:901`), and the missing
test of the size of `avoid_list` (`ram.c:389`).
