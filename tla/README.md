# PeepeeBox: a verification development

PeepeeBox is a fork of 86Box that emulates the funworld PhotoPlay arcade
cabinets: a PC, and around it the parts that make it a cabinet -- the fun.link
bus that joins several cabinets, a modem on COM4, a protection dongle, an I/O
board with coin inputs and meters, a touch screen, a ticket printer.  This
directory models the parts of it whose correctness depends on what happens in
which order, checks them with TLC and proves some of their properties with
TLAPS.

| module | models | kind |
|---|---|---|
| `FunLink`, `MCFunLink` | `src/char/char_funlink.c` over `src/unix/unix_netsocket.c` | state machine of several cabinets and the network; its instances |
| `FunLinkProof` | | theorems about `FunLink` |
| `Modem`, `MCModem` | `src/char/char_modem.c` over the same sockets | state machine of one modem, its DTE and the line; its instances |
| `ModemProof` | | theorems about `Modem` |
| `AlarmClock` | what the timers promise | abstract specification |
| `Timer`, `MCTimer` | `src/timer.c`, `src/include/86box/timer.h` | linked list of timers, shown to implement `AlarmClock` |
| `TimerProof` | | theorems about `Timer` |
| `ByteLine` | what a serial transmitter promises | abstract specification |
| `Uart`, `MCUart` | `src/device/serial.c`, `src/utils/fifo.c` | one 16550 with a character device, its transmitter shown to implement `ByteLine` |
| `UartProof` | | theorems about `Uart` |
| `Pic`, `MCPic` | `src/pic.c` | the two interrupt controllers of an AT, devices and a guest |
| `PicProof` | | theorems about `Pic` |
| `ComPort`, `MCComPort` | `serial_do_irq` between the two, and an interrupt handler | composition of `Uart` and `Pic` |
| `ComPortProof` | | theorems about `ComPort`; carries those of `Uart` and `Pic` to the composition |
| `PacketPipe` | what either direction of a network card promises | abstract specification |
| `NetCard` | `src/network/network.c`, `src/network/net_slirp.c` | two threads, two mutexes, two events; each direction shown to implement `PacketPipe` |
| `NetCardProof` | | theorems about `NetCard` |
| `Induction` | | induction over an interval, used by `FunLinkProof` and `TimerProof` |

Paths in this file are relative to the repository's `src/` directory.

## Inventory

**The emulation thread.**  Everything a cabinet does runs on one thread per
emulator process: the CPU executes a block of instructions, compares the time
stamp counter with `timer_target`, and calls `timer_process`, which calls the
callbacks of the timers that are due (`cpu/386.c:404-416`, `timer.c`).  A guest
instruction that touches an I/O port calls a device in the middle of a block.
The concurrency that matters is therefore between processes (cabinets), between
a process and the network, and the re-entrance of device calls from callbacks.
A network card is the exception: its driver has a thread of its own, and the
user interface changes its link state from a third.

| component | state | operations | interacts with | hard behaviour | what makes it correct |
|---|---|---|---|---|---|
| timer list (`timer.c`) | doubly linked list, `timer_target`, per-timer flags and split period | enable, disable, add, stop, on_auto, process, set_new_tsc, close, init | every device; the CPU loop | callbacks that call back; cached target; long periods cut in parts; hard reset | a timer fires once, when due, in order; none is lost |
| fun.link bus (`char/char_funlink.c`) | `state`, `listener`, `peer[]`, rx ring, tx buffer, retry clock | poll (switch, drain loop, flush), read, write, close/init; 1-Wire token | UART above, TCP below, other cabinets | three threads and a network; peers lost in mid-loop; races for the port | bytes reach every cabinet in order, once; the bus forms again |
| modem (`char/char_modem.c`) | line state, command buffer, out ring, escape count, deadlines, S registers | read (poll, escape, receive), write (command/data byte), control (DTR) | UART above, TCP below, modem sound | the escape sequence across writes, reads and time; aborts in mid-dial; a full ring | data mode is transparent but for two named exceptions; DCD follows CONNECT; calls end |
| 16550 UART (`device/serial.c`) | FIFOs, IIR/LSR/MSR, timers | register reads and writes, receive, transmit and time-out timers | PIC, timers, char devices | interrupt priority, MSR deltas, FIFO time-out, a count that wraps | no byte and no interrupt is lost |
| interrupt controllers (`pic.c`) | IRR, IMR, ISR, priorities, the best request, lines held | raise and lower, mask, acknowledge, EOI, poll, set up | every device; the CPU | cascade, shared levels, a request frozen while it is acknowledged | INT follows the registers; a request stands until it is served |
| network card (`network/network.c`, `network/net_slirp.c`) | three packet queues, mutexes, events, link state | network_tx, the card's timer, the driver's thread, close | card models, the SLiRP stack, the user interface | two threads, a batch in flight, a card that refuses, wake-ups, close in the middle | packets come out once and in order; nobody sleeps on work |
| char layer (`char/*.c`) | attach table | attach, read, write, status | UART, back ends | thin | -- |
| PhotoPlay dongle (`device/dongle_photoplay.c`) | shift registers, command state | LPT data/control writes, status reads | LPT | bit-serial protocol | answers follow the protocol |
| other dongles, funworld I/O, touch screens, CP-80 printer, LPT | small state machines each | port reads and writes, timers | UART or LPT or I/O space, timers | command parsers, report queues, busy handshake | one report per touch; meters count every coin |
| machine identification, configuration, life cycle (`photoplay*.c`, `config.c`, `86box.c`) | configuration | sequential | all | order of close and init on a hard reset | -- |
| PIT, DMA, IDE, keyboard controller, CPU, video, sound, SCSI, floppy, register models of network cards, user interfaces | inherited from 86Box | | | | left out: hardware or host emulation of many thousands of lines that this fork takes over |
| network switch, TAP, VDE and pcap drivers | sockets | the same threads and queues as SLiRP's | | | left out: the concurrency is that of `NetCard`; the rest is host I/O |

`PROJECT.json` lists every component with its status, and the hazards with the
lines where they bite.

## Models

### FunLink

One cabinet is one emulation thread.  `funlink_poll` makes several socket calls;
other cabinets and the network move between them, so it is cut there:

| action | code |
|---|---|
| `Poll*` | the switch on `dev->state`, one action per outcome (held, bind, connect, joined, failed, accept) |
| `DrainHears`, `DrainQuiet`, `DrainClientLost`, `DrainPeerLost` | one iteration of the receive loop at index `at`, with the relay `funlink_send_to_peers` makes |
| `Flush` | the `funlink_flush_tx` that ends the poll |
| `Read`, `Write` | `funlink_read`, `funlink_write` |
| `HoldExpires` | half a second (`CHAR_RECONNECT_MS`) since `next_attempt` |
| `Restart` | `funlink_close` and `funlink_init` on a hard reset |
| `SynRefused`, `SynAnswered`, `Fin`, `Rst`, `Break` | TCP and the network (external) |

`peer` is the table, `at` the loop index (`Out` between polls), `hold` whether a
retry is still too early, `port` and `backlog` what the kernel of each machine
holds.  A byte carries its sender, its number and the connection it left by;
`heard` records what each guest read.  The loop index can run past a table that
a relay has shortened; the slot there holds -1, and below the table lies
`dev->listener`: `DropSlot` and `DrainPeerLost` model what the C code does then.
With four or more dead peers the code goes on to overwrite `last_poll`,
`next_attempt` and `state`; instances keep `MaxPeers` at 3, where only
`listener` is reached.

Left out: the DS1982 1-Wire token that shares the wire, the capture file, DTR
(which the code ignores), and SIGPIPE (a failing send returns an error).

### Modem

`m` is `modem_t`; each function of the source is an operator from device to
device, composed in the order the source calls them, and each char-device hook
(`modem_read`, `modem_write`, `modem_control`) is one action.  Executing a
command line is one call in the source; the model takes a word a step (`busy`),
during which only the line moves, so `CarrierKept` can name commands as a reason.
The ring holds bytes.  `Size` gives the bytes a line of each kind takes, its
framing included; `Out` puts them one by one and drops what finds the ring full,
as `modem_out_byte` does; a word `I` says an information line of any length up to
`Size["INFO"]`, or nothing.  Of a byte the model keeps whether it is text, data
from the carrier or the last of a CONNECT.  A word of a command line stands for
the characters that spell it; `Commands` are the lines the DTE types, and it may
stop in the middle of one.

A byte that is sent may be refused: the code ignores the would-block
(`char_modem.c:918, 928`) and the byte is gone.  The fourth of a run of escape
characters is counted and then sent as well (903-919), so that it goes out twice,
once among those held back and once as itself.  `DataByte` does both.

`wire`, `owed`, `told` and `lost` are history.  `owed` is what the DTE's writes
owe the line since a byte was last refused: each character once, with its place
in a run of escape characters after a guard time, the fourth of a run twice.
`Transparent` compares it with what went out and what is held back: it states
the two exceptions and shows that there is no third.

Times are flags: `due` (deadline), `rung` (answer_at), `guard` (guard time since
`last_data`).  `Paced` restricts the DTE to type commands only after it has read
what it was told.

Left out: S-register writes, the wording of result codes, and modem sound.

### Timer and AlarmClock

`q` is the state of `timer.c` with its pointers (`head`, `next`, `prev`), flags
and cached `target`; each function is an operator from `q` to `q`.  `phase` is
where the thread is: the machine being built (`boot`), the CPU, `timer_process`,
a callback.  Devices are open-ended: from an instruction or a callback they make
any sequence of `timer_set_delay_u64`, `timer_advance_u64` (on the timer whose
callback runs, as `timer.h:87-88` says), `timer_disable`, `timer_on_auto`,
`timer_stop`.  They keep to two rules the code base follows: a timer is added
(`timer_add`) before use and after a hard reset, and `timer_disable` is not used
on a timer in the middle of a split period.  `Perpetual` timers set themselves
again in their callback (the PIT and the RTC do); two of them keep
`timer_remove_head` from following the NULL after the last timer.

`AlarmClock` has three variables: the clock, the alarms that are set with their
deadlines, and the one that rings.  `KeepsTime` says `Timer` implements it: an
alarm rings only when it is the earliest and its time has come; time passes only
while none is overdue; the parts of a split period do not show (the deadline of
a split timer is its time stamp plus the rest of its period).

### Uart and ByteLine

A register is the set of its bits that are 1; a byte is a number, the guest's
from 1 and the character device's after them, `Nul` the 0x00 of an empty FIFO.

| action | code |
|---|---|
| `ReceiveTimer` | `serial_receive_timer`: the far end's lines are sampled, a byte comes from `chardev.read` or the loopback, into the FIFO, past a full one, or into the data register |
| `TransmitTimer` | `serial_transmit_timer` once a bit: count, move to the shift register, send |
| `TimeoutTimer` | `serial_timeout_timer` |
| `WriteThr` ... `WriteMcr`, `ReadRbr` ... `ReadMsr` | the cases of `serial_write` and `serial_read` |

Each ends with `serial_update_ints` where the code has it (`UpdateInts`) and
with `KeepInts` where it has not.  `Careful` makes the guest a driver: it sets
the port up while its interrupts are off and its transmitter is empty
(`SetUp`), and writes THR when there is room.  The runs are about such a guest.
`TypeOK`, `NoSilentByte` and `LineChangeTold` are proved for any; `ReadyIsFresh`,
`IrqAsserted` and the transmitter's refinement need the care (a flush in the
middle of a character sends a 0x00 nobody wrote, which the loopback hands to the
guest).  `got`, `seen` and `stale` are history: what the guest read last of each
numbering, the lines it read last, and whether the receiver was flushed under a
running time-out, which is the one case `ReadyIsFresh` leaves out.

`ByteLine` is a bounded queue; `IsByteLine` says that holding register or FIFO
and shift register together are one, with every byte sent in the end.

Left out: the divisor latch (it scales the timers), break, the factory-test
writes to LSR and MSR, devices that drive the lines themselves, `serial_reset`,
the 8250 and the 16450.

### Pic and ComPort

A chip is a record of its registers; `best` and `frozen` are
`pic_t.interrupt`.  Devices hold a line (`picint_common` with a level and their
`irq_state`) or pulse it; the guest masks, polls, ends and sets up the chips as
a BIOS or DOS does: initialisation words in one go with nothing in service, an
EOI of the innermost handler.  Both acknowledge cycles of the CPU are one step
(`Take`), as nothing runs between them.  `stale` marks the two places where the
code leaves `update_pending` out, a poll that found nothing and ICW2 to ICW4;
`missed` the devices that moved while ICW1 had the master without slaves.

Left out: special mask mode, specific EOIs and set-priority, rotation of
automatic EOIs, 8080 mode, the latches of IRQ 1 and 12, the XT's single chip.

`ComPort` puts the two together.  They meet in `serial_do_irq`: each step of the
port that calls it, and only such a step, moves the line of the controller
(`DoIrq`).  The guest takes the interrupt, reads IIR, serves what it read,
looks again or returns, and sends its EOI at any moment in between.

### NetCard and PacketPipe

| action | code |
|---|---|
| `NetworkTx` | `network_tx` |
| `Timer`, `Retry`, `LockRx`, `Get`, `CardTakes`, `CardBusy` | `network_rx_queue`: link state, the packet kept back, `network_queue_get_swap` under `rx_mutex`, `card->rx` |
| `LockTx`, `Move`, `Moved`, `Notify` | its second half: `network_queue_move` under `tx_mutex`, `notify_in` |
| `Close`, `Joined` | `netcard_close`, `net_slirp_close` |
| `Plug` | `network_connect`, from the user interface |
| `Poll`, `Serve` | `poll` and the events it reports in `net_slirp_thread` |
| `Receive`, `LockRxForPut`, `Put` | `net_slirp_send_packet`: into the queue, or deferred when it answers a packet being sent |
| `LockTxForPop`, `Pop`, `Check`, `Send` | `network_tx_popv`, the link check, `slirp_input` for the batch |
| `Defer`, `LockRxAgain`, `PutAgain` | `net_slirp_rx_deferred_packets` |

A step is what a thread does between two points where the other could see the
difference, so taking a mutex is a step and what is done under it another.  The
rings are sequences (swapping buffers is a copy to the packets' order); an
event is the number of bytes in its pipe, of which a write adds one while there
is room and a read takes one.  `revents` is what `poll` saw, which may be old
when it is used.

`PacketPipe` takes packets with growing numbers, lets the first out, and drops
the oldest while it may.  `TxIsPipe` and `RxIsPipe` say that the way out (batch,
`tx_host`, `tx_vm`) and the way in (the packet kept back, `rx`) implement it.

Left out: the packet dump, lamps and the timer's rate, the Windows form of the
thread, port forwarding, drivers whose init fails, the stack itself (it comes
with packets as it likes).

## Runs

| run | shows | bounds |
|---|---|---|
| `funlink_bus` | `TypeOK`, `StateMatchesSockets`, `TableIsExact`, `HearsInOrder`, `SplitHorizon`, `ListenerStays` | host and two clients, joined at the start; 2 bytes from one guest, one break or restart, 3 connections |
| `funlink_forms` | `BusForms` (liveness) | two AUTO cabinets on one PC, 2 faults |
| `funlink_stuck` | violates `ClientStartsOver` | host and client, 1 byte, 1 fault |
| `funlink_table` | violates `ListenerStays` | host and three clients, 2 faults |
| `modem_call` | `TypeOK`, `LineConsistent`, `CarrierAfterConnect`, `Transparent`, `EscapeMeant`, `CarrierKept`, `CallResolves` | 4 characters of data since a refused one (5 bytes owed when the fourth is doubled), three command lines of up to 4 words, ring of 4 bytes, CONNECT and an information line of 2, 1 byte in flight, a paced DTE |
| `modem_full` | violates `CarrierKept` | a line of two information words and O, ring of 4 bytes, a paced DTE |
| `timer_list` | `TypeOK`, `ListOK`, `TargetNotLate`, `KeepsTime`, `DueIsServed` | 3 timers, delays to 2, periods to 3 in parts of 2, clock to 3 |
| `timer_close` | violates `CloseUnlinks` | the same |
| `uart_port` | `TypeOK`, `ReadyIsFresh`, `NoSilentByte`, `IrqAsserted`, `LineChangeTold`, `IsByteLine`, `ReceiveServed` | FIFOs of 2, triggers 1 and 2, 3 bytes, characters of 2 bits, a count of 4, one modem line, loopback |
| `pic_two` | `TypeOK`, `ServiceMatchesStack`, `IntIsExact`, `LevelFollowsLines`, `RequestStands`, `OnlyTheHighest` | two chips of 3 channels, a pulsing device and two that share a level on the slave, handlers nested to 2 |
| `com_irq` | `EdgeLatched`, `ComesToRest` | FIFOs of 2, 2 bytes, a carrier, one chip at work |
| `net_card` | `TypeOK`, `Exclusive`, `NoLostWakeup`, `TxIsPipe`, `RxIsPipe`, `Settles` | queues of 3 places (2 packets), events of 2 bytes, 3 packets each way, one change of the link |

Why the bounds are enough.  *fun.link*: two clients are the least with a relay;
two bytes the least that can be reordered; one fault reaches every error branch
and, through a restart of the host, the state before any cabinet has joined, so
starting from a formed bus loses nothing.  Three peers and two faults are the
least in which the relay shortens the table below the index.  *modem*: four
characters make an escape, a run of four and an escape behind another character,
and whenever the socket refuses one, four more can follow; a CONNECT of two bytes
can be cut by a full ring; a command line one word longer than its buffer meets
the check of `cmdlen`, and holds an information line before O, as long as fits.
*timers*: three timers give a first, a middle and a last; a period of 3 in parts
of 2 has two parts; delays of 1 and 2 give ties and overtaking.  *UART*: a FIFO
of 2 has a first byte, a full state and an overrun with the third; a count of 4
wraps one past the last tick of a character.  *Interrupt controllers*: three
channels give one above, one below and the cascade between them; two holders
are the least that can share a level.  *Network card*: two packets fill a
queue, the third finds it full, and the way out holds all three in three
places; two bytes in an event are the least that leave one behind.

Each property of a passing run has a seeded fault, an operator next to the
original (`RxPushNoCheck`, `DropSlotNoShift`, ...), under which TLC finds it
violated.

### Fairness

`FunLink!FairSpec`: a running cabinet polls for ever (the UART's receive timer
calls `read` every character time), so its poll, drain and flush actions are
weakly fair; half a second passes; the network answers a SYN and delivers a FIN
or a reset in the end.  `PollHostListens`, `PollListensInstead`, `PollDials` are
strongly fair: `PollTryFails` stands for a bind or connect that fails for now
(a port in TIME_WAIT, no descriptor), not for ever.  `PromptNet` says that a SYN
is answered within the half second, which is what `char_funlink.c:675-677` relies
on.  `Modem!FairSpec`: the port reads for ever and now and then finds the ring
drained, deadlines pass, a command line comes to its end.  `Timer!FairSpec`: the
CPU goes on, `timer_process` goes on, callbacks return.  `Uart!FairSpec`: the bit
timer and the time-out expire; the guest may do nothing.  `ComSpec`: the time-out
expires, the CPU takes interrupts and its handler goes on.  `NetCard!FairSpec`:
both threads go on (the card's timer is periodic, the driver's loop has no other
way out), and a mutex that is free again and again is got (strong fairness: the
other thread holds it for the length of a few moves, and no host starves a
waiter for ever).  The guest need not send nor close; the stack need not answer.

## What the runs found

* `funlink_stuck`: a client that notices a lost listener by sending
  (`funlink_send_to_peers`, `char_funlink.c:581`) drops its only peer and stays a
  client with no peer for ever; the start-over is only in the receive path.
* `funlink_table`: the same function, called inside the receive loop, shortens
  the table below the loop's index; a healthy peer and even the listening socket
  are then forgotten (`char_funlink.c:727`).
* `modem_full`: a full ring hangs up the call (`char_modem.c:964-976`).  The DTE
  need not be careless: an information line is dozens of bytes for two typed
  (`ATI4`), and a line such as `ATI4I4...O`, typed after an escape by a DTE that
  waited for every answer, goes back on line with the ring full.
* `timer_close`: only the first timer's links are cleared (`timer.c:155-159`).

`ListenerStays` holds with two clients (`funlink_bus`) and is violated with
three: that is the boundary of the finding.

Seen while modelling, and not checked by a run of their own:

* Two AUTO cabinets on different machines, pointed at one address, can each end
  up hosting a bus (`char_funlink.c:688`; the header comment at 40-46 has one
  station listen).  `BusForms` is therefore about cabinets on one machine.
* Four escape characters become five (`char_modem.c:903-919`): the fourth is
  counted and sent.  The header comment calls the modem "a transparent pipe"
  (line 73); `Transparent` holds with this as a stated exception, and
  `modem_call` reaches it.
* A character time-out outlives an FCR flush (`serial.c:398`) and reports a byte
  that is not there; without the FIFO nothing the guest reads takes its interrupt
  away.  `ReadyIsFresh` and `ComesToRest` say so with `stale`.
* A flush of the transmit FIFO leaves the move to the shift register due, and
  0x00 is sent (`serial.c:624`).  `SetUp` keeps the guest from it.
* A slave that is set up while the master has its request latched leaves a
  cascade request with nothing behind it.  The comment at `pic.c:929` has the
  slave answer it with a spurious IRQ 15; the code does not mark the slave, and
  the master answers alone, with the vector of IRQ 2 (`TakeFromMaster`).

## Proofs

A theorem named below is proved for every value of the constants that satisfies
the named assumptions of the module, and of every behaviour of its `Spec`.  All
the properties of the passing runs are stated by a theorem but those of liveness.

`ModemProof` proves six properties of `Modem!Spec` under `ModemAssumption`.
`TypeOK`, `LineConsistent` and `CarrierAfterConnect` come from the inductive
invariant `Inv`.  `CarrierAfterConnect` is not inductive: that the DTE has
read CONNECT when the carrier rises follows from the ring being empty then,
which needs to know that until it was read the CONNECT was in the ring.  `Inv`
therefore adds `ConnectPending` (said, not lost and not yet told implies it is
still in the ring) to the device's type, the agreement of its line state
(`LineOK`) and the property itself (`ConnectRead`).  The proof has one lemma for
each function of the source, stating that it preserves `Inv` or what its callers
need of it, one for each group of actions, and `InvHolds` that combines them.
`TransparentPipe` proves `Transparent` for calls of any length, any runs of
escape characters and any pattern of refused sends, from the invariant `Pipe`:
what went into the line is the front of what is owed to it, and the rest is the
first characters of a run, as many as the modem counts (`HeldBack`).  No run
shorter than four ends at what went out, so that the modem's count and the place
in the run agree (`NthFacts`).  A step moves a character along this path, leaves
the path alone (`SamePath`) or starts it afresh (`Reset`).  `EscapesMeant` is the
action property `EscapeMeant`, action by action, from the same invariant.

`CarrierLasts` proves `CarrierKept` under two assumptions on the DTE.  `Paced`:
it reads what it was told before it types on.  `ShortLines`: the ring holds the
echo that begins each line it types and an information line for every word of
that line.  With `MODEM_OUT_SIZE` 4096 and information lines of some forty bytes
that is a line of about ninety words; the command buffer takes more
(`MODEM_CMD_SIZE` is 256 characters, and `I4` is two), and `modem_full` shows what
a longer one does.  The invariant `Room` says that while a command line runs the
ring has a place for what its other words can still say.

`NetCardProof` proves of `NetCard!Spec`, for every queue length, event capacity
and number of packets that satisfy `NetCardAssumption`: `TypeOK`, `Exclusive`,
`NoLostWakeup`, and both refinements, `TxIsPipe` and `RxIsPipe`.  The inductive
invariant has three parts.  `TypeInv` is the type, cut into the parts a step
disturbs and strengthened by what each thread knows where it is (the batch
holds the guest's packets until it is sent and the stack's when they are put
again, the event has a byte while `poll` remembers one) and by who holds which
mutex (`Locks`), from which `Exclusive` follows.  `NoLostWakeup` is inductive
with the types.  `Order` says that what waits to be received has numbers above
what the queue took, and that it waits in one place at a time; without it the
numbers `PacketPipe` takes would not be known to grow.  The refinements rest on
four lemmas about sequences (`LeaveFirst`, `AppendLast`, `MoveFirst`,
`DropFirst`) and one lemma for each step that moves a packet; every other step
is a stutter.

`UartProof` proves of `Uart!Spec`, for every FIFO depth, trigger level, character
length, counter width and number of bytes that satisfy `UartAssumption`:
`TypeOK`, `NoSilentByte`, `LineChangeTold` and `IrqAsserted`.  Each of the last
three is inductive once the types are known, so `IInv` is their conjunction with
`TypeInv`, which is `TypeOK` cut into the parts a register access or a timer
disturbs.  `IrqAsserted` needs two facts about steps that do not call
`serial_update_ints`: a byte that moves out of a FIFO which is not empty after it
sets nothing pending that was not (`IrqTransmit`), and a driver that changes FCR
or OUT2 has every interrupt disabled (`IrqFcr`, `IrqMcr`).  For such a driver
`TransmitterImplementsLine` shows that the transmitter implements the initial
state and the steps of `ByteLine`.  It rests on `TxAgrees`: a move is due exactly
while the holding register or FIFO has a byte, a byte in the shift register is
sent before the bit counter comes round to the next move, and LSR says empty only
of what is.  Without the last, `SetUp` would not keep a flush from a byte on its
way; without the second, the move at the first tick would overwrite the shift
register.

`ReadsInOrder` proves `ReadyIsFresh` of a driver's port: nothing is read twice,
out of order or made up.  `RxOrder` says that the bytes in the receive FIFO and
the shift register are new to the guest, in order, and behind what the
transmitter or the device has given; `Numbered`, that in loopback the
transmitter numbers them on.  LSR's data-ready bit and the character time-out are
about a byte that waits, unless `stale` says that the time-out has outlived a
flush.  Without a driver's care a flush in the middle of a character sends a 0x00
nobody wrote, and the loopback would hand it to the guest.

`PicProof` proves of `Pic!Spec`, for any number of channels, any wiring of
devices and any depth of handlers that satisfy `PicAssumption` (the guest cannot
make the cascade level-triggered, as `pic_elcr_write` masks it): `TypeOK`,
`ServiceMatchesStack`, `IntIsExact`, `LevelFollowsLines`, `OnlyTheHighest` and
`RequestStands`.  The inductive invariant adds to the properties that a chip is
frozen only for a poll (`FrozenToPoll`), that what a chip found is still the
highest request above everything in service (`CachesValid`) and that a level
channel counts its holders (`CountsHolders`).  The lemmas the rest stands on are
that ranks are one to one whatever the rotation (`RankInjective`) and that a
rotation keeps the order of the channels in service (`RotationKeepsOrder`).

`ComPortProof` carries these theorems to the composition: `PartsRun` shows that
every step of `ComPort` is a step or a stutter of `Uart` and of `Pic`.  Its own
invariant `Joined` says that an asserted line has its cause named in IIR, that
the slave rests and the master has no other holder than the port, and that an
edge is latched or in service; with it come `EdgesKept` (`EdgeLatched`) and, end
to end, `CauseReachesCpu`: with a driver that sets its port up with interrupts
off, a cause that is pending and enabled in the port asserts the CPU's INT
whenever the CPU is not in the handler.

`TimerProof` proves of `Timer!Spec`, for any number of timers, delays and
periods under the assumptions of `Timer`: `TypeOK`, `ListOK`, `TargetNotLate` and
`KeepsTime`, the refinement of `AlarmClock`.  The list is described by the
existence of a sequence of the enabled timers, in the order of their deadlines,
whose neighbours are each other's `next` and `prev` (`Linked`, `InOrder`,
`Listed`); the function `Chain` that `ListOK` uses walks the links, and
`IntervalInduction` shows that it finds this sequence.  With `Listed` the
invariant has `NothingMissed` (between two looks at the target no timer is
overdue), `PartsLeft` for split periods and `PerpetualOn`: two timers that set
themselves again keep the list from becoming empty, in which case
`timer_remove_head` would follow a NULL.  The refinement maps every step to
setting, cancelling or ringing an alarm or to a stutter (`SetsAlarm`,
`CancelsAlarm`, `RingsAlarm`, `StutterIs`).

`FunLinkProof` proves of `FunLink!Spec`, for any number of cabinets, peers and
connections: `TypeOK` and `SplitHorizon`, from the inductive `Inv`: types,
`Shape` (what a cabinet's state says of its table, a socket is in one place at a
time, a connection that was not answered has no server), only a settled cabinet
is in its receive loop (`DrainsSettled`), and the marks of the bytes on every
wire (`MarkedBytes`).  `StateMatchesSockets`, `TableIsExact` and
`ListenerStays` are proved of the behaviours in which no cabinet has more than
two peers (`[]SmallBus`).  That is no technical restriction: with three, a relay
inside the receive loop can shorten the table below the loop's index, and the
code then forgets a healthy peer or its own listening socket, which
`funlink_table` shows.  `LoopInTable` is where two peers make the difference, and
`SocketsKept` (every socket a cabinet holds is in its table or its listen queue)
is what it saves.

`HearsSafe` proves `HearsInOrder` of every bus, with any number of cabinets,
breaks and resets.  Its invariant `Ordered` follows a byte, which is named by
its sender, its number and the connection its sender sent it by.  Each buffer,
wire and ring is in order by itself (`Sorted`), and between them: what a guest
has read is below what waits in its ring, both are below what comes down to it,
and everything that any cabinet has or that is on its way down anywhere is below
what still goes up to the listener by the same connection (`WiresInOrder`).  A
byte that left its sender has a number that was given out and is below all its
sender still buffers (`Passed`); the one exception, a cabinet's own echo, has no
connection, and the listener's bytes, which have none either, never go down to
the listener itself.  Closing, losing and resetting only ever take bytes away
(`Shrunk`, `Quiet`); sending appends to wires (`Gets`), and hearing moves a
prefix of one wire to the ring and the other wires.

Only model-checked: the liveness properties (`BusForms`, `CallResolves`,
`DueIsServed`, `ReceiveServed`, `ComesToRest`, `Settles`) and with them the
fairness in `IsByteLine`, which are beyond the provers.

## Plan

In the order of what the cabinet depends on most:

1. *Timer.*  Properties for re-arming a long period and for `timer_disable` on a
   split one.
2. *FunLink token.*  The DS1982 on the same wire (`funlink_ow_*`) as a module that
   composes with the byte stream: a token slot is never bus traffic and back.
3. *Dongle and funworld I/O.*  The bit-serial protocols as functions checked
   against a reference; meters and watchdog with `Timer`'s alarms abstracted.
4. *Touch screens and printer.*  The command parser and report queue; the
   busy/ack handshake.

The modules are written so that they can be proved about: constants with named
assumptions, one action per operation, no RECURSIVE operator.
