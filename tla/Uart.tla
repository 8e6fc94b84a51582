-------------------------------- MODULE Uart --------------------------------
(***************************************************************************)
(* The NS16550 of a COM port with a character device behind it             *)
(* (src/device/serial.c, its FIFOs from src/utils/fifo.c).                 *)
(*                                                                         *)
(* Three emulated timers run the port: serial_transmit_timer once a bit,   *)
(* serial_receive_timer once a character, serial_timeout_timer four        *)
(* characters after the last one.  Between any two of them the guest reads *)
(* and writes registers.  Each timer callback and each register access is  *)
(* one action; a register's bits are the set of those that are 1.          *)
(*                                                                         *)
(* Bytes are numbered: 1 .. MaxOut are what the guest writes, in order,    *)
(* the numbers after them what the character device supplies, in order.    *)
(* Nul is the 0x00 of an empty register or FIFO.                           *)
(***************************************************************************)
EXTENDS Integers, Sequences, FiniteSets

CONSTANTS
    Depth,        \* SERIAL_FIFO_SIZE
    Triggers,     \* the receive trigger levels of FCR bits 7-6
    CharBits,     \* the values LCR gives dev->bits
    BaudWrap,     \* baud_cycles is a byte: 256
    IerValues, McrValues,   \* what the guest writes to IER and MCR
    LineStates,   \* what chardev.status reports
    MaxIn, MaxOut, MaxBytes,    \* bounds: bytes from the device, from the
                  \* guest, and both together
    Careful       \* the guest sets the port up as a driver does

Causes == {"LSR", "TIMEOUT", "RECEIVE", "TRANSMIT", "MSR"}
Enables == {"LSI", "RDA", "THRE", "MSI"}
Outputs == {"DTR", "RTS", "OUT1", "OUT2", "LOOP"}
Lines == {"CTS", "DSR", "RI", "DCD"}

ASSUME UartAssumption ==
    /\ Depth \in Nat \ {0}
    /\ Triggers # {} /\ Triggers \subseteq 1 .. Depth
    /\ CharBits \subseteq Nat \ {0}
    /\ BaudWrap \in Nat \ {0} /\ \A b \in CharBits : b + 1 < BaudWrap
    /\ IerValues \subseteq SUBSET Enables
    /\ McrValues \subseteq SUBSET Outputs
    /\ LineStates \subseteq SUBSET Lines
    /\ MaxIn \in Nat /\ MaxOut \in Nat /\ MaxBytes \in Nat
    /\ Careful \in BOOLEAN

VARIABLES
    fifo_enabled, trigger_len, bits,
    rcvr, ready, overrun,        \* rcvr_fifo and its two flags
    dat, out_new,                \* the byte to read, the receive shift register
    timeout,                     \* timeout_timer is on
    xmit, thr, txsr,             \* xmit_fifo, the holding and shift registers
    transmit_enabled, baud_cycles,
    lsr, msr, delta,             \* LSR; MSR conditions; MSR changes
    ier, mctrl, int_status, iir, irq,
    nin, nout, sent,             \* bytes supplied, written; the last one sent
    got, seen, stale
        \* History: the last byte the guest read of each numbering, the MSR
        \* conditions it read last; whether the receiver was flushed while
        \* its character timeout was running or pending.

config == <<fifo_enabled, trigger_len, bits>>
rx == <<rcvr, ready, overrun, dat, out_new, timeout, stale>>
tx == <<xmit, thr, txsr, transmit_enabled, baud_cycles>>
modem == <<msr, delta, mctrl, seen>>
ints == <<ier, int_status, iir, irq>>
world == <<nin, nout, sent, got>>
vars == <<config, rx, tx, lsr, modem, ints, world>>

Nul == 0
None == -1
Byte == 0 .. MaxOut + MaxIn
Source(b) == IF b <= MaxOut THEN "guest" ELSE "device"

TypeOK ==
    /\ fifo_enabled \in BOOLEAN /\ trigger_len \in Triggers \cup {0}
    /\ bits \in CharBits \cup {0}
    /\ rcvr \in Seq(Byte) /\ Len(rcvr) <= Depth
    /\ ready \in BOOLEAN /\ overrun \in BOOLEAN
    /\ dat \in Byte /\ out_new \in Byte \cup {None}
    /\ timeout \in BOOLEAN /\ stale \in BOOLEAN
    /\ xmit \in Seq(Byte) /\ Len(xmit) <= Depth
    /\ thr \in Byte \cup {None} /\ txsr \in Byte \cup {None}
    /\ transmit_enabled \subseteq {"move", "send"}
    /\ baud_cycles \in 0 .. BaudWrap - 1
    /\ lsr \subseteq {"DR", "OE", "THRE", "TEMT"}
    /\ msr \subseteq Lines /\ delta \subseteq Lines /\ seen \subseteq Lines
    /\ mctrl \subseteq Outputs /\ ier \subseteq Enables
    /\ int_status \subseteq Causes /\ iir \in Causes \cup {"NONE"}
    /\ irq \in BOOLEAN
    /\ nin \in 0 .. MaxIn /\ nout \in 0 .. MaxOut /\ sent \in Byte
    /\ got \in [{"guest", "device"} -> Byte]

-----------------------------------------------------------------------------
\* Interrupts.

EnabledBy(c) == CASE c = "LSR" -> "LSI"
                  [] c \in {"TIMEOUT", "RECEIVE"} -> "RDA"
                  [] c = "TRANSMIT" -> "THRE"
                  [] c = "MSR" -> "MSI"
Rank(c) == CASE c = "LSR" -> 1 [] c = "TIMEOUT" -> 2 [] c = "RECEIVE" -> 3
             [] c = "TRANSMIT" -> 4 [] c = "MSR" -> 5

Wanted(status, enable) == {c \in status : EnabledBy(c) \in enable}
Best(wanted) == CHOOSE c \in wanted : \A d \in wanted : Rank(c) <= Rank(d)

\* serial_update_ints, serial_do_irq: IIR and the interrupt line follow what
\* is pending at that moment.
UpdateIntsTo(status, enable, outputs) ==
    LET wanted == Wanted(status, enable) IN
    /\ iir' = IF wanted = {} THEN "NONE" ELSE Best(wanted)
    /\ irq' = (wanted # {} /\ "OUT2" \in outputs)
UpdateInts == UpdateIntsTo(int_status', ier, mctrl)

\* Nothing calls serial_update_ints.
KeepInts == UNCHANGED <<iir, irq>>

Set(s, e, on) == IF on THEN s \cup {e} ELSE s \ {e}

\* serial_xmit_d_empty_evt
EmptyLsr(l, empty, idle) == Set(Set(l, "THRE", empty), "TEMT", empty /\ idle)
EmptyInts(s, empty) == Set(s, "TRANSMIT", empty)

-----------------------------------------------------------------------------
Init ==
    /\ fifo_enabled = FALSE /\ trigger_len = 0 /\ bits = 0
    /\ rcvr = <<>> /\ ready = FALSE /\ overrun = FALSE
    /\ dat = Nul /\ out_new = None /\ timeout = FALSE /\ stale = FALSE
    /\ xmit = <<>> /\ thr = None /\ txsr = None
    /\ transmit_enabled = {} /\ baud_cycles = 0
    /\ lsr = {"THRE", "TEMT"} /\ msr = {} /\ delta = {} /\ mctrl = {}
    /\ ier = {} /\ int_status = {} /\ iir = "NONE" /\ irq = FALSE
    /\ nin = 0 /\ nout = 0 /\ sent = 0
    /\ got = [s \in {"guest", "device"} |-> 0] /\ seen = {}

-----------------------------------------------------------------------------
\* serial_receive_timer.  In loopback what the device supplies is dropped and
\* the shift register holds what the transmitter put there.

\* The MSR bits a change of the conditions from old to new latches: TERI is
\* the trailing edge of RI.
Changes(old, new) == (((old \ new) \cup (new \ old)) \ {"RI"}) \cup ({"RI"} \cap (old \ new))

\* Seeded fault: the latest change replaces those not read yet.
SampleLineForgets ==
    /\ msr' \in LineStates
    /\ delta' = Changes(msr, msr')
    /\ UNCHANGED <<mctrl, seen>>

\* chardev.status: what the far end does with its lines.
SampleLine ==
    /\ msr' \in LineStates
    /\ delta' = delta \cup Changes(msr, msr')
    /\ UNCHANGED <<mctrl, seen>>

\* int_status when the status has been sampled
Sampled == IF delta' = {} THEN int_status ELSE int_status \cup {"MSR"}

NothingReceived(rsr) ==
    /\ rsr = None
    /\ int_status' = Sampled /\ ier' = ier
    /\ IF delta' = {} THEN KeepInts ELSE UpdateInts
    /\ UNCHANGED <<rx, lsr>>

\* fifo_write_evt on a FIFO with room; the timeout starts afresh.
ReceivedToFifo(rsr) ==
    LET filled == Len(rcvr) + 1 >= trigger_len IN
    /\ rsr # None /\ fifo_enabled /\ Len(rcvr) < Depth
    /\ rcvr' = Append(rcvr, rsr)
    /\ lsr' = IF rcvr = <<>> THEN lsr \cup {"DR"} ELSE lsr
    /\ ready' = (ready \/ filled)
    /\ int_status' = (Sampled \ {"TIMEOUT"})
                       \cup (IF filled /\ ~ready THEN {"RECEIVE"} ELSE {})
    /\ out_new' = None /\ timeout' = TRUE /\ stale' = FALSE
    /\ ier' = ier /\ UpdateInts
    /\ UNCHANGED <<overrun, dat>>

\* Seeded fault: a full FIFO takes one more.
ReceivedOverrunKept(rsr) ==
    /\ rsr # None /\ fifo_enabled /\ Len(rcvr) = Depth
    /\ rcvr' = Append(rcvr, rsr)
    /\ lsr' = lsr \cup {"OE"}
    /\ overrun' = TRUE
    /\ int_status' = Sampled \ {"TIMEOUT"}
    /\ out_new' = None /\ timeout' = TRUE /\ stale' = FALSE
    /\ ier' = ier /\ UpdateInts
    /\ UNCHANGED <<ready, dat>>

\* ... and on a full one: the event that sets OE comes once, until a reset.
ReceivedOverrun(rsr) ==
    /\ rsr # None /\ fifo_enabled /\ Len(rcvr) = Depth
    /\ lsr' = IF overrun THEN lsr ELSE lsr \cup {"OE"}
    /\ overrun' = TRUE
    /\ int_status' = Sampled \ {"TIMEOUT"}
    /\ out_new' = None /\ timeout' = TRUE /\ stale' = FALSE
    /\ ier' = ier /\ UpdateInts
    /\ UNCHANGED <<rcvr, ready, dat>>

ReceivedToData(rsr) ==
    /\ rsr # None /\ ~fifo_enabled
    /\ lsr' = lsr \cup {"DR"} \cup (IF "DR" \in lsr THEN {"OE"} ELSE {})
    /\ dat' = rsr /\ out_new' = None
    /\ int_status' = Sampled \cup {"RECEIVE"}
                       \cup (IF "OE" \in lsr' THEN {"LSR"} ELSE {})
    /\ ier' = ier /\ UpdateInts
    /\ UNCHANGED <<rcvr, ready, overrun, timeout, stale>>

\* chardev.read has a byte for the port, or none.
ReceiveTimer ==
    /\ bits > 0
    /\ SampleLine
    /\ \E supplied \in BOOLEAN :
         LET rsr == IF supplied /\ "LOOP" \notin mctrl THEN MaxOut + nin + 1 ELSE out_new IN
         /\ supplied => nin < MaxIn /\ nin + nout < MaxBytes
         /\ nin' = IF supplied THEN nin + 1 ELSE nin
         /\ \/ NothingReceived(rsr)
            \/ ReceivedToFifo(rsr)
            \/ ReceivedOverrun(rsr)
            \/ ReceivedToData(rsr)
    /\ UNCHANGED <<config, tx, nout, sent, got>>

-----------------------------------------------------------------------------
\* serial_transmit_timer.  data_bits is never set, so a byte moves to the
\* shift register on the first tick of a count, and leaves it bits + 1 ticks
\* after.

HoldingEmpty == IF fifo_enabled THEN xmit = <<>> ELSE thr = None

\* serial_process_txsr, serial_transmit
ProcessTxsr ==
    LET b == IF txsr = None THEN Nul ELSE txsr IN
    /\ sent' = b
    /\ out_new' = IF "LOOP" \in mctrl THEN b ELSE out_new
    /\ txsr' = None /\ baud_cycles' = 0
    /\ lsr' = EmptyLsr(lsr, HoldingEmpty, TRUE)
    /\ int_status' = EmptyInts(int_status, HoldingEmpty)
    /\ transmit_enabled' = IF fifo_enabled /\ xmit # <<>>
                            THEN transmit_enabled \cup {"move"}
                            ELSE transmit_enabled \ {"send"}
    /\ ier' = ier /\ UpdateInts
    /\ UNCHANGED <<rcvr, ready, overrun, dat, timeout, stale, xmit, thr>>

\* Seeded fault: the move goes on when the FIFO has run empty.
MoveFromFifoOn ==
    /\ fifo_enabled
    /\ txsr' = IF xmit = <<>> THEN Nul ELSE Head(xmit)
    /\ xmit' = IF xmit = <<>> THEN xmit ELSE Tail(xmit)
    /\ lsr' = Set(lsr, "THRE", "THRE" \in lsr \/ Len(xmit) = 1) \ {"TEMT"}
    /\ int_status' = Set(int_status, "TRANSMIT", "TRANSMIT" \in int_status \/ Len(xmit) = 1)
    /\ transmit_enabled' = {"move", "send"}
    /\ ier' = ier /\ IF xmit' = <<>> THEN UpdateInts ELSE KeepInts
    /\ thr' = thr

\* serial_move_to_txsr: the FIFO gives its oldest byte, 0x00 when it has none.
MoveFromFifo ==
    /\ fifo_enabled
    /\ txsr' = IF xmit = <<>> THEN Nul ELSE Head(xmit)
    /\ xmit' = IF xmit = <<>> THEN xmit ELSE Tail(xmit)
    /\ lsr' = Set(lsr, "THRE", "THRE" \in lsr \/ Len(xmit) = 1) \ {"TEMT"}
    /\ int_status' = Set(int_status, "TRANSMIT", "TRANSMIT" \in int_status \/ Len(xmit) = 1)
    /\ transmit_enabled' = IF xmit' = <<>> THEN {"send"} ELSE {"move", "send"}
    /\ ier' = ier /\ IF xmit' = <<>> THEN UpdateInts ELSE KeepInts
    /\ thr' = thr

MoveFromThr ==
    /\ ~fifo_enabled
    /\ txsr' = IF thr = None THEN Nul ELSE thr
    /\ thr' = None
    /\ lsr' = (lsr \cup {"THRE"}) \ {"TEMT"}
    /\ int_status' = int_status \cup {"TRANSMIT"}
    /\ transmit_enabled' = {"send"}
    /\ ier' = ier /\ UpdateInts
    /\ xmit' = xmit

TransmitTimer ==
    LET tick == (baud_cycles + 1) % BaudWrap
        sends == tick = bits + 1 /\ "send" \in transmit_enabled
        moves == tick = 1 /\ "move" \in transmit_enabled
    IN
    /\ transmit_enabled # {}
    /\ \/ sends /\ ProcessTxsr
       \/ /\ ~sends /\ moves
          /\ baud_cycles' = tick
          /\ MoveFromFifo \/ MoveFromThr
          /\ UNCHANGED <<rx, sent>>
       \/ /\ ~sends /\ ~moves
          /\ baud_cycles' = tick
          /\ UNCHANGED <<rx, xmit, thr, txsr, transmit_enabled, lsr, ints, sent>>
    /\ UNCHANGED <<config, modem, nin, nout, got>>

\* Seeded fault: the timeout sets its bits and leaves it at that.
TimeoutTimerQuiet ==
    /\ timeout
    /\ timeout' = FALSE
    /\ lsr' = lsr \cup {"DR"}
    /\ int_status' = int_status \cup {"TIMEOUT"}
    /\ ier' = ier /\ KeepInts
    /\ UNCHANGED <<config, tx, modem, world, rcvr, ready, overrun, dat, out_new, stale>>

\* serial_timeout_timer
TimeoutTimer ==
    /\ timeout
    /\ timeout' = FALSE
    /\ lsr' = lsr \cup {"DR"}
    /\ int_status' = int_status \cup {"TIMEOUT"}
    /\ ier' = ier /\ UpdateInts
    /\ UNCHANGED <<config, tx, modem, world, rcvr, ready, overrun, dat, out_new, stale>>

-----------------------------------------------------------------------------
\* serial_read and serial_write.

\* A driver sets the port up while its transmitter is empty and its
\* interrupts are off.
SetUp == Careful => "TEMT" \in lsr /\ ier = {}

\* THR.  A full FIFO drops the byte; a driver does not fill it further.
WriteThrFifo ==
    /\ fifo_enabled
    /\ Careful => Len(xmit) < Depth
    /\ IF Len(xmit) < Depth
       THEN /\ xmit' = Append(xmit, nout')
            /\ transmit_enabled' = transmit_enabled \cup {"move"}
            /\ lsr' = IF xmit = <<>> THEN lsr \ {"THRE", "TEMT"} ELSE lsr
            /\ int_status' = IF xmit = <<>> THEN int_status \ {"TRANSMIT"} ELSE int_status
       ELSE UNCHANGED <<xmit, transmit_enabled, lsr, int_status>>
    /\ UNCHANGED <<ier, iir, irq, thr>>

WriteThrPlain ==
    /\ ~fifo_enabled
    /\ Careful => "THRE" \in lsr
    /\ thr' = nout'
    /\ transmit_enabled' = transmit_enabled \cup {"move"}
    /\ lsr' = lsr \ {"THRE", "TEMT"}
    /\ int_status' = int_status \ {"TRANSMIT"}
    /\ ier' = ier /\ UpdateInts
    /\ xmit' = xmit

\* A driver sets the length of a character first: with bits still 0 the shift
\* register is emptied before a byte can move to it.
WriteThr ==
    /\ Careful => bits > 0
    /\ nout < MaxOut /\ nin + nout < MaxBytes
    /\ nout' = nout + 1
    /\ WriteThrFifo \/ WriteThrPlain
    /\ UNCHANGED <<config, rx, modem, txsr, baud_cycles, nin, sent, got>>

\* Seeded fault: IIR is left as it was.
WriteIerQuiet ==
    /\ ier' \in IerValues
    /\ int_status' = Set(int_status, "TRANSMIT", "TRANSMIT" \in int_status
                                                  \/ ("THRE" \in ier' /\ "THRE" \in lsr))
    /\ KeepInts
    /\ UNCHANGED <<config, rx, tx, lsr, modem, world>>

WriteIer ==
    /\ ier' \in IerValues
    /\ int_status' = Set(int_status, "TRANSMIT", "TRANSMIT" \in int_status
                                                  \/ ("THRE" \in ier' /\ "THRE" \in lsr))
    /\ UpdateIntsTo(int_status', ier', mctrl)
    /\ UNCHANGED <<config, rx, tx, lsr, modem, world>>

\* FCR: a change of bit 0 resets both FIFOs, bits 1 and 2 reset one.  What a
\* reset sets pending for the transmitter is not yet in IIR.
WriteFcr ==
    \E enable, clearRx, clearTx \in BOOLEAN :
      LET toggled == enable # fifo_enabled
          flushRx == toggled \/ (enable /\ clearRx)
          flushTx == toggled \/ (enable /\ clearTx)
          empty == fifo_enabled \/ thr = None
          lsr1 == IF toggled THEN EmptyLsr(lsr, empty, txsr = None) ELSE lsr
          lsr2 == IF flushRx THEN lsr1 \ {"DR", "OE"} ELSE lsr1
          int1 == IF toggled THEN EmptyInts(int_status, empty) ELSE int_status
          int2 == IF flushRx THEN int1 \ {"RECEIVE"} ELSE int1
      IN
      /\ SetUp
      /\ fifo_enabled' = enable
      /\ rcvr' = IF flushRx THEN <<>> ELSE rcvr
      /\ ready' = (ready /\ ~flushRx)
      /\ overrun' = (overrun /\ ~flushRx)
      /\ stale' = IF flushRx THEN timeout \/ "TIMEOUT" \in int_status ELSE stale
      /\ xmit' = IF flushTx THEN <<>> ELSE xmit
      /\ lsr' = IF enable /\ clearTx THEN EmptyLsr(lsr2, TRUE, txsr = None) ELSE lsr2
      /\ int_status' = IF enable /\ clearTx THEN int2 \cup {"TRANSMIT"} ELSE int2
      /\ ier' = ier /\ IF flushRx THEN UpdateIntsTo(int2, ier, mctrl) ELSE KeepInts
      /\ IF enable THEN trigger_len' \in Triggers /\ out_new' = None
                   ELSE UNCHANGED <<trigger_len, out_new>>
      /\ UNCHANGED <<bits, dat, timeout, thr, txsr, transmit_enabled, baud_cycles, modem, world>>

\* LCR: the length of a character.
WriteLcr ==
    /\ SetUp
    /\ bits' \in CharBits \ {bits}
    /\ UNCHANGED <<fifo_enabled, trigger_len, rx, tx, lsr, modem, ints, world>>

\* MCR.  In loopback the outputs drive the modem status; without it the
\* status is msr_set, which a character device never sets.
LoopedTo(o) == CASE o = "RTS" -> "CTS" [] o = "DTR" -> "DSR"
                 [] o = "OUT1" -> "RI" [] o = "OUT2" -> "DCD"
LoopLines(m) == {LoopedTo(o) : o \in m \ {"LOOP"}}

WriteMcr ==
    /\ mctrl' \in McrValues \ {mctrl}
    /\ (mctrl' \cap {"OUT2", "LOOP"} # mctrl \cap {"OUT2", "LOOP"}) => SetUp
    /\ msr' = CASE "LOOP" \in mctrl' -> LoopLines(mctrl')
                [] "LOOP" \notin mctrl' /\ "LOOP" \in mctrl -> {}
                [] OTHER -> msr
    /\ delta' = delta \cup Changes(msr, msr')
    /\ ier' = ier
    /\ IF "LOOP" \in mctrl \cup mctrl' /\ delta' # {}
       THEN int_status' = int_status \cup {"MSR"} /\ UpdateIntsTo(int_status', ier, mctrl')
       ELSE /\ irq' = (irq /\ ~("OUT2" \in mctrl /\ "OUT2" \notin mctrl'))
            /\ UNCHANGED <<int_status, iir>>
    /\ UNCHANGED <<config, rx, tx, lsr, world, seen>>

\* RBR.  What a read of the data register returns:
ReadValue == CASE ~fifo_enabled -> dat
               [] fifo_enabled /\ rcvr = <<>> -> Nul
               [] OTHER -> Head(rcvr)

\* Seeded fault: DR outlives the last byte.
ReadRbrFifoStays ==
    LET below == Len(rcvr) <= trigger_len IN
    /\ fifo_enabled
    /\ rcvr' = IF rcvr = <<>> THEN rcvr ELSE Tail(rcvr)
    /\ ready' = (ready /\ ~(rcvr # <<>> /\ below))
    /\ lsr' = lsr
    /\ int_status' = int_status \ ({"TIMEOUT"} \cup
                        (IF rcvr # <<>> /\ below /\ ready THEN {"RECEIVE"} ELSE {}))
    /\ timeout' = ("DR" \in lsr')
    /\ stale' = (stale /\ "DR" \in lsr')
    /\ dat' = dat

\* Seeded fault: the timeout is not started again.
ReadRbrFifoOnce ==
    LET below == Len(rcvr) <= trigger_len IN
    /\ fifo_enabled
    /\ rcvr' = IF rcvr = <<>> THEN rcvr ELSE Tail(rcvr)
    /\ ready' = (ready /\ ~(rcvr # <<>> /\ below))
    /\ lsr' = IF Len(rcvr) = 1 THEN lsr \ {"DR"} ELSE lsr
    /\ int_status' = int_status \ ({"TIMEOUT"} \cup
                        (IF rcvr # <<>> /\ below /\ ready THEN {"RECEIVE"} ELSE {}))
    /\ timeout' = FALSE
    /\ stale' = (stale /\ "DR" \in lsr')
    /\ dat' = dat

ReadRbrFifo ==
    LET below == Len(rcvr) <= trigger_len IN
    /\ fifo_enabled
    /\ rcvr' = IF rcvr = <<>> THEN rcvr ELSE Tail(rcvr)
    /\ ready' = (ready /\ ~(rcvr # <<>> /\ below))
    /\ lsr' = IF Len(rcvr) = 1 THEN lsr \ {"DR"} ELSE lsr
    /\ int_status' = int_status \ ({"TIMEOUT"} \cup
                        (IF rcvr # <<>> /\ below /\ ready THEN {"RECEIVE"} ELSE {}))
    /\ timeout' = ("DR" \in lsr')
    /\ stale' = (stale /\ "DR" \in lsr')
    /\ dat' = dat

ReadRbrPlain ==
    /\ ~fifo_enabled
    /\ lsr' = lsr \ {"DR"}
    /\ int_status' = int_status \ {"RECEIVE"}
    /\ UNCHANGED <<rcvr, ready, timeout, stale, dat>>

ReadRbr ==
    /\ ReadRbrFifo \/ ReadRbrPlain
    /\ ier' = ier /\ UpdateInts
    /\ got' = IF "DR" \in lsr THEN [got EXCEPT ![Source(ReadValue)] = ReadValue] ELSE got
    /\ UNCHANGED <<config, overrun, out_new, tx, modem, nin, nout, sent>>

\* IIR: reading the transmitter's cause takes it away.
ReadIir ==
    /\ iir = "TRANSMIT"
    /\ int_status' = int_status \ {"TRANSMIT"}
    /\ ier' = ier /\ UpdateInts
    /\ UNCHANGED <<config, rx, tx, lsr, modem, world>>

ReadLsr ==
    /\ lsr' = lsr \ {"OE"}
    /\ int_status' = int_status \ {"LSR"}
    /\ ier' = ier /\ UpdateInts
    /\ UNCHANGED <<config, rx, tx, modem, world>>

ReadMsr ==
    /\ delta' = {} /\ seen' = msr
    /\ int_status' = int_status \ {"MSR"}
    /\ ier' = ier /\ UpdateInts
    /\ UNCHANGED <<config, rx, tx, lsr, msr, mctrl, world>>

-----------------------------------------------------------------------------
Next ==
    \/ ReceiveTimer \/ TransmitTimer \/ TimeoutTimer
    \/ WriteThr \/ WriteIer \/ WriteFcr \/ WriteLcr \/ WriteMcr
    \/ ReadRbr \/ ReadIir \/ ReadLsr \/ ReadMsr

Spec == Init /\ [][Next]_vars

\* The timers of a port expire; the guest and the far end may do nothing, and
\* a receive timer that finds nothing changes nothing.
FairSpec == Spec /\ WF_vars(TransmitTimer) /\ WF_vars(TimeoutTimer)

-----------------------------------------------------------------------------
\* Properties.

Fresh(b) == b # Nul /\ b > got[Source(b)]
ByteWaiting == IF fifo_enabled THEN rcvr # <<>> ELSE "DR" \in lsr

\* While LSR says a byte is ready there is one, and it is one the guest has
\* not read: nothing is handed over twice, out of order or made up.  A timeout
\* of before a flush breaks this until the next byte (serial_timeout_timer
\* sets DR without a look at the FIFO).
ReadyIsFresh == "DR" \in lsr /\ ~stale => Fresh(ReadValue)

\* A byte that waits is announced: LSR shows it, and the receive or timeout
\* interrupt is pending, or the timer that will make it pending is running.
NoSilentByte ==
    ByteWaiting =>
        /\ "DR" \in lsr
        /\ int_status \cap {"RECEIVE", "TIMEOUT"} # {} \/ (fifo_enabled /\ timeout)

\* An interrupt that is pending and enabled is asserted, whichever register
\* access or timer made it so, for a guest that sets the port up with its
\* interrupts off: a call of serial_update_ints that is missing would hang it.
IrqAsserted ==
    Careful /\ Wanted(int_status, ier) # {} /\ "OUT2" \in mctrl => irq /\ iir # "NONE"

\* A line of the far end that is not as the guest read it last is in the
\* changes the next read will show, and its interrupt is pending.
LineChangeTold ==
    /\ \A l \in Lines \ {"RI"} : (l \in msr) # (l \in seen) => l \in delta
    /\ delta # {} => "MSR" \in int_status

\* The transmitter, holding register or FIFO and shift register, is a queue
\* for a guest that writes when there is room: no tick of the bit timer and
\* no write between two of them loses, repeats or invents a byte.
Pending == (IF txsr = None THEN <<>> ELSE <<txsr>>) \o
           (IF fifo_enabled THEN xmit ELSE IF thr = None THEN <<>> ELSE <<thr>>)
Transmitter == INSTANCE ByteLine WITH
    Capacity <- Depth + 1, queue <- Pending, taken <- nout, sent <- sent
IsByteLine == Transmitter!Spec

\* A byte in the receiver of a guest that waits for its interrupt brings it.
ReceiveServed ==
    (ByteWaiting /\ "RDA" \in ier /\ "OUT2" \in mctrl)
      ~> (irq \/ ~ByteWaiting \/ "RDA" \notin ier \/ "OUT2" \notin mctrl)
=============================================================================
