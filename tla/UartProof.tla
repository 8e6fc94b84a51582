----------------------------- MODULE UartProof ------------------------------
(***************************************************************************)
(* What holds of a serial port for every depth of its FIFOs, every trigger *)
(* level, character length, and whatever the guest and the far end do.     *)
(***************************************************************************)
EXTENDS Uart, TLAPS, SequenceTheorems

-----------------------------------------------------------------------------
(* Interrupts.                                                             *)

\* IIR names a cause that is wanted, and none before it is.
LEMMA BestIsWanted ==
    ASSUME NEW W, W \subseteq Causes, W # {}
    PROVE  Best(W) \in W /\ \A d \in W : Rank(Best(W)) <= Rank(d)
  <1>1. \E c \in W : \A d \in W : Rank(c) <= Rank(d)
    <2>1. CASE "LSR" \in W
      BY <2>1 DEF Rank, Causes
    <2>2. CASE "LSR" \notin W /\ "TIMEOUT" \in W
      BY <2>2 DEF Rank, Causes
    <2>3. CASE "LSR" \notin W /\ "TIMEOUT" \notin W /\ "RECEIVE" \in W
      BY <2>3 DEF Rank, Causes
    <2>4. CASE W \cap {"LSR", "TIMEOUT", "RECEIVE"} = {} /\ "TRANSMIT" \in W
      BY <2>4 DEF Rank, Causes
    <2>5. CASE W = {"MSR"}
      BY <2>5 DEF Rank, Causes
    <2> QED
      BY <2>1, <2>2, <2>3, <2>4, <2>5 DEF Causes
  <1> QED
    BY <1>1 DEF Best

\* A step that ends in serial_update_ints leaves the line as the pending
\* causes have it.
LEMMA UpdatedIrq ==
    ASSUME NEW status, status \subseteq Causes, NEW enable, NEW outputs,
           UpdateIntsTo(status, enable, outputs)
    PROVE  /\ Wanted(status, enable) # {} /\ "OUT2" \in outputs => irq' /\ iir' # "NONE"
           /\ iir' \in Causes \cup {"NONE"} /\ irq' \in BOOLEAN
  <1> DEFINE W == Wanted(status, enable)
  <1>1. W \subseteq Causes
    BY DEF Wanted
  <1>2. W # {} => Best(W) \in Causes /\ Best(W) # "NONE"
    BY <1>1, BestIsWanted DEF Causes
  <1>3. iir' = (IF W = {} THEN "NONE" ELSE Best(W)) /\ irq' = (W # {} /\ "OUT2" \in outputs)
    BY DEF UpdateIntsTo
  <1> HIDE DEF W
  <1>4. irq' \in BOOLEAN /\ (W # {} /\ "OUT2" \in outputs => irq')
    BY <1>3, Zenon
  <1>5. iir' \in Causes \cup {"NONE"} /\ (W # {} => iir' # "NONE")
    BY <1>2, <1>3
  <1> QED
    BY <1>4, <1>5 DEF W

-----------------------------------------------------------------------------
(* Types.                                                                  *)

Config == trigger_len \in Triggers \cup {0} /\ bits \in CharBits \cup {0}
RxType ==
    /\ rcvr \in Seq(Byte) /\ Len(rcvr) <= Depth
    /\ dat \in Byte /\ out_new \in Byte \cup {None}
TxType ==
    /\ xmit \in Seq(Byte) /\ Len(xmit) <= Depth
    /\ thr \in Byte \cup {None} /\ txsr \in Byte \cup {None}
    /\ transmit_enabled \subseteq {"move", "send"}
    /\ baud_cycles \in 0 .. BaudWrap - 1
Registers ==
    /\ lsr \subseteq {"DR", "OE", "THRE", "TEMT"}
    /\ msr \subseteq Lines /\ delta \subseteq Lines /\ seen \subseteq Lines
    /\ mctrl \subseteq Outputs /\ ier \subseteq Enables
    /\ int_status \subseteq Causes
Counts ==
    /\ nin \in 0 .. MaxIn /\ nout \in 0 .. MaxOut /\ sent \in Byte
    /\ got \in [{"guest", "device"} -> Byte]
Flags ==
    /\ fifo_enabled \in BOOLEAN /\ ready \in BOOLEAN /\ overrun \in BOOLEAN
    /\ timeout \in BOOLEAN /\ stale \in BOOLEAN
Line == iir \in Causes \cup {"NONE"} /\ irq \in BOOLEAN

TypeInv == Config /\ RxType /\ TxType /\ Registers /\ Counts /\ Flags /\ Line

LEMMA Sizes ==
    /\ Depth \in Nat /\ Depth > 0 /\ BaudWrap \in Nat /\ BaudWrap > 0 /\ MaxIn \in Nat /\ MaxOut \in Nat
    /\ 0 \in Byte /\ Nul \in Byte /\ Byte \subseteq Nat
  BY UartAssumption DEF Byte, Nul

LEMMA Unpacked == TypeInv <=> TypeOK
  BY Zenon DEF TypeInv, TypeOK, Config, RxType, TxType, Registers, Counts, Flags, Line

\* A step that calls serial_update_ints, and one that does not.
LEMMA LineUpdated ==
    ASSUME NEW status, status \subseteq Causes, NEW enable, NEW outputs,
           UpdateIntsTo(status, enable, outputs)
    PROVE  Line'
  BY UpdatedIrq, Zenon DEF Line

LEMMA LineKept == Line /\ KeepInts => Line'
  BY Zenon DEF Line, KeepInts

LEMMA NothingReceivedType ==
    ASSUME TypeInv, NEW rsr \in Byte \cup {None}, SampleLine, NothingReceived(rsr),
           UNCHANGED <<config, tx, nout, sent, got>>, nin' \in 0 .. MaxIn
    PROVE  TypeInv'
  <1> USE DEF NothingReceived, SampleLine, TypeInv, config, rx, tx, modem, ints, world
  <1>1. Config' /\ TxType' /\ Counts'
    BY DEF Config, TxType, Counts
  <1>2. Flags'
    BY Zenon DEF Flags
  <1>3. Registers'
    BY UartAssumption DEF Registers, Sampled, Changes, Causes, Lines
  <1>4. RxType'
    BY Sizes DEF RxType
  <1>5. Line'
    BY <1>3, LineUpdated, LineKept DEF Registers, UpdateInts
  <1> QED
    BY <1>1, <1>2, <1>3, <1>4, <1>5

LEMMA ReceivedToFifoType ==
    ASSUME TypeInv, NEW rsr \in Byte \cup {None}, SampleLine, ReceivedToFifo(rsr),
           UNCHANGED <<config, tx, nout, sent, got>>, nin' \in 0 .. MaxIn
    PROVE  TypeInv'
  <1> USE DEF ReceivedToFifo, SampleLine, TypeInv, config, rx, tx, modem, ints, world
  <1>1. Config' /\ TxType' /\ Counts'
    BY DEF Config, TxType, Counts
  <1>2. Flags'
    BY Zenon DEF Flags
  <1>3. Registers'
    BY UartAssumption DEF Registers, Sampled, Changes, Causes, Lines
  <1>4. RxType'
    BY Sizes DEF RxType
  <1>5. Line'
    BY <1>3, LineUpdated, LineKept DEF Registers, UpdateInts
  <1> QED
    BY <1>1, <1>2, <1>3, <1>4, <1>5

LEMMA ReceivedOverrunType ==
    ASSUME TypeInv, NEW rsr \in Byte \cup {None}, SampleLine, ReceivedOverrun(rsr),
           UNCHANGED <<config, tx, nout, sent, got>>, nin' \in 0 .. MaxIn
    PROVE  TypeInv'
  <1> USE DEF ReceivedOverrun, SampleLine, TypeInv, config, rx, tx, modem, ints, world
  <1>1. Config' /\ TxType' /\ Counts'
    BY DEF Config, TxType, Counts
  <1>2. Flags'
    BY Zenon DEF Flags
  <1>3. Registers'
    BY UartAssumption DEF Registers, Sampled, Changes, Causes, Lines
  <1>4. RxType'
    BY Sizes DEF RxType
  <1>5. Line'
    BY <1>3, LineUpdated, LineKept DEF Registers, UpdateInts
  <1> QED
    BY <1>1, <1>2, <1>3, <1>4, <1>5

LEMMA ReceivedToDataType ==
    ASSUME TypeInv, NEW rsr \in Byte \cup {None}, SampleLine, ReceivedToData(rsr),
           UNCHANGED <<config, tx, nout, sent, got>>, nin' \in 0 .. MaxIn
    PROVE  TypeInv'
  <1> USE DEF ReceivedToData, SampleLine, TypeInv, config, rx, tx, modem, ints, world
  <1>1. Config' /\ TxType' /\ Counts'
    BY DEF Config, TxType, Counts
  <1>2. Flags'
    BY Zenon DEF Flags
  <1>3. Registers'
    BY UartAssumption DEF Registers, Sampled, Changes, Causes, Lines
  <1>4. RxType'
    BY Sizes DEF RxType
  <1>5. Line'
    BY <1>3, LineUpdated, LineKept DEF Registers, UpdateInts
  <1> QED
    BY <1>1, <1>2, <1>3, <1>4, <1>5

LEMMA ProcessTxsrType ==
    ASSUME TypeInv, ProcessTxsr, UNCHANGED <<config, modem, nin, nout, got>>
    PROVE  TypeInv'
  <1> USE DEF ProcessTxsr, TypeInv, config, rx, tx, modem, ints, world
  <1>1. Config'
    BY DEF Config
  <1>2. Flags'
    BY Zenon DEF Flags
  <1>3. Registers'
    BY DEF Registers, Causes, EmptyLsr, EmptyInts, Set
  <1>4. RxType'
    BY Sizes DEF RxType, TxType
  <1>5. TxType'
    BY Sizes, UartAssumption DEF TxType
  <1>6. Counts'
    BY Sizes DEF Counts, TxType
  <1>7. Line'
    BY <1>3, LineUpdated, LineKept DEF Registers, UpdateInts
  <1> QED
    BY <1>1, <1>2, <1>3, <1>4, <1>5, <1>6, <1>7

LEMMA MoveFromFifoType ==
    ASSUME TypeInv, MoveFromFifo, UNCHANGED <<config, modem, nin, nout, got>>,
           UNCHANGED <<rx, sent>>, baud_cycles' \in 0 .. BaudWrap - 1
    PROVE  TypeInv'
  <1> USE DEF MoveFromFifo, TypeInv, config, rx, tx, modem, ints, world
  <1>1. Config'
    BY DEF Config
  <1>2. Flags'
    BY Zenon DEF Flags
  <1>3. Registers'
    BY DEF Registers, Causes, EmptyLsr, EmptyInts, Set
  <1>4. RxType'
    BY Sizes DEF RxType, TxType
  <1>5. TxType'
    BY Sizes, UartAssumption DEF TxType
  <1>6. Counts'
    BY Sizes DEF Counts, TxType
  <1>7. Line'
    BY <1>3, LineUpdated, LineKept DEF Registers, UpdateInts
  <1> QED
    BY <1>1, <1>2, <1>3, <1>4, <1>5, <1>6, <1>7

LEMMA MoveFromThrType ==
    ASSUME TypeInv, MoveFromThr, UNCHANGED <<config, modem, nin, nout, got>>,
           UNCHANGED <<rx, sent>>, baud_cycles' \in 0 .. BaudWrap - 1
    PROVE  TypeInv'
  <1> USE DEF MoveFromThr, TypeInv, config, rx, tx, modem, ints, world
  <1>1. Config'
    BY DEF Config
  <1>2. Flags'
    BY Zenon DEF Flags
  <1>3. Registers'
    BY DEF Registers, Causes, EmptyLsr, EmptyInts, Set
  <1>4. RxType'
    BY Sizes DEF RxType, TxType
  <1>5. TxType'
    BY Sizes, UartAssumption DEF TxType
  <1>6. Counts'
    BY Sizes DEF Counts, TxType
  <1>7. Line'
    BY <1>3, LineUpdated, LineKept DEF Registers, UpdateInts
  <1> QED
    BY <1>1, <1>2, <1>3, <1>4, <1>5, <1>6, <1>7

LEMMA TimeoutTimerType ==
    ASSUME TypeInv, TimeoutTimer
    PROVE  TypeInv'
  <1> USE DEF TimeoutTimer, TypeInv, config, rx, tx, modem, ints, world
  <1>1. Config' /\ RxType' /\ TxType' /\ Counts'
    BY DEF Config, RxType, TxType, Counts
  <1>2. Flags'
    BY Zenon DEF Flags
  <1>3. Registers'
    BY UartAssumption DEF Registers, Causes, Set, Changes, LoopLines, LoopedTo, Lines, Outputs
  <1>4. Line'
    BY <1>3, LineUpdated, LineKept DEF Registers, UpdateInts
  <1> QED
    BY <1>1, <1>2, <1>3, <1>4

LEMMA WriteIerType ==
    ASSUME TypeInv, WriteIer
    PROVE  TypeInv'
  <1> USE DEF WriteIer, TypeInv, config, rx, tx, modem, ints, world
  <1>1. Config' /\ RxType' /\ TxType' /\ Counts'
    BY DEF Config, RxType, TxType, Counts
  <1>2. Flags'
    BY Zenon DEF Flags
  <1>3. Registers'
    BY UartAssumption DEF Registers, Causes, Set, Changes, LoopLines, LoopedTo, Lines, Outputs
  <1>4. Line'
    BY <1>3, LineUpdated, LineKept DEF Registers, UpdateInts
  <1> QED
    BY <1>1, <1>2, <1>3, <1>4

LEMMA WriteLcrType ==
    ASSUME TypeInv, WriteLcr
    PROVE  TypeInv'
  <1> USE DEF WriteLcr, TypeInv, config, rx, tx, modem, ints, world
  <1>1. Config' /\ RxType' /\ TxType' /\ Counts'
    BY DEF Config, RxType, TxType, Counts
  <1>2. Flags'
    BY Zenon DEF Flags
  <1>3. Registers'
    BY UartAssumption DEF Registers, Causes, Set, Changes, LoopLines, LoopedTo, Lines, Outputs
  <1>4. Line'
    BY Zenon DEF Line
  <1> QED
    BY <1>1, <1>2, <1>3, <1>4

LEMMA WriteMcrType ==
    ASSUME TypeInv, WriteMcr
    PROVE  TypeInv'
  <1> USE DEF WriteMcr, TypeInv, config, rx, tx, modem, ints, world
  <1>1. Config' /\ RxType' /\ TxType' /\ Counts'
    BY DEF Config, RxType, TxType, Counts
  <1>2. Flags'
    BY Zenon DEF Flags
  <1>3. Registers'
    BY UartAssumption DEF Registers, Causes, Set, Changes, LoopLines, LoopedTo, Lines, Outputs
  <1>4. Line'
    <2>1. CASE UpdateIntsTo(int_status', ier, mctrl')
      BY <1>3, <2>1, LineUpdated DEF Registers
    <2>2. CASE iir' = iir /\ irq' = (irq /\ ~("OUT2" \in mctrl /\ "OUT2" \notin mctrl'))
      BY <2>2, Zenon DEF Line
    <2> QED
      BY <2>1, <2>2
  <1> QED
    BY <1>1, <1>2, <1>3, <1>4

LEMMA ReadIirType ==
    ASSUME TypeInv, ReadIir
    PROVE  TypeInv'
  <1> USE DEF ReadIir, TypeInv, config, rx, tx, modem, ints, world
  <1>1. Config' /\ RxType' /\ TxType' /\ Counts'
    BY DEF Config, RxType, TxType, Counts
  <1>2. Flags'
    BY Zenon DEF Flags
  <1>3. Registers'
    BY UartAssumption DEF Registers, Causes, Set, Changes, LoopLines, LoopedTo, Lines, Outputs
  <1>4. Line'
    BY <1>3, LineUpdated, LineKept DEF Registers, UpdateInts
  <1> QED
    BY <1>1, <1>2, <1>3, <1>4

LEMMA ReadLsrType ==
    ASSUME TypeInv, ReadLsr
    PROVE  TypeInv'
  <1> USE DEF ReadLsr, TypeInv, config, rx, tx, modem, ints, world
  <1>1. Config' /\ RxType' /\ TxType' /\ Counts'
    BY DEF Config, RxType, TxType, Counts
  <1>2. Flags'
    BY Zenon DEF Flags
  <1>3. Registers'
    BY UartAssumption DEF Registers, Causes, Set, Changes, LoopLines, LoopedTo, Lines, Outputs
  <1>4. Line'
    BY <1>3, LineUpdated, LineKept DEF Registers, UpdateInts
  <1> QED
    BY <1>1, <1>2, <1>3, <1>4

LEMMA ReadMsrType ==
    ASSUME TypeInv, ReadMsr
    PROVE  TypeInv'
  <1> USE DEF ReadMsr, TypeInv, config, rx, tx, modem, ints, world
  <1>1. Config' /\ RxType' /\ TxType' /\ Counts'
    BY DEF Config, RxType, TxType, Counts
  <1>2. Flags'
    BY Zenon DEF Flags
  <1>3. Registers'
    BY UartAssumption DEF Registers, Causes, Set, Changes, LoopLines, LoopedTo, Lines, Outputs
  <1>4. Line'
    BY <1>3, LineUpdated, LineKept DEF Registers, UpdateInts
  <1> QED
    BY <1>1, <1>2, <1>3, <1>4

LEMMA WriteThrType ==
    ASSUME TypeInv, WriteThr
    PROVE  TypeInv'
  <1> USE DEF WriteThr, WriteThrFifo, WriteThrPlain, TypeInv, config, rx, tx, modem, ints, world
  <1>1. Config'
    BY DEF Config
  <1>2. Flags'
    BY Zenon DEF Flags
  <1>3. Registers'
    BY DEF Registers, Causes, EmptyLsr, EmptyInts, Set
  <1>4. RxType'
    BY Sizes DEF RxType
  <1>5. TxType'
    <2>1. nout' \in Byte
      BY UartAssumption DEF Counts, Byte
    <2>2. CASE WriteThrPlain
      BY <2>1, <2>2 DEF TxType
    <2>3. CASE WriteThrFifo /\ xmit' = xmit
      BY <2>3 DEF TxType
    <2>4. CASE WriteThrFifo /\ Len(xmit) < Depth /\ xmit' = Append(xmit, nout')
      <3>1. Append(xmit, nout') \in Seq(Byte) /\ Len(Append(xmit, nout')) = Len(xmit) + 1
        BY <2>1, AppendProperties DEF TxType
      <3>2. Len(xmit) \in Nat
        BY DEF TxType
      <3>3. /\ thr' = thr /\ txsr' = txsr /\ baud_cycles' = baud_cycles
            /\ transmit_enabled' = transmit_enabled \cup {"move"}
        BY <2>4, Zenon
      <3> HIDE DEF WriteThr, WriteThrFifo, WriteThrPlain
      <3> QED
        BY <2>4, <3>1, <3>2, <3>3, Sizes DEF TxType
    <2> QED
      BY <2>2, <2>3, <2>4
  <1>6. Counts'
    BY Sizes DEF Counts
  <1>7. Line'
    <2>1. CASE WriteThrFifo
      BY <2>1, Zenon DEF Line
    <2>2. CASE WriteThrPlain
      BY <1>3, <2>2, LineUpdated DEF Registers, UpdateInts
    <2> QED
      BY <2>1, <2>2
  <1> QED
    BY <1>1, <1>2, <1>3, <1>4, <1>5, <1>6, <1>7

LEMMA ReadRbrType ==
    ASSUME TypeInv, ReadRbr
    PROVE  TypeInv'
  <1> USE DEF ReadRbr, ReadRbrFifo, ReadRbrPlain, ReadValue, TypeInv, config, rx, tx, modem, ints, world
  <1>1. Config'
    BY DEF Config
  <1>2. Flags'
    <2>1. CASE ReadRbrFifo
      <3>1. ready' \in BOOLEAN
        BY <2>1, Zenon
      <3>2. timeout' = ("DR" \in lsr')
        BY <2>1
      <3>3. stale' \in BOOLEAN
        BY <2>1, Zenon
      <3>4. fifo_enabled' = fifo_enabled /\ overrun' = overrun
        OBVIOUS
      <3> HIDE DEF ReadRbr, ReadRbrFifo, ReadRbrPlain
      <3>5. timeout' \in BOOLEAN
        BY <3>2
      <3> QED
        BY <3>1, <3>3, <3>4, <3>5, Zenon DEF Flags
    <2>2. CASE ReadRbrPlain
      BY <2>2, Zenon DEF Flags
    <2> QED
      BY <2>1, <2>2
  <1>3. Registers'
    BY DEF Registers, Causes, EmptyLsr, EmptyInts, Set
  <1>4. RxType'
    <2>1. CASE rcvr' = rcvr
      BY <2>1 DEF RxType
    <2>2. CASE rcvr # <<>> /\ rcvr' = Tail(rcvr)
      <3>1. Tail(rcvr) \in Seq(Byte) /\ Len(Tail(rcvr)) = Len(rcvr) - 1 /\ Len(rcvr) \in Nat
        BY <2>2, HeadTailProperties DEF RxType
      <3>2. dat' = dat /\ out_new' = out_new
        OBVIOUS
      <3> HIDE DEF ReadRbr, ReadRbrFifo, ReadRbrPlain
      <3> QED
        BY <2>2, <3>1, <3>2, Sizes DEF RxType
    <2> QED
      BY <2>1, <2>2
  <1>5. TxType'
    BY Sizes DEF TxType
  <1>6. Counts'
    <2>1. ReadValue \in Byte
      <3>1. fifo_enabled /\ rcvr # <<>> => Head(rcvr) \in Byte
        BY HeadTailProperties DEF RxType
      <3> HIDE DEF ReadRbr, ReadRbrFifo, ReadRbrPlain
      <3> QED
        BY <3>1, Sizes DEF RxType
    <2>2. got' = got \/ got' = [got EXCEPT ![Source(ReadValue)] = ReadValue]
      OBVIOUS
    <2>3. nin' = nin /\ nout' = nout /\ sent' = sent
      OBVIOUS
    <2> HIDE DEF ReadRbr, ReadRbrFifo, ReadRbrPlain, ReadValue
    <2>4. got' \in [{"guest", "device"} -> Byte]
      BY <2>1, <2>2 DEF Counts
    <2> QED
      BY <2>3, <2>4 DEF Counts
  <1>7. Line'
    BY <1>3, LineUpdated, LineKept DEF Registers, UpdateInts
  <1> QED
    BY <1>1, <1>2, <1>3, <1>4, <1>5, <1>6, <1>7

LEMMA WriteFcrType ==
    ASSUME TypeInv, WriteFcr
    PROVE  TypeInv'
  <1> USE DEF TypeInv, config, rx, tx, modem, ints, world
  <1>1. PICK enable \in BOOLEAN, clearRx \in BOOLEAN, clearTx \in BOOLEAN :
          WriteFcr!(enable, clearRx, clearTx)
    BY Zenon DEF WriteFcr
  <1> DEFINE toggled == enable # fifo_enabled
             flushRx == toggled \/ (enable /\ clearRx)
             empty == fifo_enabled \/ thr = None
             int1 == IF toggled THEN EmptyInts(int_status, empty) ELSE int_status
             int2 == IF flushRx THEN int1 \ {"RECEIVE"} ELSE int1
  <1>2. Config' /\ RxType' /\ TxType' /\ Counts'
    BY <1>1, Sizes, EmptySeq, UartAssumption DEF Config, RxType, TxType, Counts
  <1>3. Flags'
    <2>1. fifo_enabled' = enable /\ timeout' = timeout
      BY <1>1
    <2>2. ready' = (ready /\ ~flushRx) /\ overrun' = (overrun /\ ~flushRx)
      BY <1>1
    <2>3. stale' = IF flushRx THEN timeout \/ "TIMEOUT" \in int_status ELSE stale
      BY <1>1
    <2> HIDE DEF flushRx
    <2> QED
      BY <2>1, <2>2, <2>3, Zenon DEF Flags
  <1>4. int2 \subseteq Causes
    BY DEF Registers, EmptyInts, Set, Causes
  <1>5. Registers'
    BY <1>1, <1>4 DEF Registers, EmptyLsr, Set, Causes
  <1>6. UpdateIntsTo(int2, ier, mctrl) \/ KeepInts
    BY <1>1
  <1>7. Line'
    BY <1>4, <1>6, LineUpdated, LineKept, Zenon
  <1> QED
    BY <1>2, <1>3, <1>5, <1>7

\* What a tick of the receive timer comes to.
LEMMA ReceiveCases ==
    ASSUME TypeInv, ReceiveTimer
    PROVE  /\ SampleLine /\ UNCHANGED <<config, tx, nout, sent, got>> /\ nin' \in 0 .. MaxIn
           /\ \E rsr \in Byte \cup {None} :
                NothingReceived(rsr) \/ ReceivedToFifo(rsr) \/ ReceivedOverrun(rsr) \/ ReceivedToData(rsr)
  <1>1. PICK supplied \in BOOLEAN :
          LET rsr == IF supplied /\ "LOOP" \notin mctrl THEN MaxOut + nin + 1 ELSE out_new IN
          /\ supplied => nin < MaxIn /\ nin + nout < MaxBytes
          /\ nin' = IF supplied THEN nin + 1 ELSE nin
          /\ \/ NothingReceived(rsr)
             \/ ReceivedToFifo(rsr)
             \/ ReceivedOverrun(rsr)
             \/ ReceivedToData(rsr)
    BY Zenon DEF ReceiveTimer
  <1> DEFINE r == IF supplied /\ "LOOP" \notin mctrl THEN MaxOut + nin + 1 ELSE out_new
  <1>2. nin \in 0 .. MaxIn /\ nin' \in 0 .. MaxIn /\ (supplied => nin < MaxIn)
    BY <1>1, Sizes DEF TypeInv, Counts
  <1>3. r \in Byte \cup {None}
    BY <1>2, Sizes DEF TypeInv, RxType, Byte
  <1>4. SampleLine /\ UNCHANGED <<config, tx, nout, sent, got>>
    BY DEF ReceiveTimer
  <1>5. NothingReceived(r) \/ ReceivedToFifo(r) \/ ReceivedOverrun(r) \/ ReceivedToData(r)
    BY <1>1
  <1> HIDE DEF r
  <1> QED
    BY <1>2, <1>3, <1>4, <1>5, Zenon

LEMMA ReceiveTimerType ==
    ASSUME TypeInv, ReceiveTimer
    PROVE  TypeInv'
  BY ReceiveCases, NothingReceivedType, ReceivedToFifoType, ReceivedOverrunType, ReceivedToDataType,
     Zenon

LEMMA TransmitTimerType ==
    ASSUME TypeInv, TransmitTimer
    PROVE  TypeInv'
  <1>1. UNCHANGED <<config, modem, nin, nout, got>>
    BY DEF TransmitTimer
  <1>2. (baud_cycles + 1) % BaudWrap \in 0 .. BaudWrap - 1
    BY Sizes, UartAssumption DEF TypeInv, TxType
  <1>3. \/ ProcessTxsr
        \/ /\ baud_cycles' = (baud_cycles + 1) % BaudWrap
           /\ MoveFromFifo \/ MoveFromThr
           /\ UNCHANGED <<rx, sent>>
        \/ /\ baud_cycles' = (baud_cycles + 1) % BaudWrap
           /\ UNCHANGED <<rx, xmit, thr, txsr, transmit_enabled, lsr, ints, sent>>
    BY Zenon DEF TransmitTimer
  <1>4. CASE UNCHANGED <<rx, xmit, thr, txsr, transmit_enabled, lsr, ints, sent>>
             /\ baud_cycles' = (baud_cycles + 1) % BaudWrap
    <2> USE <1>1, <1>4 DEF TypeInv, config, rx, modem, ints
    <2>1. Config' /\ RxType' /\ Registers' /\ Counts'
      BY DEF Config, RxType, Registers, Counts
    <2>2. TxType'
      BY <1>2 DEF TxType
    <2>3. Flags' /\ Line'
      BY Zenon DEF Flags, Line
    <2> QED
      BY <2>1, <2>2, <2>3
  <1> QED
    BY <1>1, <1>2, <1>3, <1>4, ProcessTxsrType, MoveFromFifoType, MoveFromThrType

LEMMA TypeKept ==
    ASSUME TypeInv, [Next]_vars
    PROVE  TypeInv'
  <1>1. CASE UNCHANGED vars
    <2> USE <1>1 DEF TypeInv, vars, config, rx, tx, modem, ints, world
    <2>1. Config' /\ RxType' /\ TxType' /\ Registers' /\ Counts'
      BY DEF Config, RxType, TxType, Registers, Counts
    <2>2. Flags' /\ Line'
      BY Zenon DEF Flags, Line
    <2> QED
      BY <2>1, <2>2
  <1> QED
    BY <1>1, ReceiveTimerType, TransmitTimerType, TimeoutTimerType, WriteThrType, WriteIerType,
       WriteFcrType, WriteLcrType, WriteMcrType, ReadRbrType, ReadIirType, ReadLsrType,
       ReadMsrType, Zenon DEF Next

LEMMA InitType == Init => TypeInv
  <1> SUFFICES ASSUME Init PROVE TypeInv
    OBVIOUS
  <1>1. Config /\ Registers /\ Counts
    BY Sizes DEF Init, Config, Registers, Counts
  <1>2. RxType /\ TxType
    BY Sizes, EmptySeq DEF Init, RxType, TxType
  <1>3. Flags /\ Line
    BY Zenon DEF Init, Flags, Line
  <1> QED
    BY <1>1, <1>2, <1>3 DEF TypeInv

-----------------------------------------------------------------------------
(* A byte that waits.                                                      *)

LEMMA SilentReceive ==
    ASSUME TypeInv, NoSilentByte, ReceiveTimer
    PROVE  NoSilentByte'
  <1> USE DEF NoSilentByte, ByteWaiting, config, rx
  <1>1. PICK rsr \in Byte \cup {None} :
          NothingReceived(rsr) \/ ReceivedToFifo(rsr) \/ ReceivedOverrun(rsr) \/ ReceivedToData(rsr)
    BY ReceiveCases
  <1>2. fifo_enabled' = fifo_enabled /\ (Sampled = int_status \/ Sampled = int_status \cup {"MSR"})
    BY ReceiveCases DEF Sampled
  <1>3. CASE NothingReceived(rsr)
    BY <1>2, <1>3 DEF NothingReceived
  <1>4. CASE ReceivedToFifo(rsr)
    BY <1>2, <1>4 DEF ReceivedToFifo
  <1>5. CASE ReceivedOverrun(rsr)
    BY <1>2, <1>5 DEF ReceivedOverrun
  <1>6. CASE ReceivedToData(rsr)
    BY <1>2, <1>6 DEF ReceivedToData
  <1> QED
    BY <1>1, <1>3, <1>4, <1>5, <1>6

LEMMA SilentTransmit ==
    ASSUME TypeInv, NoSilentByte, TransmitTimer
    PROVE  NoSilentByte'
  <1> USE DEF NoSilentByte, ByteWaiting, config, rx
  <1>1. fifo_enabled' = fifo_enabled
    BY DEF TransmitTimer
  <1>2. CASE ProcessTxsr
    BY <1>1, <1>2 DEF ProcessTxsr, EmptyLsr, EmptyInts, Set
  <1>3. CASE (MoveFromFifo \/ MoveFromThr) /\ UNCHANGED rx
    BY <1>1, <1>3 DEF MoveFromFifo, MoveFromThr, Set
  <1>4. CASE UNCHANGED <<rx, lsr, ints>>
    BY <1>1, <1>4 DEF ints
  <1>5. \/ ProcessTxsr
        \/ (MoveFromFifo \/ MoveFromThr) /\ UNCHANGED rx
        \/ UNCHANGED <<rx, lsr, ints>>
    BY DEF TransmitTimer
  <1> QED
    BY <1>2, <1>3, <1>4, <1>5

\* Reading the last byte clears DR, reading another starts the time-out.
LEMMA SilentRead ==
    ASSUME TypeInv, NoSilentByte, ReadRbr
    PROVE  NoSilentByte'
  <1> USE DEF NoSilentByte, ByteWaiting
  <1>1. fifo_enabled' = fifo_enabled
    BY DEF ReadRbr, config
  <1>2. CASE ReadRbrPlain
    BY <1>1, <1>2 DEF ReadRbrPlain
  <1>3. CASE ReadRbrFifo
    <2>1. rcvr \in Seq(Byte)
      BY DEF TypeInv, RxType
    <2>2. rcvr' # <<>> => rcvr # <<>> /\ Len(rcvr) # 1
      <3>1. CASE rcvr = <<>>
        BY <1>3, <3>1 DEF ReadRbrFifo
      <3>2. CASE rcvr # <<>>
        <4>1. rcvr' = Tail(rcvr) /\ Tail(rcvr) \in Seq(Byte) /\ Len(Tail(rcvr)) = Len(rcvr) - 1
          BY <1>3, <2>1, <3>2, HeadTailProperties DEF ReadRbrFifo
        <4> QED
          BY <3>2, <4>1, EmptySeq
      <3> QED
        BY <3>1, <3>2
    <2>3. rcvr' # <<>> => lsr' = lsr /\ timeout' = ("DR" \in lsr')
      BY <1>3, <2>2 DEF ReadRbrFifo
    <2> QED
      BY <1>1, <1>3, <2>2, <2>3 DEF ReadRbrFifo
  <1> QED
    BY <1>2, <1>3 DEF ReadRbr

LEMMA SilentFcr ==
    ASSUME TypeInv, NoSilentByte, WriteFcr
    PROVE  NoSilentByte'
  <1> USE DEF NoSilentByte, ByteWaiting
  <1>1. PICK enable \in BOOLEAN, clearRx \in BOOLEAN, clearTx \in BOOLEAN :
          WriteFcr!(enable, clearRx, clearTx)
    BY Zenon DEF WriteFcr
  <1>2. CASE enable # fifo_enabled \/ (enable /\ clearRx)
    <2>1. rcvr' = <<>> /\ "DR" \notin lsr'
      BY <1>1, <1>2 DEF EmptyLsr, Set
    <2> QED
      BY <2>1
  <1>3. CASE ~(enable # fifo_enabled \/ (enable /\ clearRx))
    <2>1. /\ fifo_enabled' = fifo_enabled /\ rcvr' = rcvr /\ timeout' = timeout
          /\ "DR" \in lsr <=> "DR" \in lsr'
          /\ int_status' = int_status \/ int_status' = int_status \cup {"TRANSMIT"}
      BY <1>1, <1>3 DEF EmptyLsr, Set
    <2> QED
      BY <2>1
  <1> QED
    BY <1>2, <1>3

LEMMA SilentKept ==
    ASSUME TypeInv, NoSilentByte, [Next]_vars
    PROVE  NoSilentByte'
  <1> USE DEF NoSilentByte, ByteWaiting, config, rx, tx
  <1>1. CASE TimeoutTimer
    BY <1>1 DEF TimeoutTimer
  <1>2. CASE WriteThr
    BY <1>2 DEF WriteThr, WriteThrFifo, WriteThrPlain
  <1>3. CASE WriteIer \/ WriteLcr
    BY <1>3 DEF WriteIer, WriteLcr, Set, ints
  <1>4. CASE WriteMcr
    BY <1>4 DEF WriteMcr
  <1>5. CASE ReadIir \/ ReadLsr \/ ReadMsr
    BY <1>5 DEF ReadIir, ReadLsr, ReadMsr
  <1>6. CASE UNCHANGED vars
    BY <1>6 DEF vars, ints
  <1> QED
    BY <1>1, <1>2, <1>3, <1>4, <1>5, <1>6, SilentReceive, SilentTransmit, SilentRead, SilentFcr,
       Zenon DEF Next

-----------------------------------------------------------------------------
(* A line of the far end.                                                  *)

LEMMA SampleTold ==
    ASSUME TypeInv, LineChangeTold, SampleLine,
           delta' # {} => "MSR" \in int_status'
    PROVE  LineChangeTold'
  BY DEF LineChangeTold, SampleLine, Changes, TypeInv, Registers

LEMMA TellsKept ==
    ASSUME TypeInv, LineChangeTold, [Next]_vars
    PROVE  LineChangeTold'
  <1> USE DEF LineChangeTold, modem
  <1>1. CASE ReceiveTimer
    <2>1. PICK rsr \in Byte \cup {None} :
            NothingReceived(rsr) \/ ReceivedToFifo(rsr) \/ ReceivedOverrun(rsr) \/ ReceivedToData(rsr)
      BY <1>1, ReceiveCases
    <2>2. delta' # {} => "MSR" \in int_status'
      BY <2>1 DEF NothingReceived, ReceivedToFifo, ReceivedOverrun, ReceivedToData, Sampled
    <2> QED
      BY <1>1, <2>2, ReceiveCases, SampleTold
  <1>2. CASE TransmitTimer
    BY <1>2 DEF TransmitTimer, ProcessTxsr, MoveFromFifo, MoveFromThr, EmptyInts, Set, ints
  <1>3. CASE TimeoutTimer \/ WriteThr \/ WriteIer \/ WriteLcr
    BY <1>3 DEF TimeoutTimer, WriteThr, WriteThrFifo, WriteThrPlain, WriteIer, WriteLcr, Set, ints
  <1>4. CASE WriteFcr
    <2>1. PICK enable \in BOOLEAN, clearRx \in BOOLEAN, clearTx \in BOOLEAN :
            WriteFcr!(enable, clearRx, clearTx)
      BY <1>4, Zenon DEF WriteFcr
    <2>2. ("MSR" \in int_status => "MSR" \in int_status') /\ UNCHANGED modem
      BY <2>1 DEF EmptyInts, Set
    <2> QED
      BY <2>2
  <1>5. CASE WriteMcr
    <2>1. "LOOP" \notin mctrl \cup mctrl' => msr' = msr
      BY <1>5 DEF WriteMcr
    <2>2. delta' # {} => "MSR" \in int_status'
      BY <1>5, <2>1 DEF WriteMcr, Changes
    <2>3. delta' = delta \cup Changes(msr, msr') /\ seen' = seen
      BY <1>5 DEF WriteMcr
    <2> QED
      BY <2>2, <2>3 DEF Changes
  <1>6. CASE ReadRbr \/ ReadIir \/ ReadLsr
    BY <1>6 DEF ReadRbr, ReadRbrFifo, ReadRbrPlain, ReadIir, ReadLsr
  <1>7. CASE ReadMsr
    BY <1>7 DEF ReadMsr
  <1>8. CASE UNCHANGED vars
    BY <1>8 DEF vars, ints
  <1> QED
    BY <1>1, <1>2, <1>3, <1>4, <1>5, <1>6, <1>7, <1>8, Zenon DEF Next

-----------------------------------------------------------------------------
(* The interrupt line.                                                     *)

\* A step that ends in serial_update_ints asserts what it left pending.
LEMMA IrqUpdated ==
    ASSUME TypeInv', UpdateIntsTo(int_status', ier', mctrl')
    PROVE  IrqAsserted'
  BY UpdatedIrq, Zenon DEF IrqAsserted, TypeInv, Registers

LEMMA IrqAfterUpdate ==
    ASSUME TypeInv', UpdateInts, ier' = ier, mctrl' = mctrl
    PROVE  IrqAsserted'
  <1>1. UpdateIntsTo(int_status', ier', mctrl')
    BY DEF UpdateInts
  <1> QED
    BY <1>1, IrqUpdated

\* A step that does not call it must leave nothing new pending and enabled.
LEMMA IrqLeft ==
    ASSUME IrqAsserted, int_status' \subseteq int_status, ier' = ier, mctrl' = mctrl, KeepInts
    PROVE  IrqAsserted'
  BY DEF IrqAsserted, Wanted, KeepInts

\* With every interrupt disabled nothing has to be asserted.
LEMMA IrqOff ==
    ASSUME ier' = {}
    PROVE  IrqAsserted'
  BY DEF IrqAsserted, Wanted

LEMMA IrqReceive ==
    ASSUME TypeInv, TypeInv', IrqAsserted, ReceiveTimer
    PROVE  IrqAsserted'
  <1>1. PICK rsr \in Byte \cup {None} :
          NothingReceived(rsr) \/ ReceivedToFifo(rsr) \/ ReceivedOverrun(rsr) \/ ReceivedToData(rsr)
    BY ReceiveCases
  <1>2. mctrl' = mctrl
    BY ReceiveCases DEF SampleLine
  <1>3. CASE NothingReceived(rsr) /\ delta' = {}
    <2>1. int_status' = int_status /\ ier' = ier /\ KeepInts
      BY <1>3 DEF NothingReceived, Sampled
    <2> QED
      BY <1>2, <2>1, IrqLeft
  <1>4. CASE ~(NothingReceived(rsr) /\ delta' = {})
    <2>1. UpdateInts /\ ier' = ier
      BY <1>1, <1>4 DEF NothingReceived, ReceivedToFifo, ReceivedOverrun, ReceivedToData
    <2> QED
      BY <1>2, <2>1, IrqAfterUpdate
  <1> QED
    BY <1>3, <1>4

\* The FIFO's last byte moves on with an update, an earlier one without; what
\* the earlier one sets pending was pending.
LEMMA IrqTransmit ==
    ASSUME TypeInv, TypeInv', IrqAsserted, TransmitTimer
    PROVE  IrqAsserted'
  <1>1. mctrl' = mctrl
    BY DEF TransmitTimer, modem
  <1>2. CASE ProcessTxsr \/ MoveFromThr
    BY <1>1, <1>2, IrqAfterUpdate DEF ProcessTxsr, MoveFromThr
  <1>3. CASE MoveFromFifo /\ xmit' = <<>>
    BY <1>1, <1>3, IrqAfterUpdate DEF MoveFromFifo
  <1>4. CASE MoveFromFifo /\ xmit' # <<>>
    <2>1. Len(xmit) # 1
      <3>1. SUFFICES ASSUME Len(xmit) = 1 PROVE FALSE
        OBVIOUS
      <3>2. xmit \in Seq(Byte) /\ xmit # <<>>
        <4>1. Len(<<>>) # 1
          BY EmptySeq
        <4> QED
          BY <3>1, <4>1 DEF TypeInv, TxType
      <3>3. Tail(xmit) \in Seq(Byte) /\ Len(Tail(xmit)) = 0
        BY <3>1, <3>2, HeadTailProperties
      <3>4. Tail(xmit) = <<>>
        BY <3>3, EmptySeq
      <3> QED
        BY <1>4, <3>2, <3>4 DEF MoveFromFifo
    <2>2. int_status' = int_status /\ ier' = ier /\ KeepInts
      BY <1>4, <2>1 DEF MoveFromFifo, Set
    <2> QED
      BY <1>1, <2>2, IrqLeft
  <1>5. CASE UNCHANGED ints
    BY <1>1, <1>5, IrqLeft DEF ints, KeepInts
  <1>6. ProcessTxsr \/ MoveFromThr \/ MoveFromFifo \/ UNCHANGED ints
    BY DEF TransmitTimer
  <1> QED
    BY <1>2, <1>3, <1>4, <1>5, <1>6

LEMMA IrqWriteThr ==
    ASSUME TypeInv', IrqAsserted, WriteThr
    PROVE  IrqAsserted'
  <1>1. mctrl' = mctrl
    BY DEF WriteThr, modem
  <1>2. CASE WriteThrFifo
    <2>1. int_status' \subseteq int_status /\ ier' = ier /\ KeepInts
      BY <1>2 DEF WriteThrFifo, KeepInts
    <2> QED
      BY <1>1, <2>1, IrqLeft
  <1>3. CASE WriteThrPlain
    BY <1>1, <1>3, IrqAfterUpdate DEF WriteThrPlain
  <1> QED
    BY <1>2, <1>3 DEF WriteThr

\* A driver switches the line on while it has every interrupt disabled.
LEMMA IrqMcr ==
    ASSUME TypeInv, TypeInv', IrqAsserted, WriteMcr
    PROVE  IrqAsserted'
  <1>1. SUFFICES ASSUME Careful PROVE IrqAsserted'
    BY DEF IrqAsserted
  <1>2. ier' = ier
    BY DEF WriteMcr
  <1>3. CASE mctrl' \cap {"OUT2", "LOOP"} # mctrl \cap {"OUT2", "LOOP"}
    <2>1. ier = {}
      BY <1>1, <1>3 DEF WriteMcr, SetUp
    <2> QED
      BY <1>2, <2>1, IrqOff
  <1>4. CASE mctrl' \cap {"OUT2", "LOOP"} = mctrl \cap {"OUT2", "LOOP"}
    <2>1. "OUT2" \in mctrl' <=> "OUT2" \in mctrl
      BY <1>4
    <2>2. CASE UpdateIntsTo(int_status', ier, mctrl')
      BY <1>2, <2>2, IrqUpdated
    <2>3. CASE /\ irq' = (irq /\ ~("OUT2" \in mctrl /\ "OUT2" \notin mctrl'))
               /\ UNCHANGED <<int_status, iir>>
      BY <1>2, <2>1, <2>3 DEF IrqAsserted, Wanted
    <2> QED
      BY <2>2, <2>3 DEF WriteMcr
  <1> QED
    BY <1>3, <1>4

LEMMA IrqFcr ==
    ASSUME WriteFcr
    PROVE  IrqAsserted'
  <1>1. SetUp /\ ier' = ier
    BY DEF WriteFcr
  <1> QED
    BY <1>1, IrqOff DEF SetUp, IrqAsserted

LEMMA IrqKept ==
    ASSUME TypeInv, TypeInv', IrqAsserted, [Next]_vars
    PROVE  IrqAsserted'
  <1>1. CASE TimeoutTimer
    BY <1>1, IrqAfterUpdate DEF TimeoutTimer, modem
  <1>2. CASE WriteIer
    <2>1. UpdateIntsTo(int_status', ier', mctrl')
      BY <1>2 DEF WriteIer, modem
    <2> QED
      BY <2>1, IrqUpdated
  <1>3. CASE WriteLcr \/ UNCHANGED vars
    BY <1>3, IrqLeft DEF WriteLcr, vars, modem, ints, KeepInts
  <1>4. CASE ReadRbr \/ ReadIir \/ ReadLsr \/ ReadMsr
    <2>1. UpdateInts /\ ier' = ier /\ mctrl' = mctrl
      BY <1>4 DEF ReadRbr, ReadIir, ReadLsr, ReadMsr, modem
    <2> QED
      BY <2>1, IrqAfterUpdate
  <1> QED
    BY <1>1, <1>2, <1>3, <1>4, IrqReceive, IrqTransmit, IrqWriteThr, IrqMcr, IrqFcr, Zenon DEF Next

-----------------------------------------------------------------------------
(* The transmitter of a driver's port.                                     *)

\* Where the transmitter's bytes are and what is due for them: a move is due
\* exactly while the holding register or FIFO has a byte; a byte in the shift
\* register is sent before the counter of bits comes round again; after one is
\* sent the next is moved at once; LSR says empty only of what is.
TxAgrees ==
    Careful =>
      /\ transmit_enabled # {} => bits \in CharBits
      /\ "move" \in transmit_enabled <=> ~HoldingEmpty
      /\ IF fifo_enabled THEN thr = None ELSE xmit = <<>>
      /\ "send" \in transmit_enabled /\ txsr = None
           => baud_cycles = 0 /\ "move" \in transmit_enabled
      /\ txsr # None => "send" \in transmit_enabled /\ baud_cycles \in 1 .. bits
      /\ "TEMT" \in lsr => transmit_enabled = {} /\ txsr = None
      /\ "THRE" \in lsr => "move" \notin transmit_enabled

\* The two steps of the queue the transmitter implements.
Takes ==
    /\ Len(Pending) < Depth + 1
    /\ nout' = nout + 1 /\ Pending' = Append(Pending, nout') /\ sent' = sent
Sends ==
    /\ Pending # <<>>
    /\ sent' = Head(Pending) /\ Pending' = Tail(Pending) /\ nout' = nout
Stutters == UNCHANGED <<Pending, nout, sent>>

LEMMA NoneIsNoByte == None \notin Byte
  BY Sizes DEF None

LEMMA TailEmpty ==
    ASSUME NEW S, NEW s \in Seq(S), s # <<>>
    PROVE  Tail(s) = <<>> <=> Len(s) = 1
  <1>1. Tail(s) \in Seq(S) /\ Len(Tail(s)) = Len(s) - 1 /\ Len(s) \in Nat
    BY HeadTailProperties
  <1>2. Tail(s) = <<>> <=> Len(Tail(s)) = 0
    BY <1>1, EmptySeq
  <1> QED
    BY <1>1, <1>2

\* The tick of a counter that has not come round.
LEMMA Ticks ==
    ASSUME NEW b \in CharBits, NEW c \in 0 .. b
    PROVE  (c + 1) % BaudWrap = c + 1 /\ b \in Nat /\ b > 0
  <1>1. b \in Nat /\ b > 0 /\ b + 1 < BaudWrap /\ BaudWrap \in Nat
    BY UartAssumption
  <1>2. c + 1 \in Nat /\ c + 1 < BaudWrap
    BY <1>1
  <1>3. (c + 1) % BaudWrap = c + 1
    BY <1>1, <1>2
  <1> QED
    BY <1>1, <1>3

\* Sending: the shift register has a byte, the head of the queue.
LEMMA SendStep ==
    ASSUME Careful, TypeInv, TxAgrees, ProcessTxsr, UNCHANGED <<config, modem, nin, nout, got>>,
           "send" \in transmit_enabled, (baud_cycles + 1) % BaudWrap = bits + 1
    PROVE  TxAgrees' /\ Sends
  <1>1. txsr # None
    <2>1. SUFFICES ASSUME txsr = None PROVE FALSE
      OBVIOUS
    <2>2. bits \in CharBits /\ baud_cycles = 0
      BY <2>1 DEF TxAgrees
    <2>3. bits \in Nat /\ bits > 0 /\ 0 \in 0 .. bits
      BY <2>2, UartAssumption
    <2>4. (0 + 1) % BaudWrap = 0 + 1
      BY <2>2, <2>3, Ticks
    <2> QED
      BY <2>2, <2>3, <2>4
  <1>2. /\ fifo_enabled' = fifo_enabled /\ xmit' = xmit /\ thr' = thr /\ bits' = bits
        /\ txsr' = None /\ baud_cycles' = 0 /\ sent' = txsr /\ nout' = nout
    BY <1>1 DEF ProcessTxsr, config
  <1>3. HoldingEmpty' = HoldingEmpty
    BY <1>2 DEF HoldingEmpty
  <1>4. TxAgrees'
    <2>1. "move" \in transmit_enabled' <=> "move" \in transmit_enabled
      BY DEF ProcessTxsr, TxAgrees, HoldingEmpty
    <2>2. "send" \in transmit_enabled' => "move" \in transmit_enabled'
      BY DEF ProcessTxsr
    <2>3. "TEMT" \in lsr' => HoldingEmpty
      BY DEF ProcessTxsr, EmptyLsr, Set
    <2>4. "THRE" \in lsr' => HoldingEmpty
      BY DEF ProcessTxsr, EmptyLsr, Set
    <2>5. transmit_enabled' \subseteq {"move", "send"}
      BY DEF TypeInv, TxType, ProcessTxsr
    <2>6. bits \in CharBits
      BY DEF TxAgrees
    <2> QED
      BY <1>2, <1>3, <2>1, <2>2, <2>3, <2>4, <2>5, <2>6 DEF TxAgrees
  <1>5. Sends
    <2> DEFINE rest == IF fifo_enabled THEN xmit ELSE IF thr = None THEN <<>> ELSE <<thr>>
    <2>1. rest \in Seq(Byte) /\ txsr \in Byte
      BY <1>1, EmptySeq DEF TypeInv, TxType
    <2>2. Pending = <<txsr>> \o rest /\ Pending' = <<>> \o rest
      BY <1>1, <1>2 DEF Pending
    <2> HIDE DEF rest
    <2>3. <<>> \o rest = rest
      BY <2>1
    <2>4. /\ <<txsr>> \o rest # <<>> /\ Head(<<txsr>> \o rest) = txsr
          /\ Tail(<<txsr>> \o rest) = rest
      BY <2>1
    <2> QED
      BY <1>2, <2>2, <2>3, <2>4 DEF Sends
  <1> QED
    BY <1>4, <1>5

\* A byte moves only when the shift register is free.
LEMMA MoveFindsRoom ==
    ASSUME Careful, TypeInv, TxAgrees, "move" \in transmit_enabled,
           (baud_cycles + 1) % BaudWrap = 1
    PROVE  txsr = None /\ bits \in CharBits /\ 1 \in 1 .. bits
  <1>1. bits \in CharBits
    BY DEF TxAgrees
  <1>2. bits \in Nat /\ bits > 0
    BY <1>1, UartAssumption
  <1>3. txsr = None
    <2>1. SUFFICES ASSUME txsr # None PROVE FALSE
      OBVIOUS
    <2>2. baud_cycles \in 1 .. bits
      BY <2>1 DEF TxAgrees
    <2>3. (baud_cycles + 1) % BaudWrap = baud_cycles + 1
      BY <1>1, <1>2, <2>2, Ticks
    <2> QED
      BY <1>2, <2>2, <2>3
  <1> QED
    BY <1>1, <1>2, <1>3

LEMMA MoveFifoStep ==
    ASSUME Careful, TypeInv, TxAgrees, MoveFromFifo, UNCHANGED <<config, modem, nin, nout, got>>,
           UNCHANGED <<rx, sent>>, "move" \in transmit_enabled,
           (baud_cycles + 1) % BaudWrap = 1, baud_cycles' = 1
    PROVE  TxAgrees' /\ Stutters
  <1>1. txsr = None /\ bits \in CharBits /\ 1 \in 1 .. bits
    BY MoveFindsRoom
  <1>2. xmit # <<>> /\ thr = None /\ fifo_enabled
    BY DEF TxAgrees, HoldingEmpty, MoveFromFifo
  <1>3. /\ fifo_enabled' /\ thr' = None /\ bits' = bits /\ nout' = nout /\ sent' = sent
        /\ xmit' = Tail(xmit) /\ txsr' = Head(xmit)
    BY <1>2 DEF MoveFromFifo, config
  <1>4. xmit \in Seq(Byte)
    BY DEF TypeInv, TxType
  <1>5. Head(xmit) \in Byte /\ Tail(xmit) \in Seq(Byte) /\ xmit = <<Head(xmit)>> \o Tail(xmit)
    BY <1>2, <1>4, HeadTailProperties
  <1>6. txsr' # None
    BY <1>3, <1>5, NoneIsNoByte
  <1>7. TxAgrees'
    <2>1. transmit_enabled' = IF xmit' = <<>> THEN {"send"} ELSE {"move", "send"}
      BY DEF MoveFromFifo
    <2>2. HoldingEmpty' = (xmit' = <<>>)
      BY <1>3 DEF HoldingEmpty
    <2>3. "TEMT" \notin lsr'
      BY DEF MoveFromFifo
    <2>4. "THRE" \in lsr' => xmit' = <<>>
      <3>1. "THRE" \notin lsr
        BY DEF TxAgrees
      <3>2. "THRE" \in lsr' => Len(xmit) = 1
        BY <3>1 DEF MoveFromFifo, Set
      <3> QED
        BY <1>2, <1>3, <1>4, <3>2, TailEmpty
    <2> QED
      BY <1>1, <1>3, <1>6, <2>1, <2>2, <2>3, <2>4 DEF TxAgrees
  <1>8. Pending' = Pending
    <2>1. Pending = <<>> \o xmit /\ Pending' = <<Head(xmit)>> \o Tail(xmit)
      BY <1>1, <1>2, <1>3, <1>6 DEF Pending
    <2> QED
      BY <1>4, <1>5, <2>1
  <1> QED
    BY <1>3, <1>7, <1>8 DEF Stutters

LEMMA MoveThrStep ==
    ASSUME Careful, TypeInv, TxAgrees, MoveFromThr, UNCHANGED <<config, modem, nin, nout, got>>,
           UNCHANGED <<rx, sent>>, "move" \in transmit_enabled,
           (baud_cycles + 1) % BaudWrap = 1, baud_cycles' = 1
    PROVE  TxAgrees' /\ Stutters
  <1>1. txsr = None /\ bits \in CharBits /\ 1 \in 1 .. bits
    BY MoveFindsRoom
  <1>2. thr # None /\ xmit = <<>> /\ ~fifo_enabled
    BY DEF TxAgrees, HoldingEmpty, MoveFromThr
  <1>3. /\ ~fifo_enabled' /\ thr' = None /\ bits' = bits /\ nout' = nout /\ sent' = sent
        /\ xmit' = <<>> /\ txsr' = thr /\ transmit_enabled' = {"send"} /\ "TEMT" \notin lsr'
    BY <1>2 DEF MoveFromThr, config
  <1>4. TxAgrees'
    BY <1>1, <1>2, <1>3 DEF TxAgrees, HoldingEmpty
  <1>5. Pending = <<>> \o <<thr>> /\ Pending' = <<thr>> \o <<>>
    BY <1>1, <1>2, <1>3 DEF Pending
  <1>6. <<>> \o <<thr>> = <<thr>> /\ <<thr>> \o <<>> = <<thr>>
    OBVIOUS
  <1> QED
    BY <1>3, <1>4, <1>5, <1>6 DEF Stutters

\* A tick of the bit counter that moves and sends nothing.
LEMMA IdleStep ==
    ASSUME Careful, TypeInv, TxAgrees, UNCHANGED <<config, modem, nin, nout, got>>,
           UNCHANGED <<xmit, thr, txsr, transmit_enabled, lsr, sent>>,
           baud_cycles' = (baud_cycles + 1) % BaudWrap,
           ~((baud_cycles + 1) % BaudWrap = bits + 1 /\ "send" \in transmit_enabled),
           ~((baud_cycles + 1) % BaudWrap = 1 /\ "move" \in transmit_enabled)
    PROVE  TxAgrees' /\ Stutters
  <1>1. fifo_enabled' = fifo_enabled /\ bits' = bits
    BY DEF config
  <1>2. ~("send" \in transmit_enabled /\ txsr = None)
    <2>1. SUFFICES ASSUME "send" \in transmit_enabled, txsr = None PROVE FALSE
      OBVIOUS
    <2>2. bits \in CharBits /\ baud_cycles = 0 /\ "move" \in transmit_enabled
      BY <2>1 DEF TxAgrees
    <2>3. bits \in Nat /\ 0 \in 0 .. bits
      BY <2>2, UartAssumption
    <2>4. (0 + 1) % BaudWrap = 0 + 1
      BY <2>2, <2>3, Ticks
    <2> QED
      BY <2>2, <2>4
  <1>3. txsr # None => baud_cycles' \in 1 .. bits
    <2>1. SUFFICES ASSUME txsr # None PROVE baud_cycles' \in 1 .. bits
      OBVIOUS
    <2>2. bits \in CharBits /\ baud_cycles \in 1 .. bits /\ "send" \in transmit_enabled
      BY <2>1 DEF TxAgrees
    <2>3. bits \in Nat /\ baud_cycles \in 0 .. bits
      BY <2>2, UartAssumption
    <2>4. (baud_cycles + 1) % BaudWrap = baud_cycles + 1
      BY <2>2, <2>3, Ticks
    <2> QED
      BY <2>2, <2>3, <2>4
  <1>4. HoldingEmpty' = HoldingEmpty /\ Pending' = Pending
    BY <1>1 DEF HoldingEmpty, Pending
  <1>5. TxAgrees'
    BY <1>1, <1>2, <1>3, <1>4 DEF TxAgrees
  <1> QED
    BY <1>4, <1>5 DEF Stutters

LEMMA TransmitStep ==
    ASSUME Careful, TypeInv, TxAgrees, TransmitTimer
    PROVE  TxAgrees' /\ (Sends \/ Stutters)
  <1> DEFINE tick == (baud_cycles + 1) % BaudWrap
             sends == tick = bits + 1 /\ "send" \in transmit_enabled
             moves == tick = 1 /\ "move" \in transmit_enabled
  <1>1. UNCHANGED <<config, modem, nin, nout, got>>
    BY DEF TransmitTimer
  <1>2. \/ sends /\ ProcessTxsr
        \/ moves /\ baud_cycles' = tick /\ (MoveFromFifo \/ MoveFromThr) /\ UNCHANGED <<rx, sent>>
        \/ /\ ~sends /\ ~moves /\ baud_cycles' = tick
           /\ UNCHANGED <<xmit, thr, txsr, transmit_enabled, lsr, sent>>
    BY DEF TransmitTimer
  <1>3. CASE sends /\ ProcessTxsr
    BY <1>1, <1>3, SendStep
  <1>4. CASE moves /\ baud_cycles' = tick /\ (MoveFromFifo \/ MoveFromThr) /\ UNCHANGED <<rx, sent>>
    BY <1>1, <1>4, MoveFifoStep, MoveThrStep
  <1>5. CASE /\ ~sends /\ ~moves /\ baud_cycles' = tick
             /\ UNCHANGED <<xmit, thr, txsr, transmit_enabled, lsr, sent>>
    BY <1>1, <1>5, IdleStep
  <1> QED
    BY <1>2, <1>3, <1>4, <1>5

\* Writing a byte: there is room for it behind what is still in the shift
\* register.
LEMMA WriteStep ==
    ASSUME Careful, TypeInv, TxAgrees, WriteThr
    PROVE  TxAgrees' /\ Takes
  <1>1. /\ fifo_enabled' = fifo_enabled /\ bits' = bits /\ txsr' = txsr /\ sent' = sent
        /\ baud_cycles' = baud_cycles /\ nout' = nout + 1
    BY DEF WriteThr, config
  <1>2. bits \in CharBits /\ nout' \in Byte /\ nout' # None
    <2>1. bits > 0
      BY DEF WriteThr
    <2>2. bits \in CharBits
      BY <2>1 DEF TypeInv, Config
    <2>3. nout' \in 0 .. MaxOut
      BY Sizes DEF WriteThr, TypeInv, Counts
    <2>4. nout' \in Byte
      BY <2>3, Sizes DEF Byte
    <2> QED
      BY <2>2, <2>4, NoneIsNoByte
  <1> DEFINE shift == IF txsr = None THEN <<>> ELSE <<txsr>>
  <1>3. shift \in Seq(Byte) /\ Len(shift) <= 1
    BY EmptySeq DEF TypeInv, TxType
  <1>4. CASE WriteThrFifo
    <2>1. /\ Len(xmit) < Depth /\ xmit' = Append(xmit, nout') /\ fifo_enabled /\ thr' = thr
          /\ transmit_enabled' = transmit_enabled \cup {"move"}
          /\ lsr' = IF xmit = <<>> THEN lsr \ {"THRE", "TEMT"} ELSE lsr
      BY <1>4 DEF WriteThrFifo
    <2>2. xmit \in Seq(Byte) /\ Append(xmit, nout') \in Seq(Byte) /\ Append(xmit, nout') # <<>>
      BY <1>2, AppendProperties DEF TypeInv, TxType
    <2>3. ~HoldingEmpty' /\ thr = None
      BY <1>1, <2>1, <2>2 DEF HoldingEmpty, TxAgrees
    <2>4. "THRE" \notin lsr' /\ "TEMT" \notin lsr'
      BY <2>1 DEF TxAgrees, HoldingEmpty
    <2>5. TxAgrees'
      BY <1>1, <1>2, <2>1, <2>3, <2>4 DEF TxAgrees
    <2>6. Pending = shift \o xmit /\ Pending' = shift \o Append(xmit, nout')
      BY <1>1, <2>1 DEF Pending
    <2> HIDE DEF shift
    <2>7. shift \o Append(xmit, nout') = Append(shift \o xmit, nout')
      BY <1>2, <1>3, <2>2
    <2>8. Len(shift \o xmit) < Depth + 1
      BY <1>3, <2>1, <2>2, Sizes
    <2> QED
      BY <1>1, <2>5, <2>6, <2>7, <2>8 DEF Takes
  <1>5. CASE WriteThrPlain
    <2>1. /\ ~fifo_enabled /\ "THRE" \in lsr /\ thr' = nout' /\ xmit' = xmit
          /\ transmit_enabled' = transmit_enabled \cup {"move"}
          /\ lsr' = lsr \ {"THRE", "TEMT"}
      BY <1>5 DEF WriteThrPlain
    <2>2. thr = None /\ xmit = <<>>
      BY <2>1 DEF TxAgrees, HoldingEmpty
    <2>3. ~HoldingEmpty'
      BY <1>1, <1>2, <2>1 DEF HoldingEmpty
    <2>4. TxAgrees'
      BY <1>1, <1>2, <2>1, <2>2, <2>3 DEF TxAgrees
    <2>5. Pending = shift \o <<>> /\ Pending' = shift \o <<nout'>>
      BY <1>1, <1>2, <2>1, <2>2 DEF Pending
    <2> HIDE DEF shift
    <2>6. shift \o <<nout'>> = Append(shift \o <<>>, nout') /\ Len(shift \o <<>>) < Depth + 1
      BY <1>2, <1>3, Sizes
    <2> QED
      BY <1>1, <2>4, <2>5, <2>6 DEF Takes
  <1> QED
    BY <1>4, <1>5 DEF WriteThr

\* A driver changes LCR and FCR when the transmitter is empty, so a flush
\* takes nothing with it.
LEMMA SetUpStep ==
    ASSUME Careful, TypeInv, TxAgrees, WriteLcr \/ WriteFcr
    PROVE  TxAgrees' /\ Stutters
  <1>1. transmit_enabled = {} /\ txsr = None
    <2>1. SetUp
      BY ZenonT(40) DEF WriteLcr, WriteFcr
    <2>2. "TEMT" \in lsr
      BY <2>1 DEF SetUp
    <2> QED
      BY <2>2 DEF TxAgrees
  <1>2. xmit = <<>> /\ thr = None
    BY <1>1 DEF TxAgrees, HoldingEmpty
  <1>3. /\ transmit_enabled' = {} /\ txsr' = None /\ thr' = None /\ xmit' = <<>>
        /\ nout' = nout /\ sent' = sent
    <2>1. CASE WriteLcr
      BY <1>1, <1>2, <2>1 DEF WriteLcr, tx, world
    <2>2. CASE WriteFcr
      BY <1>1, <1>2, <2>2 DEF WriteFcr, world
    <2> QED
      BY <2>1, <2>2
  <1>4. TxAgrees'
    BY <1>3 DEF TxAgrees, HoldingEmpty
  <1>5. Pending = <<>> \o <<>> /\ Pending' = <<>> \o <<>>
    BY <1>1, <1>2, <1>3 DEF Pending
  <1> QED
    BY <1>3, <1>4, <1>5 DEF Stutters

\* What the rest of the port does to the transmitter.
LEMMA OtherStep ==
    ASSUME TxAgrees, UNCHANGED <<config, tx, nout, sent>>,
           lsr' \cap {"THRE", "TEMT"} \subseteq lsr
    PROVE  TxAgrees' /\ Stutters
  BY DEF TxAgrees, Stutters, Pending, HoldingEmpty, config, tx

LEMMA TxStep ==
    ASSUME Careful, TypeInv, TxAgrees, [Next]_vars
    PROVE  TxAgrees' /\ (Takes \/ Sends \/ Stutters)
  <1>1. CASE ReceiveTimer
    <2>1. lsr' \cap {"THRE", "TEMT"} \subseteq lsr
      <3>1. PICK rsr \in Byte \cup {None} :
              NothingReceived(rsr) \/ ReceivedToFifo(rsr) \/ ReceivedOverrun(rsr) \/ ReceivedToData(rsr)
        BY <1>1, ReceiveCases
      <3> QED
        BY <3>1 DEF NothingReceived, ReceivedToFifo, ReceivedOverrun, ReceivedToData
    <2> QED
      BY <1>1, <2>1, ReceiveCases, OtherStep
  <1>2. CASE TimeoutTimer \/ WriteIer \/ WriteMcr
    BY <1>2, OtherStep DEF TimeoutTimer, WriteIer, WriteMcr, world
  <1>3. CASE ReadRbr
    BY <1>3, OtherStep DEF ReadRbr, ReadRbrFifo, ReadRbrPlain
  <1>4. CASE ReadIir \/ ReadLsr \/ ReadMsr \/ UNCHANGED vars
    BY <1>4, OtherStep DEF ReadIir, ReadLsr, ReadMsr, vars, world
  <1> QED
    BY <1>1, <1>2, <1>3, <1>4, TransmitStep, WriteStep, SetUpStep, Zenon DEF Next

-----------------------------------------------------------------------------
(* What the receiver hands over, for a driver's port.                      *)

\* The bytes in the transmitter are numbered on from the last one sent.
Numbered ==
    /\ sent \in Nat /\ sent <= nout /\ Len(Pending) = nout - sent
    /\ \A i \in 1 .. Len(Pending) : Pending[i] = sent + i

LEMMA PendingType == TypeInv => Pending \in Seq(Byte)
  BY EmptySeq DEF TypeInv, TxType, Pending

LEMMA SendsNext ==
    ASSUME TypeInv, Numbered, Sends
    PROVE  Numbered' /\ sent' = sent + 1
  <1>1. Pending \in Seq(Byte) /\ Len(Pending) \in Nat /\ Len(Pending) > 0 /\ nout \in Nat
    BY PendingType, LenProperties, EmptySeq, Sizes DEF Sends, TypeInv, Counts
  <1>2. sent' = sent + 1
    BY <1>1 DEF Sends, Numbered
  <1>3. Len(Pending') = Len(Pending) - 1 /\ \A i \in 1 .. Len(Pending') : Pending'[i] = Pending[i + 1]
    BY <1>1, HeadTailProperties DEF Sends
  <1>4. \A i \in 1 .. Len(Pending') : i + 1 \in 1 .. Len(Pending) /\ Pending'[i] = sent' + i
    BY <1>1, <1>2, <1>3 DEF Numbered
  <1>5. sent \in Nat /\ Len(Pending) = nout - sent /\ nout' = nout
    BY DEF Numbered, Sends
  <1>6. sent' \in Nat /\ sent' <= nout' /\ Len(Pending') = nout' - sent'
    BY <1>1, <1>2, <1>3, <1>5
  <1> QED
    BY <1>2, <1>4, <1>6 DEF Numbered

LEMMA TakesNext ==
    ASSUME TypeInv, TypeInv', Numbered, Takes
    PROVE  Numbered' /\ sent' = sent
  <1>1. Pending \in Seq(Byte) /\ Len(Pending) \in Nat /\ nout' \in Byte /\ nout \in Nat
    BY PendingType, LenProperties, Sizes DEF TypeInv, Counts, Byte
  <1>2. /\ Len(Pending') = Len(Pending) + 1 /\ Pending'[Len(Pending) + 1] = nout'
        /\ \A i \in 1 .. Len(Pending) : Pending'[i] = Pending[i]
    BY <1>1, AppendProperties DEF Takes
  <1>3. nout' = sent + Len(Pending')
    BY <1>1, <1>2 DEF Numbered, Takes
  <1>4. \A i \in 1 .. Len(Pending') : Pending'[i] = sent + i
    BY <1>1, <1>2, <1>3 DEF Numbered
  <1> QED
    BY <1>1, <1>2, <1>3, <1>4 DEF Numbered, Takes

\* A byte that has been sent or supplied; one that comes before another of the
\* same numbering.
Past(b) == IF b <= MaxOut THEN b <= sent ELSE b <= MaxOut + nin
Before(a, b) == Source(a) = Source(b) => a < b

\* What waits in the receiver is new to the guest, in order in the FIFO, and
\* before what the shift register holds; DR or a timeout is about a byte,
\* unless a timeout outlived a flush.
RxOrder ==
    /\ Past(dat) /\ got["guest"] <= sent /\ got["device"] <= MaxOut + nin
    /\ \A i \in 1 .. Len(rcvr) : Fresh(rcvr[i]) /\ Past(rcvr[i])
    /\ \A i, j \in 1 .. Len(rcvr) : i < j => Before(rcvr[i], rcvr[j])
    /\ out_new # None =>
         /\ Fresh(out_new) /\ Past(out_new) /\ Before(dat, out_new)
         /\ \A i \in 1 .. Len(rcvr) : Before(rcvr[i], out_new)
    /\ ~fifo_enabled =>
         /\ rcvr = <<>> /\ (timeout => stale)
         /\ "DR" \in lsr /\ ~stale => Fresh(dat)
    /\ fifo_enabled /\ ~stale /\ (timeout \/ "DR" \in lsr) => rcvr # <<>>

LEMMA PathTypes ==
    ASSUME TypeInv
    PROVE  /\ sent \in Nat /\ nin \in Nat /\ dat \in Nat /\ rcvr \in Seq(Byte) /\ Len(rcvr) \in Nat
           /\ \A i \in 1 .. Len(rcvr) : rcvr[i] \in Nat
           /\ out_new # None => out_new \in Nat
           /\ got \in [{"guest", "device"} -> Nat]
           /\ \A b : Source(b) \in {"guest", "device"}
           /\ MaxOut \in Nat /\ MaxIn \in Nat
  <1>1. MaxOut \in Nat /\ MaxIn \in Nat /\ Byte \subseteq Nat
    BY UartAssumption DEF Byte
  <1>2. rcvr \in Seq(Byte) /\ Len(rcvr) \in Nat /\ \A i \in 1 .. Len(rcvr) : rcvr[i] \in Byte
    BY LenProperties, ElementOfSeq DEF TypeInv, RxType
  <1>3. sent \in Nat /\ nin \in Nat /\ dat \in Nat /\ (out_new # None => out_new \in Nat)
    BY <1>1 DEF TypeInv, RxType, Counts
  <1>4. got \in [{"guest", "device"} -> Nat]
    BY <1>1 DEF TypeInv, Counts
  <1>5. \A b : Source(b) \in {"guest", "device"}
    BY DEF Source
  <1> QED
    BY <1>1, <1>2, <1>3, <1>4, <1>5

LEMMA FarEnough ==
    \A b, m, n, k \in Nat : b <= m + n /\ n <= k => b <= m + k
  OBVIOUS

LEMMA PastKept ==
    ASSUME TypeInv, TypeInv', sent <= sent', nin <= nin'
    PROVE  /\ \A b \in Nat : Past(b) => Past(b)'
           /\ \A b \in Nat : b <= MaxOut + nin => b <= MaxOut + nin'
           /\ \A b \in Nat : b <= sent => b <= sent'
  <1>1. sent \in Nat /\ sent' \in Nat /\ nin \in Nat /\ nin' \in Nat /\ MaxOut \in Nat
    BY Sizes DEF TypeInv, Counts
  <1>2. \A b \in Nat : b <= MaxOut + nin => b <= MaxOut + nin'
    BY <1>1, FarEnough, Zenon
  <1>3. \A b \in Nat : b <= sent => b <= sent'
    BY <1>1
  <1> QED
    BY <1>2, <1>3 DEF Past

\* The steps that leave the receiver's bytes alone.
LEMMA OrderSame ==
    ASSUME TypeInv, TypeInv', RxOrder, UNCHANGED <<fifo_enabled, rcvr, dat, out_new, got, stale>>,
           sent <= sent', nin <= nin', timeout' => timeout \/ rcvr # <<>>,
           "DR" \in lsr' <=> "DR" \in lsr
    PROVE  RxOrder'
  <1>1. \A b \in Nat : Fresh(b) => Fresh(b)'
    BY DEF Fresh
  <1> QED
    BY <1>1, PastKept, PathTypes DEF RxOrder

\* A byte that arrives is behind those that wait.
LEMMA ArrivesLast ==
    ASSUME TypeInv, TypeInv', RxOrder, NEW r, r # None, sent' = sent,
           \/ r = out_new /\ nin <= nin'
           \/ r = MaxOut + nin + 1 /\ nin' = nin + 1
    PROVE  /\ r \in Nat /\ Fresh(r) /\ Past(r)' /\ nin <= nin'
           /\ \A i \in 1 .. Len(rcvr) : Before(rcvr[i], r)
  <1>1. /\ sent \in Nat /\ nin \in Nat /\ MaxOut \in Nat
        /\ \A i \in 1 .. Len(rcvr) : rcvr[i] \in Nat
    BY PathTypes
  <1>2. CASE r = out_new /\ nin <= nin'
    BY <1>2, PastKept, PathTypes DEF RxOrder
  <1>3. CASE r = MaxOut + nin + 1 /\ nin' = nin + 1
    <2>1. r \in Nat /\ ~(r <= MaxOut) /\ r # Nul /\ r > MaxOut + nin
      BY <1>1, <1>3 DEF Nul
    <2>2. Source(r) = "device"
      BY <2>1 DEF Source
    <2>3. Fresh(r)
      BY <1>1, <2>1, <2>2, PathTypes DEF Fresh, RxOrder
    <2>4. r <= MaxOut + nin'
      <3>1. r <= MaxOut + (nin + 1)
        BY <1>1, <1>3
      <3> QED
        BY <1>3, <3>1, Zenon
    <2>5. Past(r)'
      BY <2>1, <2>4 DEF Past
    <2>6. ASSUME NEW i \in 1 .. Len(rcvr), Source(rcvr[i]) = Source(r) PROVE rcvr[i] < r
      <3>1. ~(rcvr[i] <= MaxOut)
        BY <2>2, <2>6 DEF Source
      <3>2. rcvr[i] <= MaxOut + nin
        BY <3>1 DEF RxOrder, Past
      <3> QED
        BY <1>1, <2>1, <3>2
    <2>7. nin <= nin'
      BY <1>1, <1>3
    <2> QED
      BY <2>1, <2>3, <2>5, <2>6, <2>7 DEF Before
  <1> QED
    BY <1>2, <1>3

LEMMA OrderReceive ==
    ASSUME TypeInv, TypeInv', RxOrder, ReceiveTimer
    PROVE  RxOrder'
  <1>1. PICK supplied \in BOOLEAN :
          LET rsr == IF supplied /\ "LOOP" \notin mctrl THEN MaxOut + nin + 1 ELSE out_new IN
          /\ supplied => nin < MaxIn /\ nin + nout < MaxBytes
          /\ nin' = IF supplied THEN nin + 1 ELSE nin
          /\ \/ NothingReceived(rsr)
             \/ ReceivedToFifo(rsr)
             \/ ReceivedOverrun(rsr)
             \/ ReceivedToData(rsr)
    BY Zenon DEF ReceiveTimer
  <1> DEFINE rsr == IF supplied /\ "LOOP" \notin mctrl THEN MaxOut + nin + 1 ELSE out_new
  <1>r. PICK r : r = rsr
    OBVIOUS
  <1>2. \/ r = out_new /\ nin <= nin'
        \/ r = MaxOut + nin + 1 /\ nin' = nin + 1
    BY <1>1, <1>r, PathTypes
  <1>3. /\ fifo_enabled' = fifo_enabled /\ sent' = sent /\ got' = got /\ nin <= nin'
        /\ sent \in Nat /\ nin \in Nat
    BY <1>1, PathTypes DEF ReceiveTimer, config
  <1>4. NothingReceived(r) \/ ReceivedToFifo(r) \/ ReceivedOverrun(r) \/ ReceivedToData(r)
    BY <1>1, <1>r
  <1> HIDE DEF rsr
  <1>5. \A b : (Fresh(b) <=> Fresh(b)') /\ \A c : Before(b, c) <=> Before(b, c)'
    BY <1>3 DEF Fresh, Before
  <1>6. /\ \A b \in Nat : Past(b) => Past(b)'
        /\ got["guest"] <= sent' /\ got["device"] <= MaxOut + nin'
    BY <1>3, PastKept, PathTypes DEF RxOrder
  <1>7. r # None => /\ r \in Nat /\ Fresh(r) /\ Past(r)'
                    /\ \A i \in 1 .. Len(rcvr) : Before(rcvr[i], r)
    BY <1>2, <1>3, ArrivesLast
  <1>8. CASE NothingReceived(r)
    <2>1. UNCHANGED <<rcvr, dat, out_new, stale, timeout, lsr>>
      BY <1>8 DEF NothingReceived, rx
    <2> QED
      BY <1>3, <2>1, OrderSame
  <1>9. CASE ReceivedOverrun(r)
    <2>1. /\ rcvr' = rcvr /\ dat' = dat /\ out_new' = None /\ fifo_enabled /\ Len(rcvr) = Depth
      BY <1>9 DEF ReceivedOverrun
    <2>2. rcvr # <<>>
      BY <2>1, Sizes, EmptySeq
    <2> QED
      BY <1>3, <1>5, <1>6, <2>1, <2>2, PathTypes DEF RxOrder
  <1>10. CASE ReceivedToData(r)
    <2>1. /\ dat' = r /\ out_new' = None /\ rcvr' = rcvr /\ timeout' = timeout /\ stale' = stale
          /\ ~fifo_enabled /\ r # None
      BY <1>10 DEF ReceivedToData
    <2>2. rcvr = <<>> /\ (timeout => stale) /\ Fresh(r) /\ Past(r)'
      BY <1>7, <2>1 DEF RxOrder
    <2>3. Past(dat)' /\ Fresh(dat)'
      BY <1>3, <2>1, <2>2 DEF Past, Fresh
    <2>4. Len(rcvr') = 0 /\ \A i \in 1 .. 0 : FALSE
      BY <2>1, <2>2, EmptySeq
    <2> QED
      BY <1>3, <1>6, <2>1, <2>2, <2>3, <2>4 DEF RxOrder
  <1>11. CASE ReceivedToFifo(r)
    <2>1. /\ rcvr' = Append(rcvr, r) /\ dat' = dat /\ out_new' = None /\ fifo_enabled /\ r # None
      BY <1>11 DEF ReceivedToFifo
    <2>2. /\ r \in Nat /\ rcvr \in Seq(Nat) /\ Len(rcvr) \in Nat
      BY <1>7, <2>1, PathTypes, Sizes, SMTT(30)
    <2>3. /\ Len(rcvr') = Len(rcvr) + 1 /\ rcvr'[Len(rcvr) + 1] = r
          /\ \A i \in 1 .. Len(rcvr) : rcvr'[i] = rcvr[i]
          /\ rcvr' # <<>>
      BY <2>1, <2>2, AppendProperties
    <2>4. \A i \in 1 .. Len(rcvr') : Fresh(rcvr[i])' /\ Past(rcvr[i])'
      <3> SUFFICES ASSUME NEW i \in 1 .. Len(rcvr') PROVE Fresh(rcvr[i])' /\ Past(rcvr[i])'
        OBVIOUS
      <3>1. CASE i = Len(rcvr) + 1
        <4>1. rcvr'[i] = r /\ Fresh(r) /\ Past(r)'
          BY <1>7, <2>1, <2>3, <3>1
        <4> QED
          BY <1>3, <4>1 DEF Fresh, Past
      <3>2. CASE i # Len(rcvr) + 1
        <4>1. i \in 1 .. Len(rcvr) /\ rcvr'[i] = rcvr[i] /\ rcvr[i] \in Nat
          BY <2>2, <2>3, <3>2, PathTypes
        <4>2. PICK b \in Nat : b = rcvr[i]
          BY <4>1
        <4>3. Fresh(b) /\ Past(b)'
          BY <1>6, <4>1, <4>2 DEF RxOrder
        <4> QED
          BY <1>3, <4>1, <4>2, <4>3 DEF Fresh, Past
      <3> QED
        BY <3>1, <3>2
    <2>5. \A i, j \in 1 .. Len(rcvr') : i < j => Before(rcvr'[i], rcvr'[j])
      <3> SUFFICES ASSUME NEW i \in 1 .. Len(rcvr'), NEW j \in 1 .. Len(rcvr'), i < j
                   PROVE  Before(rcvr'[i], rcvr'[j])
        OBVIOUS
      <3>1. i \in 1 .. Len(rcvr) /\ rcvr'[i] = rcvr[i]
        BY <2>2, <2>3
      <3>2. CASE j = Len(rcvr) + 1
        BY <1>7, <2>1, <2>3, <3>1, <3>2
      <3>3. CASE j # Len(rcvr) + 1
        <4>1. j \in 1 .. Len(rcvr) /\ rcvr'[j] = rcvr[j]
          BY <2>2, <2>3, <3>3
        <4> QED
          BY <3>1, <4>1 DEF RxOrder
      <3> QED
        BY <3>2, <3>3
    <2>6. Past(dat)' /\ got'["guest"] <= sent' /\ got'["device"] <= MaxOut + nin'
      BY <1>3, <1>6, <2>1, PathTypes DEF RxOrder, Past
    <2>8. (\A i, j \in 1 .. Len(rcvr) : i < j => Before(rcvr[i], rcvr[j]))'
      BY <2>5 DEF Before
    <2> QED
      BY <1>3, <2>1, <2>3, <2>4, <2>6, <2>8 DEF RxOrder
  <1> QED
    BY <1>4, <1>8, <1>9, <1>10, <1>11

\* In loopback the byte that is sent is behind all that was heard before it.
LEMMA OrderTransmit ==
    ASSUME Careful, TypeInv, TypeInv', TxAgrees, Numbered, RxOrder, TransmitTimer
    PROVE  RxOrder'
  <1>1. UNCHANGED <<fifo_enabled, nin, nout, got>>
    BY DEF TransmitTimer, config
  <1>2. CASE UNCHANGED <<rx, sent>> /\ ("DR" \in lsr' <=> "DR" \in lsr)
    <2>1. sent <= sent' /\ nin <= nin'
      BY <1>1, <1>2, PathTypes
    <2> QED
      BY <1>1, <1>2, <2>1, OrderSame DEF rx
  <1>3. CASE /\ ProcessTxsr /\ "send" \in transmit_enabled
             /\ (baud_cycles + 1) % BaudWrap = bits + 1
    <2>1. Sends
      BY <1>3, SendStep DEF TransmitTimer
    <2>2. sent' = sent + 1 /\ Numbered' /\ sent \in Nat /\ nin <= nin' /\ sent <= sent'
      BY <1>1, <2>1, SendsNext, PathTypes
    <2>3. UNCHANGED <<rcvr, dat, timeout, stale>> /\ (out_new' = sent' \/ out_new' = out_new)
      BY <1>3 DEF ProcessTxsr
    <2>4. "DR" \in lsr' <=> "DR" \in lsr
      BY <1>3 DEF ProcessTxsr, EmptyLsr, Set
    <2>5. CASE out_new' = out_new
      BY <1>1, <2>2, <2>3, <2>4, <2>5, OrderSame
    <2>6. CASE out_new' = sent'
      <3> DEFINE b == sent + 1
      <3>1. /\ b \in Nat /\ b # Nul /\ b <= MaxOut /\ Source(b) = "guest" /\ out_new' = b
            /\ b <= sent'
        <4>1. sent' <= nout' /\ nout' <= MaxOut /\ nout' \in Nat /\ MaxOut \in Nat
          BY <2>2, Sizes DEF Numbered, TypeInv, Counts
        <4>2. b \in Nat /\ b # Nul /\ b <= MaxOut
          BY <2>2, <4>1 DEF Nul
        <4> QED
          BY <2>2, <2>6, <4>2 DEF Source
      <3>2. Fresh(b) /\ Before(dat, b) /\ \A i \in 1 .. Len(rcvr) : Before(rcvr[i], b)
        <4>1. got["guest"] \in Nat /\ got["guest"] <= sent
          BY PathTypes DEF RxOrder
        <4>2. Fresh(b)
          BY <2>2, <3>1, <4>1 DEF Fresh
        <4>3. ASSUME NEW a \in Nat, Past(a) PROVE Before(a, b)
          <5>1. Source(a) = "guest" => a <= sent
            BY <4>3 DEF Source, Past
          <5> QED
            BY <2>2, <3>1, <5>1 DEF Before
        <4> QED
          BY <4>2, <4>3, PathTypes DEF RxOrder
      <3>3. /\ \A a \in Nat : Past(a) => Past(a)'
            /\ got["guest"] <= sent' /\ got["device"] <= MaxOut + nin'
        BY <2>2, PastKept, PathTypes DEF RxOrder
      <3>4. /\ Past(dat)' /\ got'["guest"] <= sent' /\ got'["device"] <= MaxOut + nin'
            /\ \A i \in 1 .. Len(rcvr') : Fresh(rcvr[i])' /\ Past(rcvr[i])'
        <4>1. Past(dat)'
          BY <2>3, <3>3, PathTypes DEF RxOrder, Past
        <4>2. ASSUME NEW i \in 1 .. Len(rcvr) PROVE Fresh(rcvr[i])' /\ Past(rcvr[i])'
          <5>1. PICK a \in Nat : a = rcvr[i]
            BY PathTypes
          <5>2. Fresh(a) /\ Past(a)'
            BY <3>3, <5>1 DEF RxOrder
          <5> QED
            BY <1>1, <2>3, <5>1, <5>2 DEF Fresh, Past
        <4> QED
          BY <1>1, <2>3, <3>3, <4>1, <4>2
      <3>5. Past(out_new)' /\ Fresh(out_new)' /\ Before(dat, out_new)'
        BY <1>1, <2>3, <3>1, <3>2 DEF Past, Fresh, Before
      <3>6. (\A i \in 1 .. Len(rcvr) : Before(rcvr[i], out_new))'
        BY <2>3, <3>1, <3>2 DEF Before
      <3>7. (\A i, j \in 1 .. Len(rcvr) : i < j => Before(rcvr[i], rcvr[j]))'
        BY <2>3 DEF RxOrder, Before
      <3>8. Fresh(dat) => Fresh(dat)'
        BY <1>1, <2>3 DEF Fresh
      <3> QED
        BY <1>1, <2>3, <2>4, <3>4, <3>5, <3>6, <3>7, <3>8 DEF RxOrder
    <2> QED
      BY <2>3, <2>5, <2>6
  <1> DEFINE tick == (baud_cycles + 1) % BaudWrap
             sends == tick = bits + 1 /\ "send" \in transmit_enabled
             moves == tick = 1 /\ "move" \in transmit_enabled
  <1>4. \/ sends /\ ProcessTxsr
        \/ (MoveFromFifo \/ MoveFromThr) /\ UNCHANGED <<rx, sent>>
        \/ UNCHANGED <<rx, lsr, sent>>
    BY DEF TransmitTimer
  <1>5. MoveFromFifo \/ MoveFromThr => ("DR" \in lsr' <=> "DR" \in lsr)
    BY DEF MoveFromFifo, MoveFromThr, Set
  <1> QED
    BY <1>2, <1>3, <1>4, <1>5

\* Reading the data register takes what is first.
LEMMA OrderRead ==
    ASSUME TypeInv, TypeInv', RxOrder, ReadRbr
    PROVE  RxOrder'
  <1>1. /\ UNCHANGED <<fifo_enabled, out_new, dat, nin, sent>>
        /\ got' = IF "DR" \in lsr THEN [got EXCEPT ![Source(ReadValue)] = ReadValue] ELSE got
    BY DEF ReadRbr, config, ReadRbrFifo, ReadRbrPlain
  <1>2. /\ \A b : Past(b)' <=> Past(b)
        /\ \A a, b : Before(a, b)' <=> Before(a, b)
    BY <1>1 DEF Past, Before
  <1>p. PICK v : v = ReadValue
    OBVIOUS
  \* What the guest has read is past, and before all that is left.
  <1>3. ASSUME v \in Nat, Past(v)
        PROVE  got'["guest"] <= sent /\ got'["device"] <= MaxOut + nin
    <2>1. /\ got["guest"] <= sent /\ got["device"] <= MaxOut + nin
          /\ got \in [{"guest", "device"} -> Nat]
      BY PathTypes DEF RxOrder
    <2>2. CASE "DR" \notin lsr
      BY <1>1, <2>1, <2>2
    <2>3. CASE "DR" \in lsr /\ v <= MaxOut
      <3>1. Source(v) = "guest" /\ v <= sent
        BY <1>3, <2>3 DEF Source, Past
      <3>2. got' = [got EXCEPT !["guest"] = v]
        BY <1>1, <1>p, <2>3, <3>1
      <3> QED
        BY <2>1, <3>1, <3>2
    <2>4. CASE "DR" \in lsr /\ ~(v <= MaxOut)
      <3>1. Source(v) = "device" /\ v <= MaxOut + nin
        BY <1>3, <2>4 DEF Source, Past
      <3>2. got' = [got EXCEPT !["device"] = v]
        BY <1>1, <1>p, <2>4, <3>1
      <3> QED
        BY <2>1, <3>1, <3>2
    <2> QED
      BY <2>2, <2>3, <2>4
  <1>4. ASSUME NEW b \in Nat, Fresh(b), Before(v, b), v \in Nat
        PROVE  Fresh(b)'
    <2>1. /\ got \in [{"guest", "device"} -> Nat] /\ Source(b) \in {"guest", "device"}
          /\ Source(v) \in {"guest", "device"}
      BY PathTypes
    <2>2. b # Nul /\ b > got[Source(b)]
      BY <1>4 DEF Fresh
    <2>3. CASE "DR" \in lsr /\ Source(v) = Source(b)
      <3>1. got'[Source(b)] = v /\ v < b
        BY <1>1, <1>4, <1>p, <2>1, <2>3 DEF Before
      <3>2. b > v
        BY <1>4, <3>1
      <3> QED
        BY <2>2, <3>1, <3>2 DEF Fresh
    <2>4. CASE ~("DR" \in lsr /\ Source(v) = Source(b))
      <3>1. got'[Source(b)] = got[Source(b)]
        BY <1>1, <1>p, <2>1, <2>4
      <3> QED
        BY <2>2, <3>1 DEF Fresh
    <2> QED
      BY <2>3, <2>4
  <1>5. out_new # None => out_new \in Nat /\ Fresh(out_new) /\ Past(out_new)
    BY PathTypes DEF RxOrder
  <1>6. CASE ReadRbrPlain
    <2>1. ~fifo_enabled /\ "DR" \notin lsr' /\ UNCHANGED <<rcvr, timeout, stale>> /\ v = dat
      BY <1>6, <1>p DEF ReadRbrPlain, ReadValue
    <2>2. rcvr = <<>> /\ (timeout => stale) /\ Past(v) /\ v \in Nat
      BY <2>1, PathTypes DEF RxOrder
    <2>3. Len(rcvr') = 0 /\ \A i \in 1 .. 0 : FALSE
      BY <2>1, <2>2, EmptySeq
    <2>4. got'["guest"] <= sent /\ got'["device"] <= MaxOut + nin
      BY <1>3, <2>2, PathTypes
    <2>5. out_new # None => Fresh(out_new)' /\ Past(out_new)' /\ Before(dat, out_new)'
      <3> SUFFICES ASSUME out_new # None
                   PROVE  Fresh(out_new)' /\ Past(out_new)' /\ Before(dat, out_new)'
        OBVIOUS
      <3>1. PICK b \in Nat : b = out_new
        BY <1>5
      <3>2. Fresh(b) /\ Past(b) /\ Before(dat, b)
        BY <1>5, <3>1 DEF RxOrder
      <3>3. Fresh(b)'
        BY <1>4, <2>1, <2>2, <3>2
      <3> QED
        BY <1>1, <3>1, <3>2, <3>3 DEF Fresh, Past, Before
    <2>6. Past(dat)'
      BY <1>1, PathTypes DEF RxOrder, Past
    <2> QED
      BY <1>1, <2>1, <2>2, <2>3, <2>4, <2>5, <2>6 DEF RxOrder
  <1>7. CASE ReadRbrFifo /\ rcvr = <<>>
    <2>1. /\ fifo_enabled /\ rcvr' = <<>> /\ v = Nul /\ dat' = dat
          /\ lsr' = lsr /\ stale' = (stale /\ "DR" \in lsr) /\ timeout' = ("DR" \in lsr)
      BY <1>7, <1>p, EmptySeq DEF ReadRbrFifo, ReadValue
    <2>2. fifo_enabled /\ ~stale => "DR" \notin lsr
      BY <1>7 DEF RxOrder
    <2>3. Len(rcvr') = 0 /\ \A i \in 1 .. 0 : FALSE
      BY <2>1, EmptySeq
    <2>4. v \in Nat /\ Past(v) /\ Source(v) = "guest"
      BY <2>1, PathTypes DEF Nul, Past, Source
    <2>5. got'["guest"] <= sent /\ got'["device"] <= MaxOut + nin
      BY <1>3, <2>4
    <2>6. out_new # None => Fresh(out_new)' /\ Past(out_new)' /\ Before(dat, out_new)'
      <3> SUFFICES ASSUME out_new # None
                   PROVE  Fresh(out_new)' /\ Past(out_new)' /\ Before(dat, out_new)'
        OBVIOUS
      <3>1. PICK b \in Nat : b = out_new
        BY <1>5
      <3>2. Fresh(b) /\ Past(b) /\ Before(dat, b)
        BY <1>5, <3>1 DEF RxOrder
      <3>3. Before(v, b)
        BY <2>1, <3>2 DEF Before, Fresh, Nul
      <3>4. Fresh(b)'
        BY <1>4, <2>4, <3>2, <3>3
      <3> QED
        BY <1>1, <3>1, <3>2, <3>4 DEF Fresh, Past, Before
    <2>7. Past(dat)'
      BY <1>1, PathTypes DEF RxOrder, Past
    <2> QED
      BY <1>1, <2>1, <2>2, <2>3, <2>5, <2>6, <2>7 DEF RxOrder
  <1>8. CASE ReadRbrFifo /\ rcvr # <<>>
    <2>1. /\ fifo_enabled /\ rcvr' = Tail(rcvr) /\ v = Head(rcvr) /\ dat' = dat
          /\ lsr' = IF Len(rcvr) = 1 THEN lsr \ {"DR"} ELSE lsr
          /\ stale' = (stale /\ "DR" \in lsr') /\ timeout' = ("DR" \in lsr')
      BY <1>8, <1>p DEF ReadRbrFifo, ReadValue
    <2>2. /\ rcvr \in Seq(Byte) /\ Len(rcvr) \in Nat /\ Len(rcvr) > 0 /\ v = rcvr[1]
          /\ Len(rcvr') = Len(rcvr) - 1 /\ \A i \in 1 .. Len(rcvr') : rcvr'[i] = rcvr[i + 1]
      <3>1. rcvr \in Seq(Byte) /\ Len(rcvr) \in Nat
        BY PathTypes
      <3> QED
        BY <1>8, <2>1, <3>1, HeadTailProperties, EmptySeq
    <2>3. rcvr' = <<>> <=> Len(rcvr) = 1
      BY <1>8, <2>1, <2>2, TailEmpty
    <2>4. v \in Nat /\ Past(v)
      BY <2>2, PathTypes DEF RxOrder
    <2>5. got'["guest"] <= sent /\ got'["device"] <= MaxOut + nin
      BY <1>3, <2>4
    <2>6. out_new # None =>
            /\ Fresh(out_new)' /\ Past(out_new)' /\ Before(dat, out_new)'
            /\ \A i \in 1 .. Len(rcvr') : Before(rcvr[i], out_new)'
      <3> SUFFICES ASSUME out_new # None
                   PROVE  /\ Fresh(out_new)' /\ Past(out_new)' /\ Before(dat, out_new)'
                          /\ \A i \in 1 .. Len(rcvr') : Before(rcvr[i], out_new)'
        OBVIOUS
      <3>1. PICK b \in Nat : b = out_new
        BY <1>5
      <3>2. /\ Fresh(b) /\ Past(b) /\ Before(dat, b)
            /\ \A i \in 1 .. Len(rcvr) : Before(rcvr[i], b)
        BY <1>5, <3>1 DEF RxOrder
      <3>3. Before(v, b)
        BY <2>2, <3>2
      <3>4. Fresh(b)'
        BY <1>4, <2>4, <3>2, <3>3
      <3>5. \A i \in 1 .. Len(rcvr') : Before(rcvr[i], out_new)'
        BY <1>1, <2>2, <3>1, <3>2 DEF Before
      <3> QED
        BY <1>1, <3>1, <3>2, <3>4, <3>5 DEF Fresh, Past, Before
    <2>7. Past(dat)'
      BY <1>1, PathTypes DEF RxOrder, Past
    <2>8. ASSUME NEW i \in 1 .. Len(rcvr') PROVE Fresh(rcvr[i])' /\ Past(rcvr[i])'
      <3>1. i + 1 \in 1 .. Len(rcvr) /\ rcvr'[i] = rcvr[i + 1] /\ 1 < i + 1 /\ 1 \in 1 .. Len(rcvr)
        BY <2>2
      <3>2. PICK b \in Nat : b = rcvr[i + 1]
        BY <3>1, PathTypes
      <3>3. Fresh(b) /\ Past(b) /\ Before(v, b)
        BY <2>2, <3>1, <3>2 DEF RxOrder
      <3>4. Fresh(b)'
        BY <1>4, <2>4, <3>3
      <3> QED
        BY <1>1, <3>1, <3>2, <3>3, <3>4 DEF Fresh, Past
    <2>9. (\A i, j \in 1 .. Len(rcvr) : i < j => Before(rcvr[i], rcvr[j]))'
      <3> SUFFICES ASSUME NEW i \in 1 .. Len(rcvr'), NEW j \in 1 .. Len(rcvr'), i < j
                   PROVE  Before(rcvr'[i], rcvr'[j])
        BY DEF Before
      <3>1. /\ i + 1 \in 1 .. Len(rcvr) /\ j + 1 \in 1 .. Len(rcvr) /\ i + 1 < j + 1
            /\ rcvr'[i] = rcvr[i + 1] /\ rcvr'[j] = rcvr[j + 1]
        BY <2>2
      <3> QED
        BY <3>1 DEF RxOrder
    <2>10. ~stale' /\ (timeout' \/ "DR" \in lsr') => rcvr' # <<>>
      BY <2>1, <2>3
    <2> QED
      BY <1>1, <2>1, <2>5, <2>6, <2>7, <2>8, <2>9, <2>10 DEF RxOrder
  <1> QED
    BY <1>6, <1>7, <1>8 DEF ReadRbr

\* FCR flushes, and a timeout that is running then is no longer about a byte.
LEMMA OrderFcr ==
    ASSUME TypeInv, TypeInv', RxOrder, WriteFcr
    PROVE  RxOrder'
  <1>1. PICK enable \in BOOLEAN, clearRx \in BOOLEAN, clearTx \in BOOLEAN :
          WriteFcr!(enable, clearRx, clearTx)
    BY Zenon DEF WriteFcr
  <1>2. /\ UNCHANGED <<dat, timeout, nin, sent, got>> /\ fifo_enabled' = enable
        /\ out_new' = IF enable THEN None ELSE out_new
    BY <1>1 DEF world
  <1>3. /\ \A b : (Past(b)' <=> Past(b)) /\ (Fresh(b)' <=> Fresh(b))
        /\ \A a, b : Before(a, b)' <=> Before(a, b)
    BY <1>2 DEF Past, Fresh, Before
  <1>4. out_new # None => Fresh(out_new) /\ Past(out_new) /\ Before(dat, out_new)
    BY DEF RxOrder
  <1>5. out_new' # None => Fresh(out_new)' /\ Past(out_new)' /\ Before(dat, out_new)'
    BY <1>2, <1>4 DEF Past, Fresh, Before
  <1>6. Past(dat)' /\ got'["guest"] <= sent' /\ got'["device"] <= MaxOut + nin'
    BY <1>2 DEF RxOrder, Past
  <1>7. CASE enable # fifo_enabled \/ (enable /\ clearRx)
    <2>1. rcvr' = <<>> /\ "DR" \notin lsr' /\ (timeout' => stale')
      BY <1>1, <1>7 DEF EmptyLsr, Set
    <2>2. Len(rcvr') = 0 /\ \A i \in 1 .. 0 : FALSE
      BY <2>1, EmptySeq
    <2> QED
      BY <1>5, <1>6, <2>1, <2>2 DEF RxOrder
  <1>8. CASE ~(enable # fifo_enabled \/ (enable /\ clearRx))
    <2>1. /\ fifo_enabled' = fifo_enabled /\ rcvr' = rcvr /\ stale' = stale
          /\ "DR" \in lsr <=> "DR" \in lsr'
      BY <1>1, <1>8 DEF EmptyLsr, Set
    <2>2. CASE out_new' = out_new
      <3>1. sent <= sent' /\ nin <= nin'
        BY <1>2, PathTypes
      <3> QED
        BY <1>2, <2>1, <2>2, <3>1, OrderSame
    <2>3. CASE out_new' = None
      <3>1. /\ \A i \in 1 .. Len(rcvr') : Fresh(rcvr[i])' /\ Past(rcvr[i])'
            /\ (\A i, j \in 1 .. Len(rcvr) : i < j => Before(rcvr[i], rcvr[j]))'
            /\ Fresh(dat) => Fresh(dat)'
        BY <1>2, <2>1 DEF RxOrder, Fresh, Past, Before
      <3> QED
        BY <1>2, <1>6, <2>1, <2>3, <3>1 DEF RxOrder
    <2> QED
      BY <1>2, <2>2, <2>3
  <1> QED
    BY <1>7, <1>8

\* serial_timeout_timer sets DR without a look at the FIFO.
LEMMA OrderTimeout ==
    ASSUME TypeInv, TypeInv', RxOrder, TimeoutTimer
    PROVE  RxOrder'
  <1>1. /\ UNCHANGED <<fifo_enabled, rcvr, dat, out_new, stale, nin, sent, got>> /\ timeout
        /\ ~timeout'
    BY DEF TimeoutTimer, config, world
  <1>2. /\ Past(dat)' /\ got'["guest"] <= sent' /\ got'["device"] <= MaxOut + nin'
        /\ \A i \in 1 .. Len(rcvr') : Fresh(rcvr[i])' /\ Past(rcvr[i])'
        /\ (\A i, j \in 1 .. Len(rcvr) : i < j => Before(rcvr[i], rcvr[j]))'
    BY <1>1 DEF RxOrder, Past, Fresh, Before
  <1>3. out_new' # None =>
          /\ Fresh(out_new)' /\ Past(out_new)' /\ Before(dat, out_new)'
          /\ \A i \in 1 .. Len(rcvr') : Before(rcvr[i], out_new)'
    BY <1>1 DEF RxOrder, Past, Fresh, Before
  <1>4. fifo_enabled \/ stale
    BY <1>1 DEF RxOrder
  <1>5. ~fifo_enabled => rcvr' = <<>>
    BY <1>1 DEF RxOrder
  <1>6. fifo_enabled /\ ~stale => rcvr' # <<>>
    BY <1>1 DEF RxOrder
  <1> QED
    BY <1>1, <1>2, <1>3, <1>4, <1>5, <1>6 DEF RxOrder

LEMMA OrderKept ==
    ASSUME Careful, TypeInv, TypeInv', TxAgrees, Numbered, RxOrder, [Next]_vars
    PROVE  RxOrder'
  <1>1. CASE WriteThr
    <2>1. "DR" \in lsr' <=> "DR" \in lsr
      BY <1>1 DEF WriteThr, WriteThrFifo, WriteThrPlain
    <2>2. UNCHANGED <<fifo_enabled, rx, nin, sent, got>>
      BY <1>1 DEF WriteThr, config
    <2>3. sent <= sent' /\ nin <= nin'
      BY <2>2, PathTypes
    <2> QED
      BY <2>1, <2>2, <2>3, OrderSame DEF rx
  <1>2. CASE WriteIer \/ WriteLcr \/ WriteMcr \/ ReadIir \/ ReadLsr \/ ReadMsr \/ UNCHANGED vars
    <2>1. UNCHANGED <<fifo_enabled, rx, world>> /\ ("DR" \in lsr' <=> "DR" \in lsr)
      BY <1>2 DEF WriteIer, WriteLcr, WriteMcr, ReadIir, ReadLsr, ReadMsr, vars, config
    <2>2. sent <= sent' /\ nin <= nin' /\ got' = got
      BY <2>1, PathTypes DEF world
    <2> QED
      BY <2>1, <2>2, OrderSame DEF rx
  <1> QED
    BY <1>1, <1>2, OrderReceive, OrderTransmit, OrderTimeout, OrderRead, OrderFcr, Zenon DEF Next

LEMMA NumberedKept ==
    ASSUME Careful, TypeInv, TypeInv', TxAgrees, Numbered, [Next]_vars
    PROVE  TxAgrees' /\ Numbered'
  <1>1. Stutters => Numbered'
    BY DEF Stutters, Numbered
  <1> QED
    BY <1>1, TxStep, SendsNext, TakesNext

-----------------------------------------------------------------------------
(* The theorems.                                                           *)

\* The inductive invariant.  The three properties do not need each other; each
\* needs the types.
IInv == TypeInv /\ NoSilentByte /\ LineChangeTold /\ IrqAsserted

\* Every reachable state of a port satisfies the inductive invariant
\* (serial_reset_port sets the port up; a register access or a timer each keep it).
THEOREM InvHolds == Spec => []IInv
  <1>1. Init => IInv
    <2> SUFFICES ASSUME Init PROVE IInv
      OBVIOUS
    <2>1. NoSilentByte
      BY DEF Init, NoSilentByte, ByteWaiting
    <2>2. LineChangeTold
      BY DEF Init, LineChangeTold
    <2>3. IrqAsserted
      BY DEF Init, IrqAsserted, Wanted
    <2> QED
      BY <2>1, <2>2, <2>3, InitType DEF IInv
  <1>2. IInv /\ [Next]_vars => IInv'
    <2> SUFFICES ASSUME IInv, [Next]_vars PROVE IInv'
      OBVIOUS
    <2>1. TypeInv'
      BY TypeKept DEF IInv
    <2>2. NoSilentByte' /\ LineChangeTold'
      BY SilentKept, TellsKept DEF IInv
    <2>3. IrqAsserted'
      BY <2>1, IrqKept DEF IInv
    <2> QED
      BY <2>1, <2>2, <2>3 DEF IInv
  <1> QED
    BY <1>1, <1>2, PTL DEF Spec

\* Every register, FIFO and flag of the port keeps its type: no FIFO holds
\* more than SERIAL_FIFO_SIZE bytes whatever the guest writes (fifo_write_evt).
THEOREM TypeSafe == Spec => []TypeOK
  <1>1. IInv => TypeOK
    BY Unpacked DEF IInv
  <1> QED
    BY <1>1, InvHolds, PTL

\* A received byte is never silent: LSR shows it, and an interrupt for it is
\* pending or the character timeout that will raise it is running
\* (serial_receive_timer, serial_timeout_timer, the RBR read, FCR).
THEOREM ByteAnnounced == Spec => []NoSilentByte
  <1>1. IInv => NoSilentByte
    BY DEF IInv
  <1> QED
    BY <1>1, InvHolds, PTL

\* A modem line that is not as the guest read it last is in the latched
\* changes with its interrupt pending (serial_receive_timer, MCR, the MSR read).
THEOREM ChangesTold == Spec => []LineChangeTold
  <1>1. IInv => LineChangeTold
    BY DEF IInv
  <1> QED
    BY <1>1, InvHolds, PTL

\* A guest that sets the port up with its interrupts off never waits for an
\* interrupt that is pending and enabled but not asserted: no path of
\* serial.c leaves out a serial_update_ints that mattered.
THEOREM IrqSafe == Spec => []IrqAsserted
  <1>1. IInv => IrqAsserted
    BY DEF IInv
  <1> QED
    BY <1>1, InvHolds, PTL

\* While LSR tells a driver that a byte is ready there is one that it has not
\* read: no flush, change of mode, loopback, timeout or overrun hands a byte over
\* twice, out of order or made up (serial_receive_timer, the RBR read, FCR), but
\* for the timeout that outlives a flush.
THEOREM ReadsInOrder ==
    ASSUME Careful
    PROVE  Spec => []ReadyIsFresh
  <1> DEFINE OrderInv == TypeInv /\ TxAgrees /\ Numbered /\ RxOrder
  <1>1. Init => OrderInv
    <2> SUFFICES ASSUME Init PROVE OrderInv
      OBVIOUS
    <2>1. TxAgrees
      BY DEF Init, TxAgrees, HoldingEmpty
    <2>2. Pending = <<>> /\ Len(Pending) = 0 /\ \A i \in 1 .. 0 : FALSE
      <3>1. Pending = <<>> \o <<>>
        BY DEF Init, Pending
      <3> QED
        BY <3>1, EmptySeq
    <2>3. Numbered
      BY <2>2 DEF Init, Numbered
    <2>4. Len(rcvr) = 0 /\ \A i \in 1 .. 0 : FALSE
      BY EmptySeq DEF Init
    <2>5. RxOrder
      BY <2>4, Sizes DEF Init, RxOrder, Past, Nul
    <2> QED
      BY <2>1, <2>3, <2>5, InitType
  <1>2. OrderInv /\ [Next]_vars => OrderInv'
    <2> SUFFICES ASSUME OrderInv, [Next]_vars PROVE OrderInv'
      OBVIOUS
    <2>1. TypeInv'
      BY TypeKept
    <2> QED
      BY <2>1, NumberedKept, OrderKept
  <1>3. OrderInv => ReadyIsFresh
    <2> SUFFICES ASSUME OrderInv, "DR" \in lsr, ~stale PROVE Fresh(ReadValue)
      BY DEF ReadyIsFresh
    <2>1. CASE ~fifo_enabled
      BY <2>1 DEF RxOrder, ReadValue
    <2>2. CASE fifo_enabled
      <3>1. rcvr # <<>> /\ rcvr \in Seq(Byte) /\ Len(rcvr) \in Nat
        BY <2>2, PathTypes DEF RxOrder
      <3>2. 1 \in 1 .. Len(rcvr) /\ ReadValue = rcvr[1]
        BY <2>2, <3>1, HeadTailProperties, EmptySeq DEF ReadValue
      <3> QED
        BY <3>2 DEF RxOrder
    <2> QED
      BY <2>1, <2>2
  <1> HIDE DEF OrderInv
  <1> QED
    BY <1>1, <1>2, <1>3, PTL DEF Spec

\* The transmitter of a driver's port implements the steps of ByteLine, the
\* queue: no tick of the bit timer, no write and no set-up between them loses,
\* repeats or invents a byte (serial_write to THR, serial_move_to_txsr,
\* serial_process_txsr).
THEOREM TransmitterImplementsLine ==
    ASSUME Careful
    PROVE  Spec => Transmitter!Init /\ [][Transmitter!Next]_(Transmitter!vars)
  <1>1. Init => TxAgrees /\ Transmitter!Init
    <2> SUFFICES ASSUME Init PROVE TxAgrees /\ Transmitter!Init
      OBVIOUS
    <2>1. TxAgrees
      BY DEF Init, TxAgrees, HoldingEmpty
    <2>2. Pending = <<>> \o <<>>
      BY DEF Init, Pending
    <2> QED
      BY <2>1, <2>2 DEF Init, Transmitter!Init
  <1>2. TypeInv /\ TxAgrees /\ [Next]_vars => TxAgrees' /\ [Transmitter!Next]_(Transmitter!vars)
    <2> SUFFICES ASSUME TypeInv, TxAgrees, [Next]_vars
                 PROVE  TxAgrees' /\ [Transmitter!Next]_(Transmitter!vars)
      OBVIOUS
    <2>1. TxAgrees' /\ (Takes \/ Sends \/ Stutters)
      BY TxStep
    <2>2. CASE Takes
      BY <2>1, <2>2 DEF Takes, Transmitter!Next, Transmitter!Take
    <2>3. CASE Sends
      BY <2>1, <2>3 DEF Sends, Transmitter!Next, Transmitter!Send
    <2>4. CASE Stutters
      BY <2>1, <2>4 DEF Stutters, Transmitter!vars
    <2> QED
      BY <2>1, <2>2, <2>3, <2>4
  <1>3. IInv => TypeInv
    BY DEF IInv
  <1> QED
    BY <1>1, <1>2, <1>3, InvHolds, PTL DEF Spec
=============================================================================
