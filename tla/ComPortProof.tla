---------------------------- MODULE ComPortProof ----------------------------
(***************************************************************************)
(* The COM port of ComPort behaves as a port of Uart and a controller of   *)
(* Pic at once, no edge is lost between them, and what the port has        *)
(* pending reaches the CPU.                                                *)
(***************************************************************************)
EXTENDS ComPort, UartProof

-----------------------------------------------------------------------------
(* The port runs as a Uart.                                                *)

\* IIR of an asserted port names a cause.
Named == irq => iir # "NONE"

LEMMA NamedAfterUpdate ==
    ASSUME NEW status, status \subseteq Causes, NEW enable, NEW outputs,
           UpdateIntsTo(status, enable, outputs)
    PROVE  Named'
  <1> DEFINE W == Wanted(status, enable)
  <1>1. W \subseteq Causes
    BY DEF Wanted
  <1>2. W # {} => Best(W) \in W
    BY <1>1, BestIsWanted
  <1>3. W # {} => Best(W) # "NONE"
    BY <1>1, <1>2 DEF Causes
  <1>4. iir' = (IF W = {} THEN "NONE" ELSE Best(W)) /\ irq' = (W # {} /\ "OUT2" \in outputs)
    BY DEF UpdateIntsTo
  <1> HIDE DEF W
  <1> QED
    BY <1>3, <1>4, Zenon DEF Named

LEMMA NamedAfter ==
    ASSUME TypeInv', Named, KeepInts \/ UpdateInts
    PROVE  Named'
  <1>1. CASE KeepInts
    BY <1>1, Zenon DEF Named, KeepInts
  <1>2. CASE UpdateInts
    <2>1. int_status' \subseteq Causes
      BY Zenon DEF TypeInv, Registers
    <2> QED
      BY <1>2, <2>1, NamedAfterUpdate, Zenon DEF UpdateInts
  <1> QED
    BY <1>1, <1>2

\* For each step: it keeps that, and where ComPort says that it does not call
\* serial_update_ints, it leaves the line alone.

LEMMA PortReceives ==
    ASSUME TypeInv, TypeInv', Named, ReceiveTimer
    PROVE  /\ Named'
           /\ \/ delta' # {} \/ out_new # None \/ (nin' # nin /\ "LOOP" \notin mctrl)
              \/ irq' = irq
  <1>1. PICK supplied \in BOOLEAN :
          LET rsr == IF supplied /\ "LOOP" \notin mctrl THEN MaxOut + nin + 1 ELSE out_new IN
          /\ nin' = IF supplied THEN nin + 1 ELSE nin
          /\ \/ NothingReceived(rsr)
             \/ ReceivedToFifo(rsr)
             \/ ReceivedOverrun(rsr)
             \/ ReceivedToData(rsr)
    BY Zenon DEF ReceiveTimer
  <1> DEFINE r == IF supplied /\ "LOOP" \notin mctrl THEN MaxOut + nin + 1 ELSE out_new
  <1>2. NothingReceived(r) \/ ReceivedToFifo(r) \/ ReceivedOverrun(r) \/ ReceivedToData(r)
    BY <1>1
  <1>3. nin \in Nat /\ MaxOut \in Nat
    BY Sizes DEF TypeInv, Counts
  <1>4. supplied => nin' # nin
    BY <1>1, <1>3
  <1>5. CASE r = None
    <2>1. NothingReceived(r)
      BY <1>2, <1>5, Zenon DEF ReceivedToFifo, ReceivedOverrun, ReceivedToData
    <2> QED
      BY <2>1, NamedAfter, Zenon DEF NothingReceived, KeepInts
  <1>6. CASE r # None
    <2>1. UpdateInts
      BY <1>2, <1>6, Zenon DEF NothingReceived, ReceivedToFifo, ReceivedOverrun, ReceivedToData
    <2>2. out_new # None \/ (nin' # nin /\ "LOOP" \notin mctrl)
      BY <1>4, <1>6, Zenon
    <2> QED
      BY <2>1, <2>2, NamedAfter, Zenon
  <1> QED
    BY <1>5, <1>6

LEMMA PortTransmits ==
    ASSUME TypeInv, TypeInv', Named, TransmitTimer
    PROVE  /\ Named'
           /\ \/ baud_cycles' = 0
              \/ baud_cycles' = 1 /\ "move" \in transmit_enabled /\ (fifo_enabled => xmit' = <<>>)
              \/ irq' = irq
  <1> DEFINE tick == (baud_cycles + 1) % BaudWrap
             sends == tick = bits + 1 /\ "send" \in transmit_enabled
             moves == tick = 1 /\ "move" \in transmit_enabled
  <1>1. \/ sends /\ ProcessTxsr
        \/ moves /\ baud_cycles' = tick /\ (MoveFromFifo \/ MoveFromThr)
        \/ UNCHANGED ints
    BY DEF TransmitTimer
  <1> HIDE DEF sends
  <1>2. CASE ProcessTxsr
    BY <1>2, NamedAfter, Zenon DEF ProcessTxsr
  <1>3. CASE moves /\ baud_cycles' = tick /\ MoveFromFifo
    BY <1>3, NamedAfter, Zenon DEF MoveFromFifo, KeepInts
  <1>4. CASE moves /\ baud_cycles' = tick /\ MoveFromThr
    BY <1>4, NamedAfter, Zenon DEF MoveFromThr
  <1>5. CASE UNCHANGED ints
    BY <1>5, NamedAfter, Zenon DEF ints, KeepInts
  <1> QED
    BY <1>1, <1>2, <1>3, <1>4, <1>5, Zenon

\* What the guest writes.
LEMMA PortWrites ==
    ASSUME TypeInv, TypeInv', Named
    PROVE  /\ WriteThr => Named' /\ (fifo_enabled => irq' = irq)
           /\ WriteIer => Named'
           /\ WriteFcr => Named'
           /\ WriteLcr => Named' /\ irq' = irq
           /\ WriteMcr => Named'
  <1>1. int_status' \subseteq Causes
    BY Zenon DEF TypeInv, Registers
  <1>2. ASSUME WriteThr PROVE Named' /\ (fifo_enabled => irq' = irq)
    <2>1. (WriteThrFifo \/ WriteThrPlain)
      BY <1>2, Zenon DEF WriteThr
    <2> QED
      BY <2>1, NamedAfter, Zenon DEF WriteThrFifo, WriteThrPlain, KeepInts
  <1>3. ASSUME WriteIer PROVE Named'
    BY <1>1, <1>3, NamedAfterUpdate, Zenon DEF WriteIer
  <1>4. ASSUME WriteFcr PROVE Named'
    <2>1. PICK enable, clearRx, clearTx \in BOOLEAN :
            WriteFcr!(enable, clearRx, clearTx)
      BY <1>4, Zenon DEF WriteFcr
    <2> DEFINE toggled == enable # fifo_enabled
               flushRx == toggled \/ (enable /\ clearRx)
               empty == fifo_enabled \/ thr = None
               int1 == IF toggled THEN EmptyInts(int_status, empty) ELSE int_status
               int2 == IF flushRx THEN int1 \ {"RECEIVE"} ELSE int1
    <2>2. int2 \subseteq Causes
      BY DEF TypeInv, Registers, EmptyInts, Set, Causes
    <2>3. IF flushRx THEN UpdateIntsTo(int2, ier, mctrl) ELSE KeepInts
      BY <2>1
    <2> HIDE DEF int2
    <2> QED
      BY <2>2, <2>3, NamedAfterUpdate, NamedAfter, Zenon
  <1>5. ASSUME WriteLcr PROVE Named' /\ irq' = irq
    BY <1>5, Zenon DEF WriteLcr, ints, Named
  <1>6. ASSUME WriteMcr PROVE Named'
    <2>1. \/ UpdateIntsTo(int_status', ier, mctrl')
          \/ irq' = (irq /\ ~("OUT2" \in mctrl /\ "OUT2" \notin mctrl')) /\ iir' = iir
      BY <1>6, Zenon DEF WriteMcr
    <2> QED
      BY <1>1, <2>1, NamedAfterUpdate, Zenon DEF Named
  <1> QED
    BY <1>2, <1>3, <1>4, <1>5, <1>6, Zenon

\* The steps that always call it.
LEMMA PortUpdates ==
    ASSUME TypeInv', Named, TimeoutTimer \/ ReadRbr \/ ReadIir \/ ReadLsr \/ ReadMsr
    PROVE  Named'
  BY NamedAfter, Zenon DEF TimeoutTimer, ReadRbr, ReadIir, ReadLsr, ReadMsr

\* A step of the whole is one of the port or leaves it alone.
LEMMA PortStep ==
    ASSUME [ComNext]_all
    PROVE  [Next]_vars
  <1>1. CASE UNCHANGED all
    BY <1>1, Zenon DEF all
  <1>2. CASE Timers
    BY <1>2, Zenon DEF Timers, Receives, Transmits, TimesOut, Next
  <1>3. CASE Main
    BY <1>3, Zenon DEF Main, Writes, Next
  <1>4. CASE Interrupt
    BY <1>4, Zenon DEF Interrupt
  <1>5. CASE Look
    BY <1>5, Zenon DEF Look, Next
  <1>6. CASE Serve
    BY <1>6, Zenon DEF Serve, Next
  <1>7. CASE Return \/ EndOfInterrupt
    BY <1>7, Zenon DEF Return, EndOfInterrupt
  <1> QED
    BY <1>1, <1>2, <1>3, <1>4, <1>5, <1>6, <1>7, Zenon DEF ComNext

-----------------------------------------------------------------------------
(* The controller.                                                         *)

\* Nobody sets the chips up, masks or polls: the slave stays as it was, and
\* the master has the port's channel and no other.
ChipHere ==
    [irr : SUBSET {0}, imr : {{}}, isr : SUBSET {0}, priority : {0}, best : {None, 0},
     frozen : {FALSE}, pending : BOOLEAN, poll : {FALSE}, aeoi : {FALSE}, state : {"ready"}]

Chips2 == pic \in [P!Chips -> ChipHere] /\ pic["slave"] = P!PowerOn

\* The CPU is in one handler or in none, and the master tells it of a request
\* when it is in none.
Served ==
    /\ stack = IF pic["master"].isr = {} THEN <<>> ELSE <<<<"master", 0>>>>
    /\ pic["master"].pending = (pic["master"].irr # {} /\ pic["master"].isr = {})
    /\ pic["master"].pending => pic["master"].best = 0

\* The line as the port drives it.
Driven ==
    /\ asserted = [d \in {Com} |-> irq]
    /\ lines \in [P!Chips -> [0 .. 1 -> 0 .. 1]]
    /\ lines["master"][0] = IF irq THEN 1 ELSE 0

LEMMA BestHere ==
    ASSUME NEW r \in ChipHere
    PROVE  P!BestOf(r) = IF r.irr # {} /\ r.isr = {} THEN 0 ELSE None
  <1>1. P!Requests(r) = r.irr
    BY DEF P!Requests, ChipHere
  <1>2. r.priority = 0 /\ r.irr \subseteq {0} /\ r.isr \subseteq {0}
    BY DEF ChipHere
  <1>3. P!Rank(r, 0) = 0
    BY <1>2 DEF P!Rank
  <1>4. P!Above(r) = IF r.isr = {} THEN r.irr ELSE {}
    BY <1>1, <1>2, <1>3 DEF P!Above
  <1>5. CASE r.irr # {} /\ r.isr = {}
    <2>1. P!Above(r) = {0}
      BY <1>2, <1>4, <1>5
    <2> QED
      BY <1>3, <1>5, <2>1 DEF P!BestOf
  <1>6. CASE ~(r.irr # {} /\ r.isr = {})
    <2>1. P!Above(r) = {}
      BY <1>2, <1>4, <1>6
    <2> QED
      BY <1>6, <2>1 DEF P!BestOf, P!None, None
  <1> QED
    BY <1>5, <1>6

LEMMA FoundSame ==
    ASSUME NEW r \in ChipHere, NEW b \in Int, NEW f, NEW g, r.best = b, r.frozen = f, r.pending = g
    PROVE  [r EXCEPT !.best = b, !.frozen = f, !.pending = g] = r
  BY DEF ChipHere

LEMMA PowerOnHere ==
    /\ P!PowerOn \in ChipHere /\ P!PowerOn.irr = {} /\ P!PowerOn.isr = {}
    /\ P!Found(P!PowerOn) = P!PowerOn
  <1>1. P!PowerOn \in ChipHere /\ P!PowerOn.irr = {} /\ P!PowerOn.isr = {}
    BY DEF P!PowerOn, ChipHere, P!None, None
  <1>2. P!BestOf(P!PowerOn) = None
    BY <1>1, BestHere
  <1>3. (P!BestOf(P!PowerOn) # P!None) = FALSE
    BY <1>2 DEF P!None, None
  <1>4. P!Found(P!PowerOn) = [P!PowerOn EXCEPT !.best = None, !.frozen = FALSE, !.pending = FALSE]
    BY <1>2, <1>3 DEF P!Found
  <1>5. P!PowerOn.best = None /\ P!PowerOn.frozen = FALSE /\ P!PowerOn.pending = FALSE
    BY DEF P!PowerOn, P!None, None
  <1>6. None \in Int
    BY DEF None
  <1>7. [P!PowerOn EXCEPT !.best = None, !.frozen = FALSE, !.pending = FALSE] = P!PowerOn
    BY <1>1, <1>5, <1>6, FoundSame, Zenon
  <1> QED
    BY <1>1, <1>4, <1>7, Zenon

LEMMA FoundHere ==
    ASSUME NEW r \in ChipHere
    PROVE  /\ P!Found(r) \in ChipHere /\ P!Found(r).irr = r.irr /\ P!Found(r).isr = r.isr
           /\ P!Found(r).pending = (r.irr # {} /\ r.isr = {})
           /\ P!Found(r).pending => P!Found(r).best = 0
  <1>1. P!BestOf(r) = IF r.irr # {} /\ r.isr = {} THEN 0 ELSE None
    BY BestHere
  <1>2. PICK b \in {None, 0} : b = P!BestOf(r)
    BY <1>1
  <1>3. PICK g \in BOOLEAN : g = (P!BestOf(r) # None)
    OBVIOUS
  <1>4. P!Found(r) = [r EXCEPT !.best = b, !.frozen = FALSE, !.pending = g]
    BY <1>2, <1>3, Zenon DEF P!Found, P!None, None
  <1>5. g = (r.irr # {} /\ r.isr = {}) /\ (g => b = 0)
    <2>1. CASE r.irr # {} /\ r.isr = {}
      <3>1. b = 0 /\ b # None
        BY <1>1, <1>2, <2>1 DEF None
      <3> QED
        BY <1>2, <1>3, <2>1, <3>1, Zenon
    <2>2. CASE ~(r.irr # {} /\ r.isr = {})
      <3>1. b = None
        BY <1>1, <1>2, <2>2
      <3> QED
        BY <1>2, <1>3, <2>2, <3>1, Zenon
    <2> QED
      BY <2>1, <2>2
  <1>6. /\ P!Found(r) \in ChipHere /\ P!Found(r).irr = r.irr /\ P!Found(r).isr = r.isr
        /\ P!Found(r).pending = g /\ P!Found(r).best = b
    <2>1. PICK q : q = P!Found(r)
      OBVIOUS
    <2>2. q = [r EXCEPT !.best = b, !.frozen = FALSE, !.pending = g]
      BY <1>4, <2>1, Zenon
    <2>3. q \in ChipHere /\ q.irr = r.irr /\ q.isr = r.isr /\ q.pending = g /\ q.best = b
      BY <2>2 DEF ChipHere
    <2> QED
      BY <2>1, <2>3, Zenon
  <1> QED
    BY <1>5, <1>6

\* update_pending, with the slave at rest.
LEMMA UpdateHere ==
    ASSUME NEW p \in [P!Chips -> ChipHere], p["slave"] = P!PowerOn,
           P!Update(p)
    PROVE  /\ pic' \in [P!Chips -> ChipHere] /\ pic'["slave"] = P!PowerOn
           /\ pic'["master"].irr = p["master"].irr /\ pic'["master"].isr = p["master"].isr
           /\ pic'["master"].pending = (p["master"].irr # {} /\ p["master"].isr = {})
           /\ pic'["master"].pending => pic'["master"].best = 0
  <1> DEFINE r == p["master"]
  <1>1. r \in ChipHere /\ p["slave"] \in ChipHere /\ DOMAIN p = {"master", "slave"}
    BY DEF P!Chips, P!Master, P!Slave
  <1>2. r.frozen = FALSE /\ r.irr \subseteq {0}
    BY <1>1 DEF ChipHere
  <1>3. P!Found(p["slave"]) = P!PowerOn
    BY PowerOnHere
  <1>4. P!PowerOn.pending = FALSE /\ P!RequestsOn(P!PowerOn) = 1
    BY DEF P!PowerOn, P!RequestsOn, P!Wired
  <1>5. [r EXCEPT !.irr = r.irr \ {1}] = r
    <2>1. r.irr \ {1} = r.irr
      BY <1>2
    <2> QED
      BY <1>1, <2>1 DEF ChipHere
  <1>6. P!UpdatePending(p) = [p EXCEPT !["master"] = P!Found(r), !["slave"] = P!PowerOn]
    BY <1>2, <1>3, <1>4, <1>5 DEF P!UpdatePending, P!Master, P!Slave
  <1>9. /\ P!Found(r) \in ChipHere /\ P!Found(r).irr = r.irr /\ P!Found(r).isr = r.isr
        /\ P!Found(r).pending = (r.irr # {} /\ r.isr = {})
        /\ P!Found(r).pending => P!Found(r).best = 0
    BY <1>1, FoundHere
  <1>10. pic' = [p EXCEPT !["master"] = P!Found(r), !["slave"] = P!PowerOn]
    BY <1>6 DEF P!Update
  <1>11. pic'["master"] = P!Found(r) /\ pic'["slave"] = P!PowerOn
    BY <1>1, <1>10
  <1>12. pic' \in [P!Chips -> ChipHere]
    BY <1>1, <1>9, <1>10, PowerOnHere DEF P!Chips, P!Master, P!Slave
  <1> QED
    BY <1>9, <1>11, <1>12

\* The port's line moves, or is raised again.
LEMMA HoldHere ==
    ASSUME Chips2, Served, Driven, irq \in BOOLEAN, irq' \in BOOLEAN, P!Hold(Com, irq')
    PROVE  /\ Chips2' /\ Served' /\ Driven' /\ stack' = stack
           /\ irq' => 0 \in pic'["master"].irr
  <1> DEFINE p == [pic EXCEPT !["master"].irr = IF irq' THEN @ \cup {0} ELSE @ \ {0}]
  <1>1. /\ asserted' = [asserted EXCEPT ![Com] = irq']
        /\ lines' = IF asserted[Com] # irq'
                    THEN [lines EXCEPT !["master"][0] =
                             (IF irq' THEN lines["master"][0] + 1 ELSE lines["master"][0] - 1) % 2]
                    ELSE lines
        /\ P!Update(p) /\ stack' = stack
    BY DEF P!Hold, P!Request, NoLevel
  <1>2. p \in [P!Chips -> ChipHere] /\ p["slave"] = P!PowerOn
    BY ZenonT(40) DEF Chips2, ChipHere, P!Chips, P!Master, P!Slave
  <1>3. /\ p["master"].isr = pic["master"].isr
        /\ irq' => 0 \in p["master"].irr
    BY DEF Chips2, ChipHere, P!Chips, P!Master, P!Slave
  <1> HIDE DEF p
  <1>4. Chips2' /\ Served' /\ (irq' => 0 \in pic'["master"].irr)
    BY <1>1, <1>2, <1>3, UpdateHere DEF Chips2, Served
  <1>5. asserted' = [d \in {Com} |-> irq']
    BY <1>1 DEF Driven
  <1>6. asserted[Com] = irq /\ lines["master"] \in [0 .. 1 -> 0 .. 1]
        /\ "master" \in P!Chips /\ 0 \in 0 .. 1
    BY DEF Driven, P!Chips, P!Master
  <1>7. lines' \in [P!Chips -> [0 .. 1 -> 0 .. 1]] /\ lines'["master"][0] = IF irq' THEN 1 ELSE 0
    <2>1. CASE irq' = irq
      BY <1>1, <1>6, <2>1 DEF Driven
    <2>2. CASE irq' # irq
      <3>1. (IF irq' THEN lines["master"][0] + 1 ELSE lines["master"][0] - 1) % 2
              = IF irq' THEN 1 ELSE 0
        BY <1>6, <2>2 DEF Driven
      <3>2. lines' = [lines EXCEPT !["master"][0] = IF irq' THEN 1 ELSE 0]
        BY <1>1, <1>6, <2>2, <3>1
      <3> QED
        BY <1>6, <3>2 DEF Driven
    <2> QED
      BY <2>1, <2>2
  <1> QED
    BY <1>1, <1>4, <1>5, <1>7 DEF Driven

\* serial_do_irq: a step that says whether it calls it.
LEMMA DoIrqHere ==
    ASSUME TypeInv, TypeInv', Chips2, Served, Driven, NEW called, DoIrq(called), called \/ irq' = irq
    PROVE  /\ Chips2' /\ Served' /\ Driven' /\ stack' = stack
           /\ irq' /\ (called \/ 0 \in pic["master"].irr) => 0 \in pic'["master"].irr
           /\ [P!Next]_(P!vars)
  <1>1. irq \in BOOLEAN /\ irq' \in BOOLEAN
    BY Zenon DEF TypeInv, Line
  <1>2. CASE called /\ (irq' \/ irq)
    <2>1. P!Hold(Com, irq')
      BY <1>2 DEF DoIrq
    <2>2. P!Next
      BY <1>1, <2>1 DEF P!Next
    <2> QED
      BY <1>1, <2>1, <2>2, HoldHere
  <1>3. CASE ~(called /\ (irq' \/ irq))
    <2>1. UNCHANGED controller
      BY <1>3 DEF DoIrq
    <2>2. irq' = irq /\ (called => ~irq')
      BY <1>1, <1>3
    <2> QED
      BY <2>1, <2>2 DEF controller, Chips2, Served, Driven, P!vars
  <1> QED
    BY <1>2, <1>3

\* The CPU takes the interrupt: the master alone answers.
LEMMA TakeHere ==
    ASSUME Chips2, Served, P!Take
    PROVE  Chips2' /\ Served'
  <1> DEFINE m == pic["master"]
             taken == [m EXCEPT !.isr = m.isr \cup {0}, !.irr = m.irr \ {0},
                                !.frozen = FALSE, !.pending = FALSE, !.best = None]
             p == [pic EXCEPT !["master"] = taken]
  <1>1. m \in ChipHere /\ m.pending /\ DOMAIN pic = {"master", "slave"}
    BY DEF Chips2, P!Take, P!Chips, P!Master, P!Slave
  <1>2. m.best = 0 /\ m.aeoi = FALSE /\ m.isr = {} /\ stack = <<>>
    BY <1>1 DEF Served, ChipHere
  <1>3. P!TakeFromMaster
    BY <1>2 DEF P!Take, P!TakeFromSlave, P!Master
  <1>4. P!Acknowledge([pic EXCEPT !["master"].frozen = TRUE], "master")
          = [pic EXCEPT !["master"] = [m EXCEPT !.isr = m.isr \cup {0}, !.irr = m.irr \ {0},
                                                !.frozen = TRUE]]
    <2> DEFINE e == [m EXCEPT !.frozen = TRUE]
               f == [pic EXCEPT !["master"].frozen = TRUE]
    <2>1. f = [pic EXCEPT !["master"] = e] /\ f["master"] = e
      BY <1>1
    <2>2. e.best = 0 /\ e.isr = m.isr /\ e.irr = m.irr
      BY <1>1, <1>2 DEF ChipHere
    <2>3. P!Acknowledge(f, "master") = [f EXCEPT !["master"].isr = @ \cup {0},
                                                 !["master"].irr = @ \ {0}]
      <3>1. f["master"].best = 0 /\ ~(0 \in NoLevel["master"])
        BY <2>1, <2>2 DEF NoLevel
      <3> HIDE DEF e, f
      <3> QED
        BY <3>1 DEF P!Acknowledge
    <2>4. [e EXCEPT !.isr = e.isr \cup {0}, !.irr = e.irr \ {0}]
            = [m EXCEPT !.isr = m.isr \cup {0}, !.irr = m.irr \ {0}, !.frozen = TRUE]
      BY <1>1, <2>2 DEF ChipHere
    <2>5. [f EXCEPT !["master"].isr = @ \cup {0}, !["master"].irr = @ \ {0}]
            = [pic EXCEPT !["master"] = [e EXCEPT !.isr = e.isr \cup {0}, !.irr = e.irr \ {0}]]
      <3> HIDE DEF e, f
      <3> QED
        BY <1>1, <2>1
    <2> QED
      BY <2>3, <2>4, <2>5
  <1>5. P!Update(p) /\ stack' = <<<<"master", 0>>>>
    <2> DEFINE p0 == P!Acknowledge([pic EXCEPT !["master"].frozen = TRUE], "master")
               p1 == [p0 EXCEPT !["master"].pending = FALSE]
    <2>1. /\ P!Update([P!AutoEoi(p1, "master") EXCEPT !["master"].best = None,
                                                     !["master"].frozen = FALSE])
          /\ stack' = IF m.aeoi THEN stack ELSE Append(stack, <<"master", m.best>>)
      BY <1>3 DEF P!TakeFromMaster, P!Master, P!None, None
    <2> DEFINE a == [m EXCEPT !.isr = m.isr \cup {0}, !.irr = m.irr \ {0}, !.frozen = TRUE]
               b == [a EXCEPT !.pending = FALSE]
    <2>2. b.aeoi = FALSE /\ [b EXCEPT !.best = None, !.frozen = FALSE] = taken
      BY <1>1, <1>2 DEF ChipHere
    <2>3. p0 = [pic EXCEPT !["master"] = a]
      BY <1>4
    <2> HIDE DEF a, taken, p0
    <2>4. p1 = [pic EXCEPT !["master"] = b]
      BY <1>1, <2>3
    <2>5. p1["master"].aeoi = FALSE
      BY <1>1, <2>2, <2>4
    <2>6. P!AutoEoi(p1, "master") = p1
      BY <2>5 DEF P!AutoEoi
    <2>7. [p1 EXCEPT !["master"].best = None, !["master"].frozen = FALSE] = p
      BY <1>1, <2>2, <2>4
    <2>8. stack' = <<<<"master", 0>>>>
      BY <1>2, <2>1
    <2> HIDE DEF p1, p
    <2> QED
      BY <2>1, <2>6, <2>7, <2>8, Zenon
  <1>6. taken \in ChipHere /\ taken.isr = {0}
    BY <1>1, <1>2 DEF ChipHere
  <1>7. p \in [P!Chips -> ChipHere] /\ p["slave"] = P!PowerOn /\ p["master"] = taken
    BY <1>1, <1>6 DEF Chips2, P!Chips, P!Master, P!Slave
  <1> HIDE DEF taken, p
  <1> QED
    BY <1>5, <1>6, <1>7, UpdateHere DEF Chips2, Served

\* The handler's EOI.
LEMMA EoiHere ==
    ASSUME Chips2, Served, P!Eoi("master", FALSE)
    PROVE  Chips2' /\ Served' /\ pic'["master"].irr = pic["master"].irr
  <1> DEFINE m == pic["master"]
             done == [m EXCEPT !.isr = {}]
             p == [pic EXCEPT !["master"] = done]
  <1>1. m \in ChipHere /\ DOMAIN pic = {"master", "slave"}
    BY DEF Chips2, P!Chips, P!Master, P!Slave
  <1>2. stack # <<>>
    BY DEF P!Eoi
  <1>3. m.isr = {0} /\ m.priority = 0 /\ stack = <<<<"master", 0>>>>
    BY <1>1, <1>2 DEF Served, ChipHere
  <1>4. P!InService(m) = 0
    BY <1>3 DEF P!InService, P!Rank
  <1>5. P!Action(m, FALSE) = done
    BY <1>1, <1>3, <1>4 DEF P!Action, ChipHere
  <1>6. P!Update(p) /\ stack' = <<>>
    <2>1. P!Update([pic EXCEPT !["master"] = P!Action(m, FALSE)])
      BY DEF P!Eoi
    <2>2. stack' = SubSeq(stack, 1, Len(stack) - 1)
      BY DEF P!Eoi
    <2>3. ASSUME NEW x PROVE SubSeq(<<x>>, 1, Len(<<x>>) - 1) = <<>>
      OBVIOUS
    <2>4. stack' = <<>>
      BY <1>3, <2>2, <2>3, Zenon
    <2> QED
      BY <1>5, <2>1, <2>4, Zenon
  <1>7. done \in ChipHere /\ done.isr = {} /\ done.irr = m.irr
    BY <1>1 DEF ChipHere
  <1>8. p \in [P!Chips -> ChipHere] /\ p["slave"] = P!PowerOn /\ p["master"] = done
    BY <1>1, <1>7 DEF Chips2, P!Chips, P!Master, P!Slave
  <1> HIDE DEF done, p
  <1> QED
    BY <1>6, <1>7, <1>8, UpdateHere DEF Chips2, Served

-----------------------------------------------------------------------------
(* The whole.                                                              *)

\* An asserted port has its request latched, but while the handler is still
\* to look, or to serve a cause whose service ends in serial_update_ints.
Latched ==
    /\ pc \in {"main", "isr", "serve", "return"}
    /\ pc = "main" => stack = <<>>
    /\ irq /\ (pc \in {"main", "return"} \/ (pc = "serve" /\ cause = "TRANSMIT"))
         => 0 \in pic["master"].irr

Joined == TypeInv /\ Named /\ Chips2 /\ Served /\ Driven /\ Latched

\* A step of the port, from a guest that stays where it is.
LEMMA PortJoined ==
    ASSUME Joined, TypeInv', Named', NEW called, DoIrq(called), called \/ irq' = irq, UNCHANGED guest
    PROVE  Joined' /\ [P!Next]_(P!vars)
  <1>1. /\ Chips2' /\ Served' /\ Driven' /\ stack' = stack
        /\ irq' /\ (called \/ 0 \in pic["master"].irr) => 0 \in pic'["master"].irr
        /\ [P!Next]_(P!vars)
    BY DoIrqHere, Zenon DEF Joined
  <1>2. Latched'
    BY <1>1 DEF Joined, Latched, guest
  <1> QED
    BY <1>1, <1>2, Zenon DEF Joined

LEMMA TimersJoined ==
    ASSUME Joined, TypeInv', Timers
    PROVE  Joined' /\ [P!Next]_(P!vars)
  <1>1. CASE Receives
    <2>1. ReceiveTimer /\ UNCHANGED guest
      BY <1>1, Zenon DEF Receives, Timers
    <2>2. Named' /\ (\/ delta' # {} \/ out_new # None \/ (nin' # nin /\ "LOOP" \notin mctrl)
                     \/ irq' = irq)
      BY <2>1, PortReceives, Zenon DEF Joined
    <2>3. DoIrq(\/ delta' # {} \/ out_new # None
                \/ nin' # nin /\ "LOOP" \notin mctrl)
      BY <1>1 DEF Receives
    <2> QED
      BY <2>1, <2>2, <2>3, PortJoined, Zenon
  <1>2. CASE Transmits
    <2>1. TransmitTimer /\ UNCHANGED guest
      BY <1>2, Zenon DEF Transmits, Timers
    <2>2. Named' /\ (\/ baud_cycles' = 0
                     \/ baud_cycles' = 1 /\ "move" \in transmit_enabled
                                         /\ (fifo_enabled => xmit' = <<>>)
                     \/ irq' = irq)
      BY <2>1, PortTransmits, Zenon DEF Joined
    <2>3. DoIrq(\/ baud_cycles' = 0
                \/ baud_cycles' = 1 /\ "move" \in transmit_enabled
                                    /\ (fifo_enabled => xmit' = <<>>))
      BY <1>2 DEF Transmits
    <2> QED
      BY <2>1, <2>2, <2>3, PortJoined, Zenon
  <1>3. CASE TimesOut
    <2>1. TimeoutTimer /\ UNCHANGED guest /\ DoIrq(TRUE)
      BY <1>3, Zenon DEF TimesOut, Timers
    <2>2. Named'
      BY <2>1, PortUpdates, Zenon DEF Joined
    <2> QED
      BY <2>1, <2>2, PortJoined, Zenon
  <1> QED
    BY <1>1, <1>2, <1>3, Zenon DEF Timers

LEMMA MainJoined ==
    ASSUME Joined, TypeInv', Main
    PROVE  Joined' /\ [P!Next]_(P!vars)
  <1>1. UNCHANGED guest /\ Writes /\ TypeInv /\ Named
    BY Zenon DEF Main, Joined
  <1>2. /\ WriteThr => Named' /\ (fifo_enabled => irq' = irq)
        /\ WriteIer => Named'
        /\ WriteFcr => Named'
        /\ WriteLcr => Named' /\ irq' = irq
        /\ WriteMcr => Named'
    BY <1>1, PortWrites, Zenon
  <1>3. CASE WriteThr /\ DoIrq(~fifo_enabled)
    <2>1. ~fifo_enabled \/ irq' = irq
      BY <1>2, <1>3, Zenon
    <2> QED
      BY <1>1, <1>2, <1>3, <2>1, PortJoined, Zenon
  <1>4. CASE WriteIer /\ DoIrq(TRUE)
    BY <1>1, <1>2, <1>4, PortJoined, Zenon
  <1>5. CASE WriteFcr /\ DoIrq(lsr' # lsr \/ int_status' # int_status \/ irq' # irq)
    <2>1. (lsr' # lsr \/ int_status' # int_status \/ irq' # irq) \/ irq' = irq
      OBVIOUS
    <2> QED
      BY <1>1, <1>2, <1>5, <2>1, PortJoined, Zenon
  <1>6. CASE WriteLcr /\ DoIrq(FALSE)
    BY <1>1, <1>2, <1>6, PortJoined, Zenon
  <1>7. CASE WriteMcr /\ DoIrq(int_status' # int_status \/ irq' # irq \/ delta' # {})
    <2>1. (int_status' # int_status \/ irq' # irq \/ delta' # {}) \/ irq' = irq
      OBVIOUS
    <2> QED
      BY <1>1, <1>2, <1>7, <2>1, PortJoined, Zenon
  <1> QED
    BY <1>1, <1>3, <1>4, <1>5, <1>6, <1>7, Zenon DEF Writes

\* The handler.
LEMMA LookJoined ==
    ASSUME Joined, TypeInv', Look
    PROVE  Joined' /\ [P!Next]_(P!vars)
  <1>1. /\ pc = "isr" /\ cause' = iir
        /\ pc' = IF iir = "NONE" THEN "return" ELSE "serve"
    BY Zenon DEF Look
  <1>2. CASE ReadIir /\ DoIrq(TRUE)
    <2>1. Named' /\ iir = "TRANSMIT"
      BY <1>2, PortUpdates, Zenon DEF Joined, ReadIir
    <2>2. /\ Chips2' /\ Served' /\ Driven' /\ stack' = stack
          /\ irq' => 0 \in pic'["master"].irr
          /\ [P!Next]_(P!vars)
      BY <1>2, DoIrqHere, Zenon DEF Joined
    <2>3. Latched'
      BY <1>1, <2>1, <2>2 DEF Latched
    <2> QED
      BY <2>1, <2>2, <2>3, Zenon DEF Joined
  <1>3. CASE iir # "TRANSMIT" /\ UNCHANGED <<vars, controller>>
    <2>1. /\ UNCHANGED <<pic, lines, asserted, stack, stalePic, missed>>
          /\ irq' = irq /\ iir' = iir
      BY <1>3 DEF controller, vars, ints
    <2>2. Named' /\ Chips2' /\ Served' /\ Driven'
      BY <2>1 DEF Joined, Named, Chips2, Served, Driven
    <2>3. iir = "NONE" => ~irq
      BY Zenon DEF Joined, Named
    <2>4. Latched'
      BY <1>1, <1>3, <2>1, <2>3 DEF Latched
    <2>5. UNCHANGED P!vars
      BY <2>1 DEF P!vars
    <2> QED
      BY <2>2, <2>4, <2>5, Zenon DEF Joined
  <1> QED
    BY <1>2, <1>3, Zenon DEF Look

LEMMA ServeJoined ==
    ASSUME Joined, TypeInv', Serve
    PROVE  Joined' /\ [P!Next]_(P!vars)
  <1>1. pc = "serve" /\ pc' \in {"isr", "return"} /\ cause' = cause
    BY Zenon DEF Serve
  <1>2. CASE (ReadRbr \/ ReadLsr \/ ReadMsr) /\ DoIrq(TRUE)
    <2>1. Named'
      BY <1>2, PortUpdates, Zenon DEF Joined
    <2>2. /\ Chips2' /\ Served' /\ Driven' /\ stack' = stack
          /\ irq' => 0 \in pic'["master"].irr
          /\ [P!Next]_(P!vars)
      BY <1>2, DoIrqHere, Zenon DEF Joined
    <2>3. Latched'
      BY <1>1, <2>2 DEF Latched
    <2> QED
      BY <2>1, <2>2, <2>3, Zenon DEF Joined
  <1>3. CASE cause = "TRANSMIT" /\ WriteThr /\ DoIrq(~fifo_enabled)
    <2>1. Named' /\ (~fifo_enabled \/ irq' = irq)
      BY <1>3, PortWrites, Zenon DEF Joined
    <2>2. irq => 0 \in pic["master"].irr
      BY <1>1, <1>3 DEF Joined, Latched
    <2>3. /\ Chips2' /\ Served' /\ Driven' /\ stack' = stack
          /\ irq' /\ (~fifo_enabled \/ 0 \in pic["master"].irr) => 0 \in pic'["master"].irr
          /\ [P!Next]_(P!vars)
      BY <1>3, <2>1, DoIrqHere, Zenon DEF Joined
    <2>4. irq' => 0 \in pic'["master"].irr
      BY <2>1, <2>2, <2>3, Zenon
    <2>5. Latched'
      BY <1>1, <2>4 DEF Latched
    <2> QED
      BY <2>1, <2>3, <2>5, Zenon DEF Joined
  <1>4. CASE cause = "TRANSMIT" /\ UNCHANGED <<vars, controller>>
    <2>1. /\ UNCHANGED <<pic, lines, asserted, stack, stalePic, missed>>
          /\ irq' = irq /\ iir' = iir
      BY <1>4 DEF controller, vars, ints
    <2>2. Named' /\ Chips2' /\ Served' /\ Driven'
      BY <2>1 DEF Joined, Named, Chips2, Served, Driven
    <2>3. Latched'
      BY <1>1, <1>4, <2>1 DEF Joined, Latched
    <2>4. UNCHANGED P!vars
      BY <2>1 DEF P!vars
    <2> QED
      BY <2>2, <2>3, <2>4, Zenon DEF Joined
  <1> QED
    BY <1>2, <1>3, <1>4, Zenon DEF Serve

\* The CPU between the handler and what it interrupted.
LEMMA CpuJoined ==
    ASSUME Joined, TypeInv', Interrupt \/ EndOfInterrupt \/ Return
    PROVE  Joined' /\ [P!Next]_(P!vars)
  <1>1. irq' = irq /\ iir' = iir
    BY DEF Interrupt, EndOfInterrupt, Return, vars, ints
  <1>2. CASE Interrupt
    <2>1. P!Take /\ pc' = "isr" /\ lines' = lines /\ asserted' = asserted
      BY <1>2 DEF Interrupt, P!Take
    <2>2. Chips2' /\ Served'
      BY <2>1, TakeHere, Zenon DEF Joined
    <2>3. Named' /\ Driven' /\ Latched'
      BY <1>1, <2>1 DEF Joined, Named, Driven, Latched
    <2>4. P!Next
      BY <2>1 DEF P!Next
    <2> QED
      BY <2>2, <2>3, <2>4, Zenon DEF Joined
  <1>3. CASE EndOfInterrupt
    <2>1. /\ P!Eoi("master", FALSE) /\ pc # "main" /\ pc' = pc /\ cause' = cause
          /\ lines' = lines /\ asserted' = asserted
      BY <1>3 DEF EndOfInterrupt, P!Eoi, guest
    <2>2. Chips2' /\ Served' /\ pic'["master"].irr = pic["master"].irr
      BY <2>1, EoiHere, Zenon DEF Joined
    <2>3. Named' /\ Driven' /\ Latched'
      BY <1>1, <2>1, <2>2 DEF Joined, Named, Driven, Latched
    <2>4. P!Next
      BY <2>1 DEF P!Next, P!Guest, P!Chips, P!Master
    <2> QED
      BY <2>2, <2>3, <2>4, Zenon DEF Joined
  <1>4. CASE Return
    <2>1. /\ pc = "return" /\ stack = <<>> /\ pc' = "main"
          /\ UNCHANGED <<pic, lines, asserted, stack, stalePic, missed>>
      BY <1>4 DEF Return, controller
    <2>2. Named' /\ Chips2' /\ Served' /\ Driven' /\ Latched'
      BY <1>1, <2>1 DEF Joined, Named, Chips2, Served, Driven, Latched
    <2>3. UNCHANGED P!vars
      BY <2>1 DEF P!vars
    <2> QED
      BY <2>2, <2>3, Zenon DEF Joined
  <1> QED
    BY <1>2, <1>3, <1>4

LEMMA InitJoined == ComInit => Joined
  <1> SUFFICES ASSUME ComInit PROVE Joined
    OBVIOUS
  <1>1. TypeInv
    BY InitType DEF ComInit
  <1>2. irq = FALSE
    BY DEF ComInit, Init
  <1>3. /\ pic = [i \in P!Chips |-> P!PowerOn] /\ stack = <<>>
        /\ lines = [i \in P!Chips |-> [c \in 0 .. 1 |-> 0]]
        /\ asserted = [d \in {Com} |-> FALSE] /\ pc = "main"
    BY DEF ComInit, P!Init, P!Channels
  <1>4. "master" \in P!Chips /\ "slave" \in P!Chips
    BY DEF P!Chips, P!Master, P!Slave
  <1>5. Chips2
    BY <1>3, <1>4, PowerOnHere DEF Chips2
  <1>6. Served
    <2>1. P!PowerOn.pending = FALSE
      BY DEF P!PowerOn
    <2> QED
      BY <1>3, <1>4, <2>1, PowerOnHere DEF Served
  <1>7. Driven
    <2>1. lines["master"][0] = 0 /\ lines \in [P!Chips -> [0 .. 1 -> 0 .. 1]]
      BY <1>3, <1>4
    <2>2. asserted = [d \in {Com} |-> irq]
      BY <1>2, <1>3, Zenon
    <2> QED
      BY <1>2, <2>1, <2>2 DEF Driven
  <1> QED
    BY <1>1, <1>2, <1>3, <1>5, <1>6, <1>7 DEF Joined, Named, Latched

LEMMA StepJoined ==
    ASSUME Joined, [ComNext]_all
    PROVE  Joined' /\ [P!Next]_(P!vars)
  <1>1. TypeInv'
    BY PortStep, TypeKept, Zenon DEF Joined
  <1>2. CASE UNCHANGED all
    <2>1. /\ UNCHANGED <<pic, lines, asserted, stack, stalePic, missed>>
          /\ irq' = irq /\ iir' = iir /\ pc' = pc /\ cause' = cause
      BY <1>2 DEF all, controller, guest, vars, ints
    <2>2. Named' /\ Chips2' /\ Served' /\ Driven' /\ Latched'
      BY <2>1 DEF Joined, Named, Chips2, Served, Driven, Latched
    <2>3. UNCHANGED P!vars
      BY <2>1 DEF P!vars
    <2> QED
      BY <1>1, <2>2, <2>3, Zenon DEF Joined
  <1> QED
    BY <1>1, <1>2, TimersJoined, MainJoined, LookJoined, ServeJoined, CpuJoined, Zenon DEF ComNext

-----------------------------------------------------------------------------
(* The theorems.                                                           *)

\* The port, the controller and the line between them, in every state of the
\* machine.
THEOREM JoinedHolds == ComSpec => []Joined
  <1>1. ComInit => Joined
    BY InitJoined
  <1>2. Joined /\ [ComNext]_all => Joined'
    BY StepJoined
  <1> QED
    BY <1>1, <1>2, PTL DEF ComSpec

\* serial_do_irq and picint_common lose no edge: the controller sees the line
\* as the port drives it, and has a request of an asserted port that the
\* handler is not about to look at.
THEOREM EdgesKept == ComSpec => []EdgeLatched
  <1>1. Joined => EdgeLatched
    BY DEF Joined, Driven, Latched, EdgeLatched
  <1> QED
    BY <1>1, JoinedHolds, PTL

\* The machine is a port and a controller at once: each of its steps is one of
\* serial.c, one of pic.c, or both, so that what is proved of Spec and of
\* Pic's specification holds of it.
THEOREM PartsRun == ComSpec => Spec /\ P!Spec
  <1>1. ComInit => Init /\ P!Init
    BY DEF ComInit
  <1>2. [ComNext]_all => [Next]_vars
    BY PortStep
  <1>3. Joined /\ [ComNext]_all => [P!Next]_(P!vars)
    BY StepJoined
  <1> QED
    BY <1>1, <1>2, <1>3, JoinedHolds, PTL DEF ComSpec, Spec, P!Spec

\* From the register to the CPU: a cause that is pending and enabled in a port
\* whose driver set it up with its interrupts off has the CPU's interrupt line
\* asserted whenever the CPU is not in the handler.
Interrupts ==
    Wanted(int_status, ier) # {} /\ "OUT2" \in mctrl /\ pc = "main" => pic["master"].pending

THEOREM CauseReachesCpu ==
    ASSUME Careful
    PROVE  ComSpec => []Interrupts
  <1>1. Joined /\ IrqAsserted => Interrupts
    <2> SUFFICES ASSUME Joined, IrqAsserted, Wanted(int_status, ier) # {}, "OUT2" \in mctrl, pc = "main"
                 PROVE  pic["master"].pending
      BY DEF Interrupts
    <2>1. irq
      BY DEF IrqAsserted
    <2>2. 0 \in pic["master"].irr /\ stack = <<>>
      BY <2>1 DEF Joined, Latched
    <2>3. pic["master"].isr = {}
      BY <2>2 DEF Joined, Served
    <2> QED
      BY <2>2, <2>3 DEF Joined, Served
  <1> QED
    BY <1>1, JoinedHolds, PartsRun, IrqSafe, PTL
=============================================================================
