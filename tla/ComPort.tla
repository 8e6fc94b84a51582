------------------------------- MODULE ComPort ------------------------------
(***************************************************************************)
(* A COM port, the interrupt controller it is wired to and a guest that    *)
(* serves it by interrupts: Uart and Pic together.                         *)
(*                                                                         *)
(* They meet in serial_do_irq, which every serial_update_ints ends with:   *)
(* with a cause pending it raises the line again, though it is up; with    *)
(* none it lets go of it once.  The controller's channel is edge           *)
(* triggered, as an ISA machine's are.                                     *)
(*                                                                         *)
(* The guest's handler reads IIR, serves the cause it finds, and either    *)
(* looks again or returns.  It sends its EOI at any moment before it       *)
(* returns; until then its interrupts are off.                             *)
(***************************************************************************)
EXTENDS Uart

VARIABLES
    pic, lines, asserted, stack, stalePic, missed,   \* see Pic
    pc,           \* where the guest is: "main", "isr", "serve", "return"
    cause         \* what it read from IIR

controller == <<pic, lines, asserted, stack, stalePic, missed>>
guest == <<pc, cause>>
all == <<vars, controller, guest>>

Com == "com"
NoLevel == [i \in {"master", "slave"} |-> {}]
P == INSTANCE Pic WITH
    Last <- 1, Cascade <- 1, Level <- NoLevel,
    Devices <- {Com}, Wire <- [d \in {Com} |-> <<"master", 0>>], Holders <- {Com},
    Masks <- {{}}, Rotations <- {FALSE}, AutoEois <- {FALSE},
    LineWrap <- 2, MaxDepth <- 1, stale <- stalePic

ComInit == Init /\ P!Init /\ pc = "main" /\ cause = "NONE"

-----------------------------------------------------------------------------
\* Seeded fault: the line is raised when it was down.
DoIrqOnChange(called) ==
    IF called /\ irq' # irq THEN P!Hold(Com, irq') ELSE UNCHANGED controller

\* serial_do_irq, after a step of the UART that calls serial_update_ints, or
\* not.
DoIrq(called) ==
    IF called /\ (irq' \/ irq) THEN P!Hold(Com, irq') ELSE UNCHANGED controller

\* The steps that do not call it: nothing received and no line changed, a
\* tick and a move that leaves bytes in the FIFO, a write to the FIFO, an FCR
\* that leaves the receiver alone, an MCR that changes no line and leaves
\* OUT2 on.
Receives ==
    /\ ReceiveTimer
    /\ DoIrq(\/ delta' # {} \/ out_new # None
             \/ nin' # nin /\ "LOOP" \notin mctrl)

Transmits ==
    /\ TransmitTimer
    /\ DoIrq(\/ baud_cycles' = 0
             \/ baud_cycles' = 1 /\ "move" \in transmit_enabled
                                 /\ (fifo_enabled => xmit' = <<>>))

TimesOut == TimeoutTimer /\ DoIrq(TRUE)

Timers == (Receives \/ Transmits \/ TimesOut) /\ UNCHANGED guest

Writes ==
    \/ WriteThr /\ DoIrq(~fifo_enabled)
    \/ WriteIer /\ ier' # ier /\ DoIrq(TRUE)
    \/ WriteFcr /\ DoIrq(lsr' # lsr \/ int_status' # int_status \/ irq' # irq)
    \/ WriteLcr /\ DoIrq(FALSE)
    \/ WriteMcr /\ DoIrq(int_status' # int_status \/ irq' # irq \/ delta' # {})

-----------------------------------------------------------------------------
\* The guest.  It writes IER to change it: a write of the same bits makes the
\* transmitter's cause pending again, and over and over starves the lines'.
Main == pc = "main" /\ Writes /\ UNCHANGED guest

Interrupt ==
    /\ pc = "main"
    /\ P!Take
    /\ pc' = "isr"
    /\ UNCHANGED <<vars, cause>>

\* The handler reads IIR.
Look ==
    /\ pc = "isr"
    /\ cause' = iir
    /\ pc' = IF iir = "NONE" THEN "return" ELSE "serve"
    /\ \/ ReadIir /\ DoIrq(TRUE)
       \/ iir # "TRANSMIT" /\ UNCHANGED <<vars, controller>>

\* It serves what it read, though more may be pending by now; a transmitter
\* that is ready may get a byte.
Serve ==
    /\ pc = "serve"
    /\ \/ cause \in {"RECEIVE", "TIMEOUT"} /\ ReadRbr /\ DoIrq(TRUE)
       \/ cause = "LSR" /\ ReadLsr /\ DoIrq(TRUE)
       \/ cause = "MSR" /\ ReadMsr /\ DoIrq(TRUE)
       \/ cause = "TRANSMIT" /\ WriteThr /\ DoIrq(~fifo_enabled)
       \/ cause = "TRANSMIT" /\ UNCHANGED <<vars, controller>>
    /\ pc' \in {"isr", "return"}
    /\ UNCHANGED cause

EndOfInterrupt ==
    /\ pc # "main"
    /\ P!Eoi("master", FALSE)
    /\ UNCHANGED <<vars, guest>>

Return ==
    /\ pc = "return" /\ stack = <<>>
    /\ pc' = "main" /\ cause' = "NONE"
    /\ UNCHANGED <<vars, controller>>

Handler == Look \/ Serve \/ Return

ComNext == Timers \/ Main \/ Interrupt \/ Look \/ Serve \/ Return \/ EndOfInterrupt

\* The character timeout expires, and the guest's CPU takes interrupts and
\* gets on with its handler.
CPU == Interrupt \/ Handler \/ EndOfInterrupt
ComSpec ==
    /\ ComInit /\ [][ComNext]_all
    /\ WF_all(TimesOut /\ UNCHANGED guest) /\ WF_all(CPU)

-----------------------------------------------------------------------------
\* The controller sees the line as the port drives it, and while it is up
\* there is a request, or the guest is in its handler and about to look: no
\* edge is lost between a port that asserts a level and a controller that
\* latches edges, whichever of the port's steps leave serial_do_irq out.
EdgeLatched ==
    /\ asserted[Com] = irq
    /\ lines["master"][0] = IF irq THEN 1 ELSE 0
    /\ irq /\ pc \in {"main", "return"} => 0 \in pic["master"].irr

\* However many causes come while one is served, and in whatever order, a
\* moment comes when the port has let go of its interrupt and the guest, if it
\* listens, has read all it received.  A timeout that outlived a flush is the
\* exception, and starves all below it: without the FIFO serial_read has
\* nothing that takes it away.
Listening == "RDA" \in ier /\ "OUT2" \in mctrl
Busy == ~stale /\ (irq \/ (ByteWaiting /\ Listening))
ComesToRest == Busy ~> ~Busy
=============================================================================
