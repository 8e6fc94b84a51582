-------------------------------- MODULE Pic ---------------------------------
(***************************************************************************)
(* The two 8259 interrupt controllers of an AT (src/pic.c) between the     *)
(* devices that raise and lower interrupt lines and a guest that masks,    *)
(* takes, polls and acknowledges them.                                     *)
(*                                                                         *)
(* A chip is a record of its registers.  pic_t.interrupt is two fields:    *)
(* best, the channel find_best_interrupt found last (None is 0x17), and    *)
(* frozen, its bit 0x20.  Every change ends with update_pending, except    *)
(* where the code has none.                                                *)
(*                                                                         *)
(* The guest is one that drives the chips as a BIOS or DOS does: the four  *)
(* initialisation words and the two steps of a poll are written with its   *)
(* interrupts off and in one go, and a handler ends with an EOI, for a     *)
(* channel of the slave one for each chip.  Special mask mode and the      *)
(* rotation of automatic EOIs stay off.                                    *)
(***************************************************************************)
EXTENDS Integers, Sequences, FiniteSets

CONSTANTS
    Last,         \* the last channel of a chip: 7
    Cascade,      \* the master's channel the slave is wired to: 2
    Level,        \* ELCR: the level-triggered channels of each chip
    Devices,
    Wire,         \* where a device is wired: a chip and a channel
    Holders,      \* the devices that say so when they let go of the line
                  \* (picint_common with level = 1), the others pulse it
    Masks,        \* what the guest writes to a mask register
    Rotations,    \* whether its EOIs rotate the priorities
    AutoEois,     \* whether ICW4 asks for automatic EOIs
    LineWrap,     \* lines is a counter of 32 bits: 2^32
    MaxDepth      \* bound: handlers interrupted by one another

Master == "master"
Slave == "slave"
Chips == {Master, Slave}
Channels == 0 .. Last
None == -1

ASSUME PicAssumption ==
    /\ Last \in Nat /\ Cascade \in Channels
    /\ Level \in [Chips -> SUBSET Channels]
    /\ {0, Cascade} \cap Level[Master] = {}      \* pic_elcr_write: val &= 0xf8
    /\ Wire \in [Devices -> (Chips \X Channels) \ {<<Master, Cascade>>}]
    /\ Holders \subseteq Devices
    /\ \A d \in Devices \ Holders : Wire[d][2] \notin Level[Wire[d][1]]
    /\ Masks \subseteq SUBSET Channels
    /\ Rotations \subseteq BOOLEAN /\ AutoEois \subseteq BOOLEAN
    /\ IsFiniteSet(Devices)
    /\ LineWrap \in Nat /\ Cardinality(Devices) < LineWrap
    /\ MaxDepth \in Nat \ {0}

VARIABLES
    pic,          \* the registers of each chip
    lines,        \* pic_t.lines: devices that hold a channel
    asserted,     \* the irq_state of each device
    stack,        \* the handlers the CPU is in, the innermost last
    stale,        \* History: something changed since the last update_pending
    missed        \* History: devices that moved their line while picint_common
                  \* took the master to have no slave

vars == <<pic, lines, asserted, stack, stale, missed>>

States == {"ready", "icw2", "icw3", "icw4"}
Chip == [irr : SUBSET Channels, imr : SUBSET Channels, isr : SUBSET Channels,
         priority : Channels, best : Channels \cup {None}, frozen : BOOLEAN,
         pending : BOOLEAN, poll : BOOLEAN, aeoi : BOOLEAN, state : States]
Handler == Chips \X Channels

TypeOK ==
    /\ pic \in [Chips -> Chip]
    /\ lines \in [Chips -> [Channels -> 0 .. LineWrap - 1]]
    /\ asserted \in [Devices -> BOOLEAN]
    /\ stack \in Seq(Handler)
    /\ stale \in BOOLEAN
    /\ missed \subseteq Devices

-----------------------------------------------------------------------------
\* The registers.

\* The place of channel c in the order of chip r: 0 is the highest.
Rank(r, c) == (c + Last + 1 - r.priority) % (Last + 1)

\* Seeded fault.
RequestsUnmasked(r) == IF r.state = "ready" THEN r.irr ELSE {}

\* find_best_interrupt: the highest request that is not masked, if it is
\* above everything in service.
Requests(r) == IF r.state = "ready" THEN r.irr \ r.imr ELSE {}
Above(r) == {c \in Requests(r) : \A d \in r.isr : Rank(r, c) < Rank(r, d)}
BestOf(r) == IF Above(r) = {} THEN None
             ELSE CHOOSE c \in Above(r) : \A d \in Above(r) : Rank(r, c) <= Rank(r, d)
Found(r) == [r EXCEPT !.best = BestOf(r), !.frozen = FALSE, !.pending = BestOf(r) # None]

\* Seeded fault.
RequestsOnZero(s) == 0

\* ICW1 clears ICW3.  Until it is written again the master has no slaves, and
\* the slave, whose ICW3 is 0, requests on channel 0.
Wired(r) == r.state \in {"ready", "icw4"}
RequestsOn(s) == IF Wired(s) THEN Cascade ELSE 0

\* pic_update_pending_at
UpdatePending(p) ==
    LET s == Found(p[Slave])
        m == [p[Master] EXCEPT !.irr = IF s.pending THEN @ \cup {RequestsOn(s)}
                                                    ELSE @ \ {RequestsOn(s)}]
    IN IF p[Master].frozen THEN p
       ELSE [p EXCEPT ![Master] = Found(m), ![Slave] = s]

Update(p) ==
    /\ pic' = UpdatePending(p)
    /\ stale' = (stale /\ p[Master].frozen)

\* Seeded fault.
AcknowledgeEdge(p, i) == [p EXCEPT ![i].isr = @ \cup {p[i].best}, ![i].irr = @ \ {p[i].best}]

\* pic_acknowledge: a level-triggered channel keeps its request while a
\* device holds the line.
Acknowledge(p, i) ==
    LET c == p[i].best IN
    [p EXCEPT ![i].isr = @ \cup {c},
              ![i].irr = IF c \in Level[i] /\ lines[i][c] > 0 THEN @ ELSE @ \ {c}]

\* pic_non_specific_find, pic_action
\* Seeded fault.
InServiceByNumber(r) == CHOOSE c \in r.isr : \A d \in r.isr : c <= d

InService(r) == CHOOSE c \in r.isr : \A d \in r.isr : Rank(r, c) <= Rank(r, d)
\* Seeded fault.
AfterNoWrap(c) == c + 1

After(c) == (c + 1) % (Last + 1)
Action(r, rotate) ==
    IF r.isr = {} THEN r
    ELSE [r EXCEPT !.isr = @ \ {InService(r)},
                   !.priority = IF rotate THEN After(InService(r)) ELSE @]
AutoEoi(p, i) == IF p[i].aeoi THEN [p EXCEPT ![i] = Action(@, FALSE)] ELSE p

Ready == \A i \in Chips : pic[i].state = "ready"
Polling == \E i \in Chips : pic[i].poll

-----------------------------------------------------------------------------
PowerOn == [irr |-> {}, imr |-> {}, isr |-> {}, priority |-> 0, best |-> None,
            frozen |-> FALSE, pending |-> FALSE, poll |-> FALSE, aeoi |-> FALSE,
            state |-> "ready"]

\* The machine as its BIOS leaves it.
Init ==
    /\ pic = [i \in Chips |-> PowerOn]
    /\ lines = [i \in Chips |-> [c \in Channels |-> 0]]
    /\ asserted = [d \in Devices |-> FALSE]
    /\ stack = <<>> /\ stale = FALSE /\ missed = {}

-----------------------------------------------------------------------------
\* Devices: picint_common.

Request(i, c, on) ==
    Update([pic EXCEPT ![i].irr = IF on THEN @ \cup {c} ELSE @ \ {c}])

\* A device that pulses its line.
Pulse(d) ==
    LET i == Wire[d][1]  c == Wire[d][2] IN
    /\ d \notin Holders
    /\ i = Slave => Wired(pic[Master])
    /\ \E on \in BOOLEAN : Request(i, c, on)
    /\ UNCHANGED <<lines, asserted, stack, missed>>

\* Seeded fault: the first device and the last, on any channel.
HoldOnChange(d, on) ==
    LET i == Wire[d][1]  c == Wire[d][2]
        change == asserted[d] # on
        held == IF on THEN lines[i][c] + 1 ELSE lines[i][c] - 1
    IN
    /\ d \in Holders
    /\ i = Slave => Wired(pic[Master])
    /\ asserted' = [asserted EXCEPT ![d] = on]
    /\ lines' = IF change THEN [lines EXCEPT ![i][c] = held % LineWrap] ELSE lines
    /\ IF change /\ lines'[i][c] = (IF on THEN 1 ELSE 0)
       THEN Request(i, c, on)
       ELSE UNCHANGED <<pic, stale>>
    /\ UNCHANGED <<stack, missed>>

\* A device that holds its line, or lets it go.  A level-triggered channel
\* follows the first and the last of its devices, an edge-triggered one each.
Hold(d, on) ==
    LET i == Wire[d][1]  c == Wire[d][2]
        change == asserted[d] # on
        held == IF on THEN lines[i][c] + 1 ELSE lines[i][c] - 1
    IN
    /\ d \in Holders
    /\ i = Slave => Wired(pic[Master])
    /\ asserted' = [asserted EXCEPT ![d] = on]
    /\ lines' = IF change THEN [lines EXCEPT ![i][c] = held % LineWrap] ELSE lines
    /\ IF c \notin Level[i] \/ (change /\ lines'[i][c] = (IF on THEN 1 ELSE 0))
       THEN Request(i, c, on)
       ELSE UNCHANGED <<pic, stale>>
    /\ UNCHANGED <<stack, missed>>

\* ... on the slave, while the master is being set up: nothing but irq_state
\* sees it.
HoldUnseen(d, on) ==
    /\ d \in Holders /\ asserted[d] # on
    /\ Wire[d][1] = Slave /\ ~Wired(pic[Master])
    /\ asserted' = [asserted EXCEPT ![d] = on]
    /\ missed' = missed \cup {d}
    /\ UNCHANGED <<pic, lines, stack, stale>>

-----------------------------------------------------------------------------
\* The CPU: picinterrupt, with interrupts on.  Both acknowledge cycles are one
\* step, and the chips are frozen between them.

\* The slave answers, and then the master.
TakeFromSlave ==
    LET p0 == Acknowledge(Acknowledge([pic EXCEPT ![Master].frozen = TRUE], Master), Slave)
        p1 == [p0 EXCEPT ![Master].pending = FALSE, ![Slave].pending = FALSE]
        p2 == AutoEoi(AutoEoi(p1, Slave), Master)
    IN
    /\ pic[Master].best = Cascade /\ pic[Slave].pending
    /\ Update([p2 EXCEPT ![Master].best = None, ![Master].frozen = FALSE,
                         ![Slave].best = None, ![Slave].frozen = FALSE])
    /\ stack' = LET m == IF pic[Master].aeoi THEN <<>> ELSE <<<<Master, Cascade>>>>
                    s == IF pic[Slave].aeoi THEN <<>> ELSE <<<<Slave, pic[Slave].best>>>>
                IN stack \o m \o s

\* The slave has nothing to answer with ("error correction mechanism"), or the
\* channel is not the slave's: the master answers alone.
TakeFromMaster ==
    LET p0 == Acknowledge([pic EXCEPT ![Master].frozen = TRUE], Master)
        p1 == AutoEoi([p0 EXCEPT ![Master].pending = FALSE], Master)
    IN
    /\ ~(pic[Master].best = Cascade /\ pic[Slave].pending)
    /\ Update([p1 EXCEPT ![Master].best = None, ![Master].frozen = FALSE])
    /\ stack' = IF pic[Master].aeoi THEN stack
                ELSE Append(stack, <<Master, pic[Master].best>>)

Take ==
    /\ Ready /\ ~Polling
    /\ pic[Master].pending
    /\ Len(stack) < MaxDepth
    /\ TakeFromSlave \/ TakeFromMaster
    /\ UNCHANGED <<lines, asserted, missed>>

-----------------------------------------------------------------------------
\* The guest: pic_write and pic_read.

Idle == Ready /\ ~Polling

\* OCW2: a non-specific EOI of the innermost handler, to the chip its turn is.
Eoi(i, rotate) ==
    /\ Idle /\ stack # <<>> /\ stack[Len(stack)][1] = i
    /\ stack' = SubSeq(stack, 1, Len(stack) - 1)
    /\ Update([pic EXCEPT ![i] = Action(@, rotate)])
    /\ UNCHANGED <<lines, asserted, missed>>

\* Seeded fault.
MaskWithoutUpdate(i, m) ==
    /\ Idle /\ m # pic[i].imr
    /\ pic' = [pic EXCEPT ![i].imr = m]
    /\ UNCHANGED <<lines, asserted, stack, stale, missed>>

\* OCW1
Mask(i, m) ==
    /\ Idle /\ m # pic[i].imr
    /\ Update([pic EXCEPT ![i].imr = m])
    /\ UNCHANGED <<lines, asserted, stack, missed>>

\* OCW3 with the poll bit, and the read that follows it.
PollCommand(i) ==
    /\ Idle /\ Len(stack) < MaxDepth
    /\ pic' = [pic EXCEPT ![i].poll = TRUE, ![i].frozen = TRUE]
    /\ UNCHANGED <<lines, asserted, stack, stale, missed>>

Thawed(i) == [pic EXCEPT ![i].poll = FALSE, ![i].frozen = FALSE]

PollHit(i) ==
    /\ pic[i].poll /\ pic[i].pending
    /\ Update([Acknowledge(Thawed(i), i) EXCEPT ![i].pending = FALSE])
    /\ stack' = Append(stack, <<i, pic[i].best>>)
    /\ UNCHANGED <<lines, asserted, missed>>

PollMiss(i) ==
    /\ pic[i].poll /\ ~pic[i].pending
    /\ pic' = Thawed(i)
    /\ stale' = TRUE
    /\ UNCHANGED <<lines, asserted, stack, missed>>

\* ICW1, with nothing in service.  The requests start from the lines.
Icw1(i) ==
    /\ Idle /\ stack = <<>>
    /\ Update([pic EXCEPT ![i] = [PowerOn EXCEPT
                  !.irr = {c \in Channels : lines[i][c] > 0},
                  !.aeoi = pic[i].aeoi, !.state = "icw2"]])
    /\ UNCHANGED <<lines, asserted, stack, missed>>

\* ICW2 to ICW4
Icw(i) ==
    /\ pic[i].state # "ready"
    /\ \E auto \in AutoEois :
         pic' = [pic EXCEPT ![i].state = CASE @ = "icw2" -> "icw3" [] @ = "icw3" -> "icw4"
                                           [] @ = "icw4" -> "ready",
                            ![i].aeoi = IF pic[i].state = "icw4" THEN auto ELSE @]
    /\ stale' = TRUE
    /\ UNCHANGED <<lines, asserted, stack, missed>>

-----------------------------------------------------------------------------
Guest(i) ==
    \/ \E rotate \in Rotations : Eoi(i, rotate)
    \/ \E m \in Masks : Mask(i, m)
    \/ PollCommand(i) \/ PollHit(i) \/ PollMiss(i)
    \/ Icw1(i) \/ Icw(i)

Next ==
    \/ \E d \in Devices : Pulse(d)
    \/ \E d \in Devices, on \in BOOLEAN : Hold(d, on) \/ HoldUnseen(d, on)
    \/ Take
    \/ \E i \in Chips : Guest(i)

Spec == Init /\ [][Next]_vars

-----------------------------------------------------------------------------
\* Properties.

Handlers(i) == {n \in 1 .. Len(stack) : stack[n][1] = i}

\* What a chip has in service is what the CPU is in the middle of, each
\* channel once, and a handler is above those it interrupted: a non-specific
\* EOI (pic_non_specific_find) always ends the handler that sends it.
ServiceMatchesStack ==
    \A i \in Chips :
      /\ pic[i].isr = {stack[n][2] : n \in Handlers(i)}
      /\ \A n, m \in Handlers(i) : n < m => Rank(pic[i], stack[m][2]) < Rank(pic[i], stack[n][2])

\* The interrupt line, and the request the slave makes of the master, are what
\* the registers say: no write, no device and no acknowledgment forgets
\* update_pending.  It is late only after a poll that found nothing, which
\* leaves out the requests made while the chip was frozen, and after ICW4.
IntIsExact ==
    ~stale /\ ~pic[Master].frozen =>
      /\ \A i \in Chips : pic[i].pending = (BestOf(pic[i]) # None)
      /\ \A i \in Chips : pic[i].pending => pic[i].best = BestOf(pic[i])
      /\ Ready => (Cascade \in pic[Master].irr) = pic[Slave].pending

WiredTo(i, c) == {d \in Devices : Wire[d] = <<i, c>>}

\* A level-triggered channel requests while one of its devices holds the
\* line, whatever was taken, masked, polled or set up in between, unless a
\* device moved while the master had no slaves.
LevelFollowsLines ==
    \A i \in Chips : \A c \in Level[i] :
      WiredTo(i, c) \cap missed = {} =>
        (c \in pic[i].irr) = (\E d \in WiredTo(i, c) : asserted[d])

\* A request, once made, stands until it is taken, its device lets go, or
\* its chip is set up again.  Channel 0 of the master is no one's when the
\* slave is being set up: update_pending takes the slave, whose ICW3 is 0,
\* for the device there.
RequestStands ==
    [][\A i \in Chips, c \in Channels :
         LET slaveHas == i = Master /\ c \in {Cascade} \cup (IF Wired(pic'[Slave]) THEN {} ELSE {0})
         IN c \in pic[i].irr /\ c \notin pic'[i].irr /\ ~slaveHas =>
              \/ (Take \/ PollHit(i)) /\ pic[i].best = c
              \/ \E d \in WiredTo(i, c) : Pulse(d) \/ Hold(d, FALSE)
              \/ Icw1(i)]_vars

\* What is taken is above everything in service and is not masked, though it
\* was found by an earlier step and frozen.
OnlyTheHighest ==
    [][\A i \in Chips : \A c \in pic'[i].isr \ pic[i].isr :
         /\ c \notin pic[i].imr
         /\ \A d \in pic[i].isr : Rank(pic[i], c) < Rank(pic[i], d)]_vars
=============================================================================
