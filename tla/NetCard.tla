------------------------------- MODULE NetCard ------------------------------
(***************************************************************************)
(* The packet path of an emulated network card (src/network/network.c)     *)
(* with the SLiRP driver behind it (src/network/net_slirp.c).              *)
(*                                                                         *)
(* Two threads.  The emulation thread ("vm") runs the guest, which hands   *)
(* packets to network_tx, and the card's timer, network_rx_queue, which    *)
(* brings received packets to the card and moves those to be sent within   *)
(* reach of the host.  The driver's thread ("host") sleeps in poll, takes  *)
(* what is to be sent and puts what the SLiRP stack sends back.  They      *)
(* share two queues, each with a mutex, two events, which are pipes, and   *)
(* the link state, which the user interface changes at any moment.  A step *)
(* here is what a thread does between two points where the other could     *)
(* see the difference.                                                     *)
(*                                                                         *)
(* Packets are numbered, those of the guest and those of the stack each    *)
(* from 1; 0 is no packet.                                                 *)
(***************************************************************************)
EXTENDS Naturals, Sequences

CONSTANTS
    QueueLen,           \* NET_QUEUE_LEN, of which one place stays empty,
                        \* and SLIRP_PKT_BATCH
    EventMax,           \* the bytes the pipe of an event holds
    MaxTx, MaxRx,       \* bounds: packets of the guest, and of the stack
    MaxLink             \* bound: changes of the link

ASSUME NetCardAssumption ==
    /\ QueueLen \in Nat \ {0, 1}
    /\ EventMax \in Nat \ {0}
    /\ MaxTx \in Nat /\ MaxRx \in Nat /\ MaxLink \in Nat

VARIABLES
    rx, tx_vm, tx_host, rx_on_tx,   \* the queues of the card
    queued_pkt,         \* the packet the card was offered last, 0 if it took it
    rx_mutex, tx_mutex, \* who holds them
    vm, i, tx_bytes,    \* the emulation thread: where it is, its loop counter,
                        \* whether this turn moved anything
    host, revents,      \* the driver's thread: where it is, what poll told it
    pkt_v, pkt, recv_on_tx,
    tx_event, stop_event,
    link, card_link,    \* the link is up: for the user, as the card was told
    changes,            \* how often it changed
    ntx, nrx,           \* packets the guest and the stack came with
    accepted, sent,     \* History: the last that tx_vm took, and that went out;
    entered, got        \* the last that rx took, and that the card took

vmVars == <<vm, i, tx_bytes>>
hostVars == <<host, revents, pkt_v, pkt, recv_on_tx>>
events == <<tx_event, stop_event>>
links == <<link, card_link, changes>>
txQueues == <<tx_vm, tx_host>>
rxQueues == <<rx, rx_on_tx, queued_pkt>>
txHistory == <<ntx, accepted, sent>>
rxHistory == <<nrx, entered, got>>
mutexes == <<rx_mutex, tx_mutex>>
vars == <<vmVars, hostVars, events, links, txQueues, rxQueues, txHistory,
          rxHistory, mutexes>>

Full(q) == Len(q) = QueueLen - 1

TypeOK ==
    /\ \A q \in {tx_vm, tx_host} : q \in Seq(1 .. MaxTx) /\ Len(q) < QueueLen
    /\ \A q \in {rx, rx_on_tx} : q \in Seq(1 .. MaxRx) /\ Len(q) < QueueLen
    /\ queued_pkt \in 0 .. MaxRx /\ pkt \in 0 .. MaxRx
    /\ rx_mutex \in {"free", "vm", "host"} /\ tx_mutex \in {"free", "vm", "host"}
    /\ vm \in {"cpu", "receive", "get", "card", "transmit", "move", "notify",
               "closing", "closed"}
    /\ i \in 0 .. QueueLen /\ tx_bytes \in BOOLEAN
    /\ host \in {"poll", "stack", "put", "take", "pop", "check", "send", "defer",
                 "requeue", "again", "ended"}
    /\ revents \subseteq {"STOP", "TX"}
    /\ pkt_v \in Seq(1 .. (IF MaxTx > MaxRx THEN MaxTx ELSE MaxRx))
    /\ Len(pkt_v) <= QueueLen
    /\ recv_on_tx \in BOOLEAN
    /\ tx_event \in 0 .. EventMax /\ stop_event \in BOOLEAN
    /\ link \in BOOLEAN /\ card_link \in BOOLEAN /\ changes \in 0 .. MaxLink
    /\ ntx \in 0 .. MaxTx /\ accepted \in 0 .. MaxTx /\ sent \in 0 .. MaxTx
    /\ nrx \in 0 .. MaxRx /\ entered \in 0 .. MaxRx /\ got \in 0 .. MaxRx

Init ==
    /\ rx = <<>> /\ tx_vm = <<>> /\ tx_host = <<>> /\ rx_on_tx = <<>>
    /\ queued_pkt = 0 /\ pkt_v = <<>> /\ pkt = 0 /\ recv_on_tx = FALSE
    /\ rx_mutex = "free" /\ tx_mutex = "free"
    /\ vm = "cpu" /\ i = 0 /\ tx_bytes = FALSE
    /\ host = "poll" /\ revents = {}
    /\ tx_event = 0 /\ stop_event = FALSE
    /\ link = TRUE /\ card_link = TRUE /\ changes = 0
    /\ ntx = 0 /\ accepted = 0 /\ sent = 0
    /\ nrx = 0 /\ entered = 0 /\ got = 0

-----------------------------------------------------------------------------
\* The emulation thread.

\* Seeded fault: a full queue takes one more.
NetworkTxUnchecked ==
    /\ vm = "cpu" /\ ntx < MaxTx
    /\ ntx' = ntx + 1
    /\ tx_vm' = Append(tx_vm, ntx') /\ accepted' = ntx'
    /\ UNCHANGED <<tx_host, sent, vmVars, hostVars, events, links, rxQueues, rxHistory, mutexes>>

\* network_tx, from the guest's card: a full queue drops the packet.
NetworkTx ==
    /\ vm = "cpu" /\ ntx < MaxTx
    /\ ntx' = ntx + 1
    /\ IF Full(tx_vm) THEN UNCHANGED <<tx_vm, accepted>>
                      ELSE tx_vm' = Append(tx_vm, ntx') /\ accepted' = ntx'
    /\ UNCHANGED <<tx_host, sent, vmVars, hostVars, events, links, rxQueues, rxHistory, mutexes>>

\* network_rx_queue: the card's timer.  The card is told of the link first.
Timer ==
    /\ vm = "cpu"
    /\ vm' = "receive" /\ i' = 0 /\ tx_bytes' = FALSE
    /\ card_link' = link
    /\ UNCHANGED <<link, changes, hostVars, events, txQueues, rxQueues, txHistory, rxHistory, mutexes>>

\* A packet the card did not take is offered again before another is taken
\* from the queue.
Retry ==
    /\ vm = "receive" /\ queued_pkt # 0
    /\ vm' = "card"
    /\ UNCHANGED <<i, tx_bytes, hostVars, events, links, txQueues, rxQueues, txHistory, rxHistory, mutexes>>

LockRx ==
    /\ vm = "receive" /\ queued_pkt = 0
    /\ rx_mutex = "free" /\ rx_mutex' = "vm"
    /\ vm' = "get"
    /\ UNCHANGED <<i, tx_bytes, tx_mutex, hostVars, events, links, txQueues, rxQueues, txHistory, rxHistory>>

\* network_queue_get_swap, and the mutex goes.
Get ==
    /\ vm = "get"
    /\ IF rx = <<>> THEN vm' = "transmit" /\ UNCHANGED <<rx, queued_pkt>>
       ELSE vm' = "card" /\ queued_pkt' = Head(rx) /\ rx' = Tail(rx)
    /\ rx_mutex' = "free"
    /\ UNCHANGED <<i, tx_bytes, tx_mutex, rx_on_tx, hostVars, events, links, txQueues, txHistory, rxHistory>>

CardTakes ==
    /\ vm = "card"
    /\ got' = queued_pkt /\ queued_pkt' = 0
    /\ i' = i + 1
    /\ vm' = IF i' = QueueLen THEN "transmit" ELSE "receive"
    /\ UNCHANGED <<tx_bytes, rx, rx_on_tx, nrx, entered, hostVars, events, links, txQueues, txHistory, mutexes>>

\* Seeded fault: the packet is forgotten whether the card took it or not.
CardBusyForgets ==
    /\ vm = "card"
    /\ queued_pkt' = 0
    /\ vm' = "transmit"
    /\ UNCHANGED <<i, tx_bytes, rx, rx_on_tx, hostVars, events, links, txQueues, txHistory, rxHistory, mutexes>>

\* card->rx returns 0: the card has no buffer.
CardBusy ==
    /\ vm = "card"
    /\ vm' = "transmit"
    /\ UNCHANGED <<i, tx_bytes, hostVars, events, links, txQueues, rxQueues, txHistory, rxHistory, mutexes>>

LockTx ==
    /\ vm = "transmit"
    /\ tx_mutex = "free" /\ tx_mutex' = "vm"
    /\ vm' = "move" /\ i' = 0
    /\ UNCHANGED <<tx_bytes, rx_mutex, hostVars, events, links, txQueues, rxQueues, txHistory, rxHistory>>

\* Seeded fault: no look at the room; the ring's head meets its tail, and it
\* is empty.
MoveUnchecked ==
    /\ vm = "move" /\ i < QueueLen /\ tx_vm # <<>>
    /\ tx_host' = IF Full(tx_host) THEN <<>> ELSE Append(tx_host, Head(tx_vm))
    /\ tx_vm' = Tail(tx_vm)
    /\ tx_bytes' = TRUE /\ i' = i + 1
    /\ UNCHANGED <<vm, hostVars, events, links, rxQueues, txHistory, rxHistory, mutexes>>

\* network_queue_move
Move ==
    /\ vm = "move" /\ i < QueueLen /\ tx_vm # <<>> /\ ~Full(tx_host)
    /\ tx_host' = Append(tx_host, Head(tx_vm))
    /\ tx_vm' = Tail(tx_vm)
    /\ tx_bytes' = TRUE /\ i' = i + 1
    /\ UNCHANGED <<vm, hostVars, events, links, rxQueues, txHistory, rxHistory, mutexes>>

\* Seeded fault: tx_bytes is that of the last turn of the loop.
MovedQuietly ==
    /\ vm = "move" /\ (i = QueueLen \/ tx_vm = <<>> \/ Full(tx_host))
    /\ tx_mutex' = "free"
    /\ vm' = IF i = QueueLen THEN "notify" ELSE "cpu"
    /\ i' = 0
    /\ UNCHANGED <<tx_bytes, rx_mutex, hostVars, events, links, txQueues, rxQueues, txHistory, rxHistory>>

Moved ==
    /\ vm = "move" /\ (i = QueueLen \/ tx_vm = <<>> \/ Full(tx_host))
    /\ tx_mutex' = "free"
    /\ vm' = IF tx_bytes THEN "notify" ELSE "cpu"
    /\ i' = 0
    /\ UNCHANGED <<tx_bytes, rx_mutex, hostVars, events, links, txQueues, rxQueues, txHistory, rxHistory>>

\* net_slirp_in_available, net_event_set: a full pipe takes no more.
Notify ==
    /\ vm = "notify"
    /\ tx_event' = IF tx_event < EventMax THEN tx_event + 1 ELSE tx_event
    /\ vm' = "cpu"
    /\ UNCHANGED <<i, tx_bytes, stop_event, hostVars, links, txQueues, rxQueues, txHistory, rxHistory, mutexes>>

\* netcard_close, net_slirp_close: the timer is stopped, the driver's thread
\* told to stop, and joined; then the queues are freed.
Close ==
    /\ vm = "cpu"
    /\ vm' = "closing" /\ stop_event' = TRUE
    /\ UNCHANGED <<i, tx_bytes, tx_event, hostVars, links, txQueues, rxQueues, txHistory, rxHistory, mutexes>>

Joined ==
    /\ vm = "closing" /\ host = "ended"
    /\ vm' = "closed"
    /\ rx' = <<>> /\ tx_vm' = <<>> /\ tx_host' = <<>> /\ rx_on_tx' = <<>> /\ queued_pkt' = 0
    /\ UNCHANGED <<i, tx_bytes, hostVars, events, links, txHistory, rxHistory, mutexes>>

VM == NetworkTx \/ Timer \/ Retry \/ LockRx \/ Get \/ CardTakes \/ CardBusy
        \/ LockTx \/ Move \/ Moved \/ Notify \/ Close \/ Joined

\* The user: network_connect.
Plug ==
    /\ changes < MaxLink
    /\ link' = ~link /\ changes' = changes + 1
    /\ UNCHANGED <<card_link, vmVars, hostVars, events, txQueues, rxQueues, txHistory, rxHistory, mutexes>>

-----------------------------------------------------------------------------
\* The driver's thread: net_slirp_thread.

\* poll returns: an event is set, or the stack has something to do.  What it
\* saw may be old when it is looked at.
Poll ==
    /\ host = "poll"
    /\ revents' = (IF stop_event THEN {"STOP"} ELSE {}) \cup (IF tx_event > 0 THEN {"TX"} ELSE {})
    /\ revents' # {} \/ nrx < MaxRx
    /\ host' = "stack"
    /\ UNCHANGED <<pkt_v, pkt, recv_on_tx, events, vmVars, links, txQueues, rxQueues, txHistory, rxHistory, mutexes>>

\* net_slirp_send_packet: the stack sends a packet from slirp_pollfds_poll, or
\* in answer to one from slirp_input, where it is deferred.
Receive ==
    /\ host \in {"stack", "send"} /\ nrx < MaxRx
    /\ host = "stack" => pkt = 0
    /\ nrx' = nrx + 1
    /\ CASE ~link -> UNCHANGED <<pkt, rx_on_tx, recv_on_tx>>
         [] link /\ host = "send" ->
              /\ rx_on_tx' = IF Full(rx_on_tx) THEN rx_on_tx ELSE Append(rx_on_tx, nrx')
              /\ recv_on_tx' = TRUE /\ UNCHANGED pkt
         [] link /\ host = "stack" -> pkt' = nrx' /\ UNCHANGED <<rx_on_tx, recv_on_tx>>
    /\ UNCHANGED <<host, revents, pkt_v, rx, queued_pkt, entered, got, vmVars, events, links, txQueues, txHistory, mutexes>>

\* Seeded fault: the mutex is not waited for.
LockRxForPutUnlocked ==
    /\ host = "stack" /\ pkt # 0
    /\ host' = "put"
    /\ UNCHANGED <<revents, pkt_v, pkt, recv_on_tx, mutexes, vmVars, events, links, txQueues, rxQueues, txHistory, rxHistory>>

LockRxForPut ==
    /\ host = "stack" /\ pkt # 0
    /\ rx_mutex = "free" /\ rx_mutex' = "host"
    /\ host' = "put"
    /\ UNCHANGED <<revents, pkt_v, pkt, recv_on_tx, tx_mutex, vmVars, events, links, txQueues, rxQueues, txHistory, rxHistory>>

\* network_rx_put_pkt: a full queue drops the packet.
PutRx(p) ==
    /\ IF Full(rx) THEN UNCHANGED <<rx, entered>>
                   ELSE rx' = Append(rx, p) /\ entered' = p
    /\ rx_mutex' = "free"

Put ==
    /\ host = "put"
    /\ PutRx(pkt) /\ pkt' = 0
    /\ host' = "stack"
    /\ UNCHANGED <<revents, pkt_v, recv_on_tx, rx_on_tx, queued_pkt, nrx, got, tx_mutex, vmVars, events, links, txQueues, txHistory>>

\* The stack is done; what poll saw is served.
Serve ==
    /\ host = "stack" /\ pkt = 0
    /\ host' = CASE "STOP" \in revents -> "ended"
                 [] revents = {"TX"} -> "take"
                 [] OTHER -> "poll"
    /\ stop_event' = (stop_event /\ "STOP" \notin revents)
    /\ tx_event' = IF revents = {"TX"} THEN tx_event - 1 ELSE tx_event
    /\ revents' = {}
    /\ UNCHANGED <<pkt_v, pkt, recv_on_tx, vmVars, links, txQueues, rxQueues, txHistory, rxHistory, mutexes>>

LockTxForPop ==
    /\ host = "take"
    /\ tx_mutex = "free" /\ tx_mutex' = "host"
    /\ host' = "pop"
    /\ UNCHANGED <<revents, pkt_v, pkt, recv_on_tx, rx_mutex, vmVars, events, links, txQueues, rxQueues, txHistory, rxHistory>>

\* Seeded fault: one packet a wake-up.
PopOne ==
    /\ host = "pop"
    /\ pkt_v' = SubSeq(tx_host, 1, 1) /\ tx_host' = SubSeq(tx_host, 2, Len(tx_host))
    /\ tx_mutex' = "free"
    /\ host' = "check"
    /\ UNCHANGED <<revents, pkt, recv_on_tx, tx_vm, rx_mutex, vmVars, events, links, rxQueues, txHistory, rxHistory>>

\* network_tx_popv: a batch holds more than the queue.
Pop ==
    /\ host = "pop"
    /\ pkt_v' = tx_host /\ tx_host' = <<>>
    /\ tx_mutex' = "free"
    /\ host' = "check"
    /\ UNCHANGED <<revents, pkt, recv_on_tx, tx_vm, rx_mutex, vmVars, events, links, rxQueues, txHistory, rxHistory>>

\* The link is looked at once for the batch.
Check ==
    /\ host = "check"
    /\ IF link THEN host' = "send" /\ UNCHANGED pkt_v ELSE host' = "defer" /\ pkt_v' = <<>>
    /\ UNCHANGED <<revents, pkt, recv_on_tx, vmVars, events, links, txQueues, rxQueues, txHistory, rxHistory, mutexes>>

\* slirp_input
Send ==
    /\ host = "send"
    /\ IF pkt_v = <<>> THEN host' = "defer" /\ UNCHANGED <<pkt_v, sent>>
       ELSE sent' = Head(pkt_v) /\ pkt_v' = Tail(pkt_v) /\ UNCHANGED host
    /\ UNCHANGED <<revents, pkt, recv_on_tx, ntx, accepted, vmVars, events, links, txQueues, rxQueues, rxHistory, mutexes>>

\* net_slirp_rx_deferred_packets
Defer ==
    /\ host = "defer"
    /\ pkt_v' = IF recv_on_tx /\ link THEN rx_on_tx ELSE <<>>
    /\ rx_on_tx' = IF recv_on_tx THEN <<>> ELSE rx_on_tx
    /\ recv_on_tx' = (recv_on_tx /\ rx_on_tx # <<>>)
    /\ host' = CASE ~recv_on_tx' -> "poll" [] recv_on_tx' /\ link -> "requeue" [] OTHER -> "defer"
    /\ UNCHANGED <<revents, pkt, rx, queued_pkt, vmVars, events, links, txQueues, txHistory, rxHistory, mutexes>>

LockRxAgain ==
    /\ host = "requeue"
    /\ IF pkt_v = <<>> THEN host' = "defer" /\ UNCHANGED rx_mutex
       ELSE rx_mutex = "free" /\ rx_mutex' = "host" /\ host' = "again"
    /\ UNCHANGED <<revents, pkt_v, pkt, recv_on_tx, tx_mutex, vmVars, events, links, txQueues, rxQueues, txHistory, rxHistory>>

PutAgain ==
    /\ host = "again"
    /\ PutRx(Head(pkt_v)) /\ pkt_v' = Tail(pkt_v)
    /\ host' = "requeue"
    /\ UNCHANGED <<revents, pkt, recv_on_tx, rx_on_tx, queued_pkt, nrx, got, tx_mutex, vmVars, events, links, txQueues, txHistory>>

Host == Poll \/ Receive \/ LockRxForPut \/ Put \/ Serve \/ LockTxForPop \/ Pop
          \/ Check \/ Send \/ Defer \/ LockRxAgain \/ PutAgain

-----------------------------------------------------------------------------
Next == VM \/ Plug \/ Host
Spec == Init /\ [][Next]_vars

\* Both threads go on, and get a mutex that is free again and again: the other
\* holds it for the time it takes to move a few packets.  The guest need not
\* send, nor close; the stack comes back from slirp_pollfds_poll.
FairSpec ==
    /\ Spec
    /\ WF_vars(Timer \/ Retry \/ Get \/ CardBusy \/ Move \/ Moved \/ Notify \/ Joined)
    /\ WF_vars(Poll \/ Put \/ Serve \/ Pop \/ Check \/ Send \/ Defer \/ PutAgain)
    /\ SF_vars(LockRx \/ LockTx)
    /\ SF_vars(LockRxForPut \/ LockTxForPop \/ LockRxAgain)

-----------------------------------------------------------------------------
\* Properties.

\* The two threads are never both in the middle of the same queue, whose head,
\* tail and packets network_queue_put_swap, get_swap and move change without a
\* lock of their own.
Exclusive ==
    /\ ~(vm = "get" /\ host \in {"put", "again"})
    /\ ~(vm = "move" /\ host = "pop")

\* While there is something for the host and its thread is on its way to
\* sleep, it will be woken: the event is set, or the emulation thread is about
\* to set it.  The event is set after the mutex is released and cleared before
\* it is taken, and the batch takes all.
NoLostWakeup ==
    tx_host # <<>> /\ host \notin {"take", "pop", "ended"} =>
        tx_event > 0 \/ vm = "notify" \/ (vm = "move" /\ tx_bytes)

\* What the guest hands over, and network_tx accepts, goes out once and in
\* order; it is dropped only for a link that is down, or with the card.
Batch == IF host \in {"check", "send"} THEN pkt_v ELSE <<>>
Outgoing == Batch \o tx_host \o tx_vm
TxPipe == INSTANCE PacketPipe WITH
    Capacity <- 2 * (QueueLen - 1) + QueueLen,
    queue <- Outgoing, taken <- accepted, out <- sent,
    mayDrop <- ~link \/ vm = "closing"
TxIsPipe == TxPipe!Spec

\* What the receive queue took, at once or deferred, reaches the card once and
\* in order, however often the card refuses it; only closing drops it.
Incoming == (IF queued_pkt = 0 THEN <<>> ELSE <<queued_pkt>>) \o rx
RxPipe == INSTANCE PacketPipe WITH
    Capacity <- QueueLen,
    queue <- Incoming, taken <- entered, out <- got,
    mayDrop <- vm = "closing"
RxIsPipe == RxPipe!Spec

\* A packet the guest was rid of leaves the card in the end, or the card is
\* closed; and a card that is being closed will be: its thread is not waited
\* for in vain.
Held(n) == \E k \in DOMAIN Outgoing : Outgoing[k] = n
Settles ==
    /\ \A n \in 1 .. MaxTx : Held(n) ~> (~Held(n) \/ vm = "closed")
    /\ vm = "closing" ~> vm = "closed"
=============================================================================
