------------------------------ MODULE FunLink ------------------------------
(***************************************************************************)
(* The fun.link bus (src/char/char_funlink.c): cabinets joined by TCP.     *)
(* One cabinet listens, the others connect to it, and the listener repeats *)
(* what it hears from one peer to all the others.                          *)
(*                                                                         *)
(* Each cabinet is one emulation thread.  Its socket work, funlink_poll,   *)
(* is cut at the socket calls: Poll* is the switch on dev->state, Drain*   *)
(* one iteration of the receive loop with the relay it makes, Flush the    *)
(* final funlink_flush_tx.  Between two of them the other cabinets and the *)
(* network move.  TCP, its listen queue and its resets are the environment.*)
(***************************************************************************)
EXTENDS Integers, Sequences, FiniteSets

CONSTANTS
    Cabinet,      \* the emulator instances on the bus
    Site,         \* [Cabinet -> PC]: where an instance runs
    Dials,        \* [Cabinet -> PC]: the configured "host"
    Role,         \* [Cabinet -> {"AUTO", "HOST", "JOIN"}]
    Talkers,      \* the cabinets whose guest transmits
    Echo,         \* the "echo" option
    Conn,         \* TCP connections that can exist at once
    None,         \* no cabinet, no connection
    MaxPeers,     \* FUNLINK_MAX_PEERS
    RxSize,       \* FUNLINK_RX_SIZE
    TxSize,       \* FUNLINK_TX_SIZE
    SockCap,      \* bytes one direction of a connection buffers
    Backlog,      \* listen() backlog
    MaxBytes,     \* bound: bytes a guest transmits
    MaxFaults,    \* bound: connections broken plus cabinets restarted
    PromptNet     \* a listener answers a SYN within CHAR_RECONNECT_MS

ASSUME RolesAssumption ==
    /\ None \notin Cabinet \cup Conn
    /\ Role \in [Cabinet -> {"AUTO", "HOST", "JOIN"}]
    /\ DOMAIN Site = Cabinet /\ DOMAIN Dials = Cabinet
    /\ Talkers \subseteq Cabinet
    /\ Echo \in BOOLEAN /\ PromptNet \in BOOLEAN
ASSUME BoundsAssumption ==
    /\ MaxPeers \in Nat \ {0} /\ RxSize \in Nat \ {0} /\ TxSize \in Nat \ {0}
    /\ SockCap \in Nat /\ Backlog \in Nat
    /\ MaxBytes \in Nat /\ MaxFaults \in Nat

VARIABLES
    state,     \* dev->state
    hold,      \* now - dev->next_attempt < CHAR_RECONNECT_MS; FALSE where
               \* the state never reads it again (CLIENT, LISTENING)
    listener,  \* dev->listener is a valid socket
    peer,      \* dev->peer[0 .. peers-1]; slots past the end hold -1
    rx, tx,    \* the guest-bound ring and the coalescing buffer
    at,        \* Out, or the 1-based index the drain loop looks at next
    net,       \* TCP: the connections
    port,      \* TCP: who holds the bus port of each PC
    backlog,   \* TCP: connections waiting for accept() on each PC
    sent,      \* bytes each guest has transmitted (numbers them)
    heard,     \* history: bytes each guest has read, by sender
    faults     \* breaks and restarts so far

cabVars == <<state, hold, listener, peer, rx, tx, at>>
netVars == <<net, port, backlog>>
ghostVars == <<sent, heard, faults>>
vars == <<cabVars, netVars, ghostVars>>

PC == {Site[c] : c \in Cabinet} \cup {Dials[c] : c \in Cabinet}
Out == -1
Byte == [from : Cabinet, n : 1 .. MaxBytes, via : Conn \cup {None}]

SeqMembers(s) == {s[i] : i \in DOMAIN s}
RemoveIdx(s, i) ==
    [j \in 1 .. Len(s) - 1 |-> IF j < i THEN s[j] ELSE s[j + 1]]
\* Those of s that are in S, in their order.
Kept(s, S) ==
    LET keep[i \in 0 .. Len(s)] ==
          IF i = 0 THEN <<>>
          ELSE IF s[i] \in S THEN Append(keep[i - 1], s[i]) ELSE keep[i - 1]
    IN  keep[Len(s)]

-----------------------------------------------------------------------------
(***************************************************************************)
(* TCP, as the calls in unix_netsocket.c see it.  A connection has a       *)
(* client end c and a server end s.  "eof": the far end has been closed    *)
(* and its FIN is here.  "dead": refused or reset, every call fails.       *)
(* "closed": this side closed its socket.  "gone": it closed a dead one,   *)
(* so no FIN ever went out.                                                *)
(***************************************************************************)
Shut == {"closed", "gone"}
EndState == Shut \cup {"syn", "open", "eof", "dead"}
FreeConn == [cli |-> None, srv |-> None, c |-> "closed", s |-> "closed",
             up |-> <<>>, dn |-> <<>>]
Connection == [cli : Cabinet \cup {None}, srv : Cabinet \cup {None},
               c : EndState, s : EndState, up : Seq(Byte), dn : Seq(Byte)]

Reclaim(r) == IF r.c \in Shut /\ r.s \in Shut THEN FreeConn ELSE r
IsClient(r, c) == r.cli = c /\ r.c \notin Shut
EndOf(r, c) == IF IsClient(r, c) THEN r.c ELSE r.s
Inbound(r, c) == IF IsClient(r, c) THEN r.dn ELSE r.up
Closing(e) == IF e = "dead" THEN "gone" ELSE "closed"

\* plat_netsocket_close on cabinet c's end: unread bytes are discarded.
CloseEnd(r, c) ==
    Reclaim(IF IsClient(r, c) THEN [r EXCEPT !.c = Closing(r.c), !.dn = <<>>]
                              ELSE [r EXCEPT !.s = Closing(r.s), !.up = <<>>])

\* What plat_netsocket_send takes: as much as fits, possibly nothing.
Fitting(q, data) == q \o SubSeq(data, 1, IF Len(data) <= SockCap - Len(q)
                                         THEN Len(data) ELSE SockCap - Len(q))
SendOn(r, c, data) ==
    CASE IsClient(r, c) /\ r.s \notin Shut ->
           [r EXCEPT !.up = Fitting(r.up, data)]
      [] ~IsClient(r, c) /\ r.c \notin Shut ->
           [r EXCEPT !.dn = Fitting(r.dn, data)]
      [] OTHER -> r

-----------------------------------------------------------------------------
(* char_funlink.c: the helpers.                                            *)

\* funlink_rx_push: a full ring drops the newest bytes.
\* Seeded fault: the full ring goes unnoticed.
RxPushNoCheck(ring, data) == ring \o data
RxPush(ring, data) ==
    LET room == RxSize - 1 - Len(ring)
    IN  ring \o SubSeq(data, 1, IF Len(data) <= room THEN Len(data) ELSE room)

\* funlink_drop_peer's table: the slots above idx move down; an index past the
\* end forgets the last peer instead, its socket still open.
\* Seeded fault: the slots above idx are not shifted.
DropSlotNoShift(tab, idx) == RemoveIdx(tab, Len(tab))
DropSlot(tab, idx) ==
    RemoveIdx(tab, IF idx <= Len(tab) THEN idx ELSE Len(tab))

\* funlink_close_all's sockets: every peer and the listener are closed.
ClosedSockets(c) ==
    [k \in Conn |->
       LET r == net[k] IN
       IF k \in SeqMembers(peer[c]) THEN CloseEnd(r, c)
       ELSE IF listener[c] /\ k \in SeqMembers(backlog[Site[c]])
       THEN Reclaim([r EXCEPT !.s = "gone", !.up = <<>>,
                              !.c = IF r.c \in Shut THEN r.c ELSE "dead"])
       ELSE r]
\* Seeded fault: the listening socket is forgotten, not closed.
CloseListenerForgets(c) ==
    listener[c] \in BOOLEAN /\ UNCHANGED <<port, backlog>>
CloseListener(c) ==
    IF listener[c]
    THEN /\ port' = [port EXCEPT ![Site[c]] = None]
         /\ backlog' = [backlog EXCEPT ![Site[c]] = <<>>]
    ELSE UNCHANGED <<port, backlog>>

\* funlink_send_to_peers: everyone but `except`; a peer whose send fails is
\* closed and dropped, what does not fit in a socket is lost.
\* Seeded fault: the sender is not excepted.
Dead(c, k) == EndOf(net[k], c) = "dead"
RelayToAll(c, nt, data, except) ==
    [k \in Conn |->
       IF k \notin SeqMembers(peer[c]) THEN nt[k]
       ELSE IF Dead(c, k) THEN CloseEnd(nt[k], c) ELSE SendOn(nt[k], c, data)]
SentNet(c, nt, data, except) ==
    [k \in Conn |->
       IF k = except \/ k \notin SeqMembers(peer[c]) THEN nt[k]
       ELSE IF Dead(c, k) THEN CloseEnd(nt[k], c) ELSE SendOn(nt[k], c, data)]
SentTable(c, except) == Kept(peer[c], {k \in Conn : k = except \/ ~Dead(c, k)})

\* Which connection a byte left its cabinet by; None when the cabinet hosts.
Stamped(c) ==
    [i \in DOMAIN tx[c] |->
       [tx[c][i] EXCEPT !.via = IF state[c] = "CLIENT" /\ peer[c] # <<>>
                                THEN peer[c][1] ELSE None]]

\* funlink_flush_tx, the sockets and the table: only a settled bus takes bytes.
FlushSockets(c) ==
    IF tx[c] # <<>> /\ state[c] \in {"CLIENT", "LISTENING"}
    THEN /\ net' = SentNet(c, net, Stamped(c), None)
         /\ peer' = [peer EXCEPT ![c] = SentTable(c, None)]
    ELSE UNCHANGED <<net, peer>>
-----------------------------------------------------------------------------
Init ==
    /\ state = [c \in Cabinet |-> "IDLE"]
    /\ hold = [c \in Cabinet |-> FALSE]
    /\ listener = [c \in Cabinet |-> FALSE]
    /\ peer = [c \in Cabinet |-> <<>>]
    /\ rx = [c \in Cabinet |-> <<>>]
    /\ tx = [c \in Cabinet |-> <<>>]
    /\ at = [c \in Cabinet |-> Out]
    /\ net = [k \in Conn |-> FreeConn]
    /\ port = [p \in PC |-> None]
    /\ backlog = [p \in PC |-> <<>>]
    /\ sent = [c \in Cabinet |-> 0]
    /\ heard = [c \in Cabinet |-> [o \in Cabinet |-> <<>>]]
    /\ faults = 0

-----------------------------------------------------------------------------
(* funlink_poll, the switch on dev->state.                                 *)

Polling(c) == at[c] = Out
DrainFrom(c) == at' = [at EXCEPT ![c] = Len(peer'[c])]

\* IDLE, retry not due yet.
PollHeld(c) ==
    /\ Polling(c) /\ state[c] = "IDLE" /\ hold[c]
    /\ at' = [at EXCEPT ![c] = 0]
    /\ UNCHANGED <<state, hold, listener, peer, rx, tx, netVars, ghostVars>>

\* plat_netsocket_create_server: bind fails when the port is taken, and also
\* while an old connection lingers in TIME_WAIT.
Bind(c) ==
    /\ port[Site[c]] = None
    /\ port' = [port EXCEPT ![Site[c]] = c]
    /\ listener' = [listener EXCEPT ![c] = TRUE]
    /\ state' = [state EXCEPT ![c] = "LISTENING"]
    /\ hold' = [hold EXCEPT ![c] = FALSE]
    /\ backlog' = backlog

PollHostListens(c) ==
    /\ Polling(c) /\ state[c] = "IDLE" /\ ~hold[c] /\ Role[c] = "HOST"
    /\ Bind(c)
    /\ at' = [at EXCEPT ![c] = 0]
    /\ UNCHANGED <<peer, rx, tx, net, ghostVars>>

\* IDLE, and the bind or the connect failed at once: try again later.
PollTryFails(c) ==
    /\ Polling(c) /\ state[c] = "IDLE" /\ ~hold[c]
    /\ hold' = [hold EXCEPT ![c] = TRUE]
    /\ at' = [at EXCEPT ![c] = 0]
    /\ UNCHANGED <<state, listener, peer, rx, tx, netVars, ghostVars>>

\* funlink_start_connecting.
PollDials(c) ==
    /\ Polling(c) /\ state[c] = "IDLE" /\ ~hold[c] /\ Role[c] # "HOST"
    /\ \E k \in Conn :
         /\ net[k] = FreeConn
         /\ net' = [net EXCEPT ![k] = [FreeConn EXCEPT !.cli = c, !.c = "syn"]]
         /\ peer' = [peer EXCEPT ![c] = <<k>>]
    /\ state' = [state EXCEPT ![c] = "CONNECTING"]
    /\ hold' = [hold EXCEPT ![c] = TRUE]
    /\ UNCHANGED <<listener, rx, tx, at, port, backlog, ghostVars>>

\* plat_netsocket_connected(dev->peer[0]) == 1.
PollJoins(c) ==
    /\ Polling(c) /\ state[c] = "CONNECTING"
    /\ net[peer[c][1]].c \in {"open", "eof"}
    /\ state' = [state EXCEPT ![c] = "CLIENT"]
    /\ hold' = [hold EXCEPT ![c] = FALSE]
    /\ at' = [at EXCEPT ![c] = 1]
    /\ UNCHANGED <<listener, peer, rx, tx, netVars, ghostVars>>

\* ... == 0 past the half second, or == -1: nobody is there.
ConnectFailed(c) ==
    /\ Polling(c) /\ state[c] = "CONNECTING"
    /\ \/ net[peer[c][1]].c = "dead"
       \/ net[peer[c][1]].c = "syn" /\ ~hold[c]
    /\ net' = ClosedSockets(c)
    /\ peer' = [peer EXCEPT ![c] = <<>>]
    /\ tx' = [tx EXCEPT ![c] = <<>>]
    /\ at' = [at EXCEPT ![c] = 0]
    /\ UNCHANGED <<rx, ghostVars>>

\* AUTO takes the port if it can; a lost bind race connects next time.
\* Seeded fault: the role test is for HOST, which never gets here.
PollListensInsteadNever(c) == ConnectFailed(c) /\ Role[c] = "HOST" /\ Bind(c)
PollListensInstead(c) == ConnectFailed(c) /\ Role[c] = "AUTO" /\ Bind(c)
PollGivesUp(c) ==
    /\ ConnectFailed(c)
    /\ state' = [state EXCEPT ![c] = "IDLE"]
    /\ hold' = [hold EXCEPT ![c] = TRUE]
    /\ UNCHANGED <<listener, port, backlog>>

\* LISTENING: accept while there is room in the table.
PollAccepts(c) ==
    /\ Polling(c) /\ state[c] = "LISTENING"
    /\ LET queue == IF listener[c] THEN backlog[Site[c]] ELSE <<>>
           room == MaxPeers - Len(peer[c])
           n == IF Len(queue) <= room THEN Len(queue) ELSE room
       IN /\ peer' = [peer EXCEPT ![c] = @ \o SubSeq(queue, 1, n)]
          /\ backlog' = IF listener[c]
                        THEN [backlog EXCEPT ![Site[c]] =
                                SubSeq(queue, n + 1, Len(queue))]
                        ELSE backlog
    /\ DrainFrom(c)
    /\ UNCHANGED <<state, hold, listener, rx, tx, net, port, ghostVars>>

\* CLIENT: straight to the drain loop.
PollClient(c) ==
    /\ Polling(c) /\ state[c] = "CLIENT"
    /\ at' = [at EXCEPT ![c] = Len(peer[c])]
    /\ UNCHANGED <<state, hold, listener, peer, rx, tx, netVars, ghostVars>>

Poll(c) ==
    \/ PollHeld(c) \/ PollHostListens(c) \/ PollTryFails(c) \/ PollDials(c)
    \/ PollJoins(c) \/ PollListensInstead(c) \/ PollGivesUp(c)
    \/ PollAccepts(c) \/ PollClient(c)
-----------------------------------------------------------------------------
(* funlink_poll, one iteration of the drain loop at index at[c].           *)

InSlot(c) == IF at[c] <= Len(peer[c]) THEN peer[c][at[c]] ELSE None
NextSlot(c) == at' = [at EXCEPT ![c] = @ - 1]

\* ret > 0: some of what the peer said goes to the guest and, if we listen,
\* to every other peer.
DrainHears(c) ==
    /\ at[c] > 0 /\ InSlot(c) # None
    /\ LET k == InSlot(c)
           q == Inbound(net[k], c)
       IN /\ ~Dead(c, k) /\ q # <<>>
          /\ \E m \in 1 .. Len(q) :
               LET data == SubSeq(q, 1, m)
                   rest == SubSeq(q, m + 1, Len(q))
                   taken == [net EXCEPT ![k] = IF IsClient(@, c)
                                               THEN [@ EXCEPT !.dn = rest]
                                               ELSE [@ EXCEPT !.up = rest]]
               IN /\ rx' = [rx EXCEPT ![c] = RxPush(@, data)]
                  /\ IF state[c] = "LISTENING"
                     THEN /\ net' = SentNet(c, taken, data, k)
                          /\ peer' = [peer EXCEPT ![c] = SentTable(c, k)]
                     ELSE net' = taken /\ UNCHANGED peer
    /\ NextSlot(c)
    /\ UNCHANGED <<state, hold, listener, tx, port, backlog, ghostVars>>

\* ret < 0 with wouldblock: nothing to hear.
DrainQuiet(c) ==
    /\ at[c] > 0 /\ InSlot(c) # None
    /\ EndOf(net[InSlot(c)], c) = "open"
    /\ Inbound(net[InSlot(c)], c) = <<>>
    /\ NextSlot(c)
    /\ UNCHANGED <<state, hold, listener, peer, rx, tx, netVars, ghostVars>>

\* Seeded fault: a receive that would block is taken for a lost peer.
PeerLostOnWouldBlock(c) ==
    /\ at[c] > 0
    /\ InSlot(c) # None =>
         Dead(c, InSlot(c)) \/ Inbound(net[InSlot(c)], c) = <<>>
PeerLost(c) ==
    /\ at[c] > 0
    /\ InSlot(c) # None =>
         \/ Dead(c, InSlot(c))
         \/ /\ EndOf(net[InSlot(c)], c) = "eof"
            /\ Inbound(net[InSlot(c)], c) = <<>>

\* ret == 0, or an error: a client that lost the listener starts over ...
DrainClientLost(c) ==
    /\ PeerLost(c) /\ state[c] = "CLIENT"
    /\ net' = ClosedSockets(c)
    /\ CloseListener(c)
    /\ peer' = [peer EXCEPT ![c] = <<>>]
    /\ listener' = [listener EXCEPT ![c] = FALSE]
    /\ tx' = [tx EXCEPT ![c] = <<>>]
    /\ state' = [state EXCEPT ![c] = "IDLE"]
    /\ hold' = [hold EXCEPT ![c] = TRUE]
    /\ at' = [at EXCEPT ![c] = 0]
    /\ UNCHANGED <<rx, ghostVars>>

\* ... a listener only drops the slot.  peer[-1] is dev->listener: with the
\* table already empty, the drop writes -1 over it.
DrainPeerLost(c) ==
    /\ PeerLost(c) /\ state[c] # "CLIENT"
    /\ net' = IF InSlot(c) = None THEN net
              ELSE [net EXCEPT ![InSlot(c)] = CloseEnd(@, c)]
    /\ IF peer[c] = <<>>
       THEN listener' = [listener EXCEPT ![c] = FALSE] /\ UNCHANGED peer
       ELSE /\ peer' = [peer EXCEPT ![c] = DropSlot(@, at[c])]
            /\ UNCHANGED listener
    /\ NextSlot(c)
    /\ UNCHANGED <<state, hold, rx, tx, port, backlog, ghostVars>>

\* The funlink_flush_tx that ends funlink_poll.
\* Seeded fault: tx_len is not reset.
FlushKeepsTx(c) ==
    /\ at[c] = 0
    /\ FlushSockets(c)
    /\ at' = [at EXCEPT ![c] = Out]
    /\ UNCHANGED <<state, hold, listener, rx, tx, port, backlog, ghostVars>>
Flush(c) ==
    /\ at[c] = 0
    /\ FlushSockets(c)
    /\ tx' = [tx EXCEPT ![c] = <<>>]
    /\ at' = [at EXCEPT ![c] = Out]
    /\ UNCHANGED <<state, hold, listener, rx, port, backlog, ghostVars>>
-----------------------------------------------------------------------------
(* The guest's side of the port, and the clock.                            *)

\* funlink_read: one byte per call.
Read(c) ==
    /\ at[c] = Out /\ rx[c] # <<>>
    /\ LET b == Head(rx[c]) IN
         heard' = [heard EXCEPT
                     ![c][b.from] = Append(@, [n |-> b.n, via |-> b.via])]
    /\ rx' = [rx EXCEPT ![c] = Tail(@)]
    /\ UNCHANGED <<state, hold, listener, peer, tx, at, netVars, sent, faults>>

\* funlink_write: a full buffer is flushed first; the station hears itself.
Write(c) ==
    /\ at[c] = Out /\ c \in Talkers /\ sent[c] < MaxBytes
    /\ LET b == [from |-> c, n |-> sent[c] + 1, via |-> None] IN
         /\ IF Len(tx[c]) >= TxSize
            THEN FlushSockets(c) /\ tx' = [tx EXCEPT ![c] = <<b>>]
            ELSE /\ tx' = [tx EXCEPT ![c] = Append(@, b)]
                 /\ UNCHANGED <<net, peer>>
         /\ rx' = IF Echo THEN [rx EXCEPT ![c] = RxPush(@, <<b>>)] ELSE rx
    /\ sent' = [sent EXCEPT ![c] = @ + 1]
    /\ UNCHANGED <<state, hold, listener, at, port, backlog, heard, faults>>

SynPending(k) ==
    /\ net[k].c = "syn"
    /\ LET p == Dials[net[k].cli] IN port[p] = None \/ Len(backlog[p]) < Backlog

\* Half a second passes.  PromptNet: not before the network has answered.
HoldExpires(c) ==
    /\ hold[c]
    /\ PromptNet => ~\E k \in Conn : net[k].cli = c /\ SynPending(k)
    /\ hold' = [hold EXCEPT ![c] = FALSE]
    /\ UNCHANGED <<state, listener, peer, rx, tx, at, netVars, ghostVars>>

\* The machine is reset: funlink_close, then funlink_init.
Restart(c) ==
    /\ at[c] = Out /\ faults < MaxFaults
    /\ net' = ClosedSockets(c)
    /\ CloseListener(c)
    /\ state' = [state EXCEPT ![c] = "IDLE"]
    /\ hold' = [hold EXCEPT ![c] = FALSE]
    /\ listener' = [listener EXCEPT ![c] = FALSE]
    /\ peer' = [peer EXCEPT ![c] = <<>>]
    /\ rx' = [rx EXCEPT ![c] = <<>>]
    /\ tx' = [tx EXCEPT ![c] = <<>>]
    /\ heard' = [heard EXCEPT ![c] = [o \in Cabinet |-> <<>>]]
    /\ faults' = faults + 1
    /\ UNCHANGED <<at, sent>>
-----------------------------------------------------------------------------
(* TCP moving on its own.                                                  *)

SynRefused(k) ==
    /\ SynPending(k) /\ port[Dials[net[k].cli]] = None
    /\ net' = [net EXCEPT ![k].c = "dead"]
    /\ UNCHANGED <<cabVars, port, backlog, ghostVars>>

SynAnswered(k) ==
    /\ SynPending(k) /\ port[Dials[net[k].cli]] # None
    /\ LET p == Dials[net[k].cli] IN
         /\ net' = [net EXCEPT ![k].c = "open", ![k].s = "open",
                               ![k].srv = port[p]]
         /\ backlog' = [backlog EXCEPT ![p] = Append(@, k)]
    /\ UNCHANGED <<cabVars, port, ghostVars>>

\* A closed end's FIN arrives.
Fin(k) ==
    /\ \/ /\ net[k].c = "closed" /\ net[k].s = "open"
          /\ net' = [net EXCEPT ![k].s = "eof"]
       \/ /\ net[k].s = "closed" /\ net[k].c = "open"
          /\ net' = [net EXCEPT ![k].c = "eof"]
    /\ UNCHANGED <<cabVars, port, backlog, ghostVars>>

\* The far end is no more: it answers with a reset, and what it had sent but
\* nobody received is gone.
Rst(k) ==
    /\ \/ /\ net[k].c \in Shut /\ net[k].s \in {"open", "eof"}
          /\ net' = [net EXCEPT ![k].s = "dead", ![k].up = <<>>]
       \/ /\ net[k].s \in Shut /\ net[k].c \in {"open", "eof"}
          /\ net' = [net EXCEPT ![k].c = "dead", ![k].dn = <<>>]
    /\ UNCHANGED <<cabVars, port, backlog, ghostVars>>

\* The network fails a live connection; one end or both find out.
Break(k) ==
    /\ faults < MaxFaults
    /\ net[k].c = "open" /\ net[k].s = "open"
    /\ \/ net' = [net EXCEPT ![k].c = "dead", ![k].dn = <<>>]
       \/ net' = [net EXCEPT ![k].s = "dead", ![k].up = <<>>]
       \/ net' = [net EXCEPT ![k].c = "dead", ![k].dn = <<>>,
                             ![k].s = "dead", ![k].up = <<>>]
    /\ faults' = faults + 1
    /\ UNCHANGED <<cabVars, port, backlog, sent, heard>>

Next ==
    \/ \E c \in Cabinet :
         \/ Poll(c) \/ DrainHears(c) \/ DrainQuiet(c) \/ DrainClientLost(c)
         \/ DrainPeerLost(c) \/ Flush(c) \/ Read(c) \/ Write(c)
         \/ HoldExpires(c) \/ Restart(c)
    \/ \E k \in Conn :
         SynRefused(k) \/ SynAnswered(k) \/ Fin(k) \/ Rst(k) \/ Break(k)

Spec == Init /\ [][Next]_vars
-----------------------------------------------------------------------------
(***************************************************************************)
(* Safety.                                                                 *)
(***************************************************************************)

\* Every variable keeps its type; the table and the ring keep their bounds
\* (peer[FUNLINK_MAX_PEERS], rx[FUNLINK_RX_SIZE], tx[FUNLINK_TX_SIZE]).
TypeOK ==
    /\ state \in [Cabinet -> {"IDLE", "CONNECTING", "CLIENT", "LISTENING"}]
    /\ hold \in [Cabinet -> BOOLEAN]
    /\ listener \in [Cabinet -> BOOLEAN]
    /\ peer \in [Cabinet -> Seq(Conn)]
    /\ rx \in [Cabinet -> Seq(Byte)]
    /\ tx \in [Cabinet -> Seq(Byte)]
    /\ at \in [Cabinet -> Out .. MaxPeers]
    /\ \A c \in Cabinet :
         Len(peer[c]) <= MaxPeers /\ Len(rx[c]) < RxSize /\ Len(tx[c]) <= TxSize
    /\ net \in [Conn -> Connection]
    /\ \A k \in Conn : Len(net[k].up) <= SockCap /\ Len(net[k].dn) <= SockCap
    /\ port \in [PC -> Cabinet \cup {None}]
    /\ backlog \in [PC -> Seq(Conn)]
    /\ \A p \in PC : Len(backlog[p]) <= Backlog
    /\ sent \in [Cabinet -> 0 .. MaxBytes]
    /\ faults \in 0 .. MaxFaults

\* dev->state, the listener and the peer table never disagree: a listener owns
\* its port for as long as it says it is listening, only a listener has more
\* than one peer, and an idle cabinet has none.
StateMatchesSockets ==
    \A c \in Cabinet :
      /\ state[c] = "LISTENING" <=> listener[c]
      /\ listener[c] <=> port[Site[c]] = c
      /\ state[c] = "IDLE" => peer[c] = <<>>
      /\ state[c] = "CONNECTING" => Len(peer[c]) = 1
      /\ state[c] = "CLIENT" => Len(peer[c]) <= 1

\* Nothing is leaked and nothing is used after close: the sockets a cabinet
\* holds open are those in its table (each once) and in its listen queue.
Holds(c, k) == IsClient(net[k], c) \/ (net[k].srv = c /\ net[k].s \notin Shut)
TableIsExact ==
    \A c \in Cabinet :
      LET queued == IF listener[c] THEN SeqMembers(backlog[Site[c]]) ELSE {}
      IN  /\ {k \in Conn : Holds(c, k)} = SeqMembers(peer[c]) \cup queued
          /\ SeqMembers(peer[c]) \cap queued = {}
          /\ Cardinality(SeqMembers(peer[c])) = Len(peer[c])

\* On every cabinet the bytes of one sender that came by one connection are
\* heard in the order they were sent and none of them twice, through the
\* sender's buffer, its socket, the listener's relay and the guest's ring.
HeardOf(c, o) ==
    heard[c][o] \o
    LET mine == Kept(rx[c], {b \in Byte : b.from = o})
    IN  [i \in DOMAIN mine |-> [n |-> mine[i].n, via |-> mine[i].via]]
HearsInOrder ==
    \A c, o \in Cabinet :
      LET h == HeardOf(c, o) IN
      \A i, j \in DOMAIN h : i < j /\ h[i].via = h[j].via => h[i].n < h[j].n

\* A relay never sends a peer's bytes back up the connection they came from,
\* so a cabinet hears itself once, by its own echo, unless it has reconnected.
SplitHorizon ==
    \A k \in Conn : \A i \in DOMAIN net[k].dn : net[k].dn[i].via # k

(***************************************************************************)
(* Action properties.                                                      *)
(***************************************************************************)

\* "A listener that lost a peer keeps waiting for it to come back": only a
\* reset of its machine stops a listener, and no peer of a listener goes while
\* its connection is alive.
ListenerStays ==
    [][\A c \in Cabinet :
         state[c] = "LISTENING" =>
           \/ state'[c] = "LISTENING" /\ listener'[c] = listener[c]
                /\ \A k \in SeqMembers(peer[c]) :
                     net[k].s = "open" => k \in SeqMembers(peer'[c])
           \/ faults' = faults + 1]_vars

(***************************************************************************)
(* Liveness.                                                               *)
(***************************************************************************)
FairSpec ==
    /\ Spec
    /\ \A c \in Cabinet :
         /\ WF_vars(Poll(c))
         /\ WF_vars(DrainHears(c) \/ DrainQuiet(c) \/ DrainClientLost(c)
                      \/ DrainPeerLost(c))
         /\ WF_vars(Flush(c))
         /\ WF_vars(HoldExpires(c))
         /\ SF_vars(PollHostListens(c)) /\ SF_vars(PollListensInstead(c))
         /\ SF_vars(PollDials(c))
    /\ \A k \in Conn :
         WF_vars(SynRefused(k) \/ SynAnswered(k)) /\ WF_vars(Fin(k) \/ Rst(k))

\* One cabinet ends up hosting and every other one is in its table.
BusFormed ==
    \E h \in Cabinet :
      /\ state[h] = "LISTENING"
      /\ \A c \in Cabinet \ {h} :
           /\ state[c] = "CLIENT" /\ peer[c] # <<>>
           /\ peer[c][1] \in SeqMembers(peer[h])

\* "two copies pointed at the same address and port find each other whichever
\* starts first": and do so again after connections break and machines reset.
BusForms == <>[]BusFormed

\* A client that has lost its listener does not stay a client.
ClientStartsOver ==
    \A c \in Cabinet :
      (state[c] = "CLIENT" /\ peer[c] = <<>>) ~> (state[c] # "CLIENT")
=============================================================================
