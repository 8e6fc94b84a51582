---------------------------- MODULE NetCardProof ----------------------------
(***************************************************************************)
(* What holds of the packet path of a network card for every length of its *)
(* queues, every capacity of its events and every number of packets.       *)
(***************************************************************************)
EXTENDS NetCard, TLAPS, SequenceTheorems

\* The type, in parts: each thread with what it knows at the point it is at,
\* each pair of queues, the counters.
Larger == IF MaxTx > MaxRx THEN MaxTx ELSE MaxRx
VmType ==
    /\ vm \in {"cpu", "receive", "get", "card", "transmit", "move", "notify",
              "closing", "closed"}
    /\ i \in 0 .. QueueLen
    /\ queued_pkt \in 0 .. MaxRx
    /\ vm = "get" => queued_pkt = 0
    /\ vm = "card" => queued_pkt # 0
    /\ vm \in {"receive", "get", "card"} => i < QueueLen
HostType ==
    /\ host \in {"poll", "stack", "put", "take", "pop", "check", "send", "defer",
                "requeue", "again", "ended"}
    /\ revents \subseteq {"STOP", "TX"}
    /\ pkt \in 0 .. MaxRx
    /\ host = "put" => pkt # 0
    /\ "TX" \in revents => tx_event > 0
    /\ tx_event \in 0 .. EventMax
BatchType ==
    /\ pkt_v \in Seq(1 .. Larger) /\ Len(pkt_v) < QueueLen
    /\ host \in {"check", "send"} => pkt_v \in Seq(1 .. MaxTx)
    /\ host \in {"requeue", "again"} => pkt_v \in Seq(1 .. MaxRx)
    /\ host = "again" => pkt_v # <<>>
TxType ==
    /\ tx_vm \in Seq(1 .. MaxTx) /\ Len(tx_vm) < QueueLen
    /\ tx_host \in Seq(1 .. MaxTx) /\ Len(tx_host) < QueueLen
RxType ==
    /\ rx \in Seq(1 .. MaxRx) /\ Len(rx) < QueueLen
    /\ rx_on_tx \in Seq(1 .. MaxRx) /\ Len(rx_on_tx) < QueueLen
Counts ==
    /\ ntx \in 0 .. MaxTx /\ accepted \in 0 .. MaxTx /\ sent \in 0 .. MaxTx
    /\ nrx \in 0 .. MaxRx /\ entered \in 0 .. MaxRx /\ got \in 0 .. MaxRx
    /\ changes \in 0 .. MaxLink
Flags ==
    /\ tx_bytes \in BOOLEAN /\ recv_on_tx \in BOOLEAN /\ stop_event \in BOOLEAN
    /\ link \in BOOLEAN /\ card_link \in BOOLEAN

\* A mutex is held by the thread that is in one of its critical sections, and
\* by no other.
Locks ==
    /\ rx_mutex \in {"free", "vm", "host"} /\ tx_mutex \in {"free", "vm", "host"}
    /\ (rx_mutex = "vm") = (vm = "get")
    /\ (rx_mutex = "host") = (host \in {"put", "again"})
    /\ (tx_mutex = "vm") = (vm = "move")
    /\ (tx_mutex = "host") = (host = "pop")

TypeInv ==
    VmType /\ HostType /\ BatchType /\ TxType /\ RxType /\ Counts /\ Flags /\ Locks

-----------------------------------------------------------------------------
(* Sequences.                                                              *)

LEMMA Sizes ==
    /\ QueueLen \in Nat /\ QueueLen > 1 /\ EventMax \in Nat /\ EventMax > 0
    /\ MaxTx \in Nat /\ MaxRx \in Nat /\ MaxLink \in Nat
    /\ Larger \in Nat /\ MaxTx <= Larger /\ MaxRx <= Larger
  BY NetCardAssumption DEF Larger

LEMMA HeadTail ==
    ASSUME NEW n \in Nat, NEW s \in Seq(1 .. n), s # <<>>
    PROVE  /\ Head(s) \in 1 .. n /\ Tail(s) \in Seq(1 .. n)
           /\ Len(s) \in Nat \ {0} /\ Len(Tail(s)) = Len(s) - 1
  BY HeadTailProperties, EmptySeq

LEMMA Appended ==
    ASSUME NEW n \in Nat, NEW s \in Seq(1 .. n), NEW e \in 1 .. n
    PROVE  Append(s, e) \in Seq(1 .. n) /\ Len(Append(s, e)) = Len(s) + 1
  BY AppendProperties

\* A queue with room takes a packet, one that is not empty gives its first.
LEMMA PutKeeps ==
    ASSUME NEW n \in Nat, NEW q \in Seq(1 .. n), Len(q) < QueueLen, ~Full(q), NEW e \in 1 .. n
    PROVE  Append(q, e) \in Seq(1 .. n) /\ Len(Append(q, e)) < QueueLen
  <1>1. Len(q) \in Nat
    OBVIOUS
  <1>2. Append(q, e) \in Seq(1 .. n) /\ Len(Append(q, e)) = Len(q) + 1
    BY Appended
  <1> QED
    BY <1>1, <1>2, Sizes DEF Full

LEMMA GetKeeps ==
    ASSUME NEW n \in Nat, NEW q \in Seq(1 .. n), Len(q) < QueueLen, q # <<>>
    PROVE  /\ Head(q) \in 1 .. n /\ Tail(q) \in Seq(1 .. n)
           /\ Len(Tail(q)) < QueueLen
  <1>1. /\ Head(q) \in 1 .. n /\ Tail(q) \in Seq(1 .. n)
        /\ Len(q) \in Nat \ {0} /\ Len(Tail(q)) = Len(q) - 1
    BY HeadTail
  <1> QED
    BY <1>1, Sizes

LEMMA Wider ==
    ASSUME NEW s, s \in Seq(1 .. MaxTx) \/ s \in Seq(1 .. MaxRx)
    PROVE  s \in Seq(1 .. Larger)
  <1>1. 1 .. MaxTx \subseteq 1 .. Larger /\ 1 .. MaxRx \subseteq 1 .. Larger
    BY Sizes
  <1> QED
    BY <1>1, SeqMonotonic

LEMMA Empties ==
    /\ <<>> \in Seq(1 .. MaxTx) /\ <<>> \in Seq(1 .. MaxRx)
    /\ <<>> \in Seq(1 .. Larger) /\ Len(<<>>) = 0 /\ Len(<<>>) < QueueLen
  BY EmptySeq, Sizes

LEMMA Unpacked ==
    ASSUME TypeInv
    PROVE  TypeOK
  <1> USE DEF TypeInv
  <1>1. /\ \A q \in {tx_vm, tx_host} : q \in Seq(1 .. MaxTx) /\ Len(q) < QueueLen
        /\ \A q \in {rx, rx_on_tx} : q \in Seq(1 .. MaxRx) /\ Len(q) < QueueLen
    BY DEF TxType, RxType
  <1>2. pkt_v \in Seq(1 .. (IF MaxTx > MaxRx THEN MaxTx ELSE MaxRx)) /\ Len(pkt_v) <= QueueLen
    BY Sizes, EmptySeq DEF BatchType, Larger
  <1>3. queued_pkt \in 0 .. MaxRx /\ pkt \in 0 .. MaxRx /\ i \in 0 .. QueueLen
    BY DEF VmType, HostType
  <1>4. /\ vm \in {"cpu", "receive", "get", "card", "transmit", "move", "notify",
                   "closing", "closed"}
        /\ host \in {"poll", "stack", "put", "take", "pop", "check", "send", "defer",
                     "requeue", "again", "ended"}
        /\ rx_mutex \in {"free", "vm", "host"} /\ tx_mutex \in {"free", "vm", "host"}
        /\ revents \subseteq {"STOP", "TX"} /\ tx_event \in 0 .. EventMax
    BY DEF VmType, HostType, Locks
  <1>5. /\ tx_bytes \in BOOLEAN /\ recv_on_tx \in BOOLEAN /\ stop_event \in BOOLEAN
        /\ link \in BOOLEAN /\ card_link \in BOOLEAN
    BY Zenon DEF Flags
  <1>6. /\ ntx \in 0 .. MaxTx /\ accepted \in 0 .. MaxTx /\ sent \in 0 .. MaxTx
        /\ nrx \in 0 .. MaxRx /\ entered \in 0 .. MaxRx /\ got \in 0 .. MaxRx
        /\ changes \in 0 .. MaxLink
    BY DEF Counts
  <1> QED
    BY <1>1, <1>2, <1>3, <1>4, <1>5, <1>6, Zenon DEF TypeOK

-----------------------------------------------------------------------------
(* Types.                                                                  *)

LEMMA InitType ==
    ASSUME Init
    PROVE  TypeInv
  <1>1. VmType /\ HostType /\ Counts /\ Locks
    BY Sizes DEF Init, VmType, HostType, Counts, Locks
  <1>2. BatchType
    BY Sizes, Empties DEF Init, BatchType
  <1>3. TxType /\ RxType
    BY Sizes, Empties DEF Init, TxType, RxType
  <1>4. Flags
    BY Zenon DEF Init, Flags
  <1> QED
    BY <1>1, <1>2, <1>3, <1>4 DEF TypeInv

LEMMA NetworkTxType ==
    ASSUME TypeInv, NetworkTx
    PROVE  TypeInv'
  <1> USE DEF NetworkTx, TypeInv, vmVars, hostVars, events, links, txQueues, rxQueues,
        txHistory, rxHistory, mutexes
  <1>1. VmType' /\ HostType' /\ BatchType' /\ RxType' /\ Locks'
    BY DEF VmType, HostType, BatchType, RxType, Locks
  <1>2. Flags'
    BY Zenon DEF Flags
  <1>3. Counts'
    BY Sizes, Empties DEF Counts
  <1>4. TxType'
    <2>1. ntx' \in 1 .. MaxTx
      BY Sizes DEF Counts
    <2>2. CASE Full(tx_vm)
      BY <2>2 DEF TxType
    <2>3. CASE ~Full(tx_vm)
      <3>1. Append(tx_vm, ntx') \in Seq(1 .. MaxTx) /\ Len(Append(tx_vm, ntx')) < QueueLen
        BY <2>1, <2>3, Sizes, PutKeeps DEF TxType
      <3> QED
        BY <3>1, <2>3 DEF TxType
    <2> QED
      BY <2>2, <2>3
  <1> QED
    BY <1>1, <1>2, <1>3, <1>4

LEMMA TimerType ==
    ASSUME TypeInv, Timer
    PROVE  TypeInv'
  <1> USE DEF Timer, TypeInv, vmVars, hostVars, events, links, txQueues, rxQueues,
        txHistory, rxHistory, mutexes
  <1>1. HostType' /\ BatchType' /\ TxType' /\ RxType' /\ Counts'
    BY DEF HostType, BatchType, TxType, RxType, Counts
  <1>2. Flags'
    BY Zenon DEF Flags
  <1>3. VmType'
    BY Sizes DEF VmType
  <1>4. Locks'
    BY DEF Locks
  <1> QED
    BY <1>1, <1>2, <1>3, <1>4

LEMMA RetryType ==
    ASSUME TypeInv, Retry
    PROVE  TypeInv'
  <1> USE DEF Retry, TypeInv, vmVars, hostVars, events, links, txQueues, rxQueues,
        txHistory, rxHistory, mutexes
  <1>1. HostType' /\ BatchType' /\ TxType' /\ RxType' /\ Counts'
    BY DEF HostType, BatchType, TxType, RxType, Counts
  <1>2. Flags'
    BY Zenon DEF Flags
  <1>3. VmType'
    BY Sizes DEF VmType
  <1>4. Locks'
    BY DEF Locks
  <1> QED
    BY <1>1, <1>2, <1>3, <1>4

LEMMA LockRxType ==
    ASSUME TypeInv, LockRx
    PROVE  TypeInv'
  <1> USE DEF LockRx, TypeInv, vmVars, hostVars, events, links, txQueues, rxQueues,
        txHistory, rxHistory, mutexes
  <1>1. HostType' /\ BatchType' /\ TxType' /\ RxType' /\ Counts'
    BY DEF HostType, BatchType, TxType, RxType, Counts
  <1>2. Flags'
    BY Zenon DEF Flags
  <1>3. VmType'
    BY Sizes DEF VmType
  <1>4. Locks'
    BY DEF Locks
  <1> QED
    BY <1>1, <1>2, <1>3, <1>4

LEMMA GetType ==
    ASSUME TypeInv, Get
    PROVE  TypeInv'
  <1> USE DEF Get, TypeInv, vmVars, hostVars, events, links, txQueues, rxQueues,
        txHistory, rxHistory, mutexes
  <1>1. HostType' /\ BatchType' /\ TxType' /\ Counts'
    BY DEF HostType, BatchType, TxType, Counts
  <1>2. Flags'
    BY Zenon DEF Flags
  <1>3. VmType'
    <2>1. CASE rx = <<>>
      BY <2>1 DEF VmType
    <2>2. CASE rx # <<>>
      <3>1. /\ Head(rx) \in 1 .. MaxRx /\ Tail(rx) \in Seq(1 .. MaxRx)
            /\ Len(Tail(rx)) < QueueLen
        BY <2>2, Sizes, GetKeeps DEF RxType
      <3> QED
        BY <3>1, <2>2, Sizes DEF VmType
    <2> QED
      BY <2>1, <2>2
  <1>4. RxType'
    <2>1. CASE rx = <<>>
      BY <2>1 DEF RxType
    <2>2. CASE rx # <<>>
      <3>1. /\ Head(rx) \in 1 .. MaxRx /\ Tail(rx) \in Seq(1 .. MaxRx)
            /\ Len(Tail(rx)) < QueueLen
        BY <2>2, Sizes, GetKeeps DEF RxType
      <3> QED
        BY <3>1, <2>2, Sizes DEF RxType
    <2> QED
      BY <2>1, <2>2
  <1>5. Locks'
    BY DEF Locks
  <1> QED
    BY <1>1, <1>2, <1>3, <1>4, <1>5

LEMMA CardTakesType ==
    ASSUME TypeInv, CardTakes
    PROVE  TypeInv'
  <1> USE DEF CardTakes, TypeInv, vmVars, hostVars, events, links, txQueues, rxQueues,
        txHistory, rxHistory, mutexes
  <1>1. HostType' /\ BatchType' /\ TxType' /\ RxType'
    BY DEF HostType, BatchType, TxType, RxType
  <1>2. Flags'
    BY Zenon DEF Flags
  <1>3. VmType'
    BY Sizes DEF VmType
  <1>4. Counts'
    BY Sizes DEF Counts, VmType
  <1>5. Locks'
    BY DEF Locks
  <1> QED
    BY <1>1, <1>2, <1>3, <1>4, <1>5

LEMMA CardBusyType ==
    ASSUME TypeInv, CardBusy
    PROVE  TypeInv'
  <1> USE DEF CardBusy, TypeInv, vmVars, hostVars, events, links, txQueues, rxQueues,
        txHistory, rxHistory, mutexes
  <1>1. HostType' /\ BatchType' /\ TxType' /\ RxType' /\ Counts'
    BY DEF HostType, BatchType, TxType, RxType, Counts
  <1>2. Flags'
    BY Zenon DEF Flags
  <1>3. VmType'
    BY Sizes DEF VmType
  <1>4. Locks'
    BY DEF Locks
  <1> QED
    BY <1>1, <1>2, <1>3, <1>4

LEMMA LockTxType ==
    ASSUME TypeInv, LockTx
    PROVE  TypeInv'
  <1> USE DEF LockTx, TypeInv, vmVars, hostVars, events, links, txQueues, rxQueues,
        txHistory, rxHistory, mutexes
  <1>1. HostType' /\ BatchType' /\ TxType' /\ RxType' /\ Counts'
    BY DEF HostType, BatchType, TxType, RxType, Counts
  <1>2. Flags'
    BY Zenon DEF Flags
  <1>3. VmType'
    BY Sizes DEF VmType
  <1>4. Locks'
    BY DEF Locks
  <1> QED
    BY <1>1, <1>2, <1>3, <1>4

LEMMA MoveType ==
    ASSUME TypeInv, Move
    PROVE  TypeInv'
  <1> USE DEF Move, TypeInv, vmVars, hostVars, events, links, txQueues, rxQueues,
        txHistory, rxHistory, mutexes
  <1>1. HostType' /\ BatchType' /\ RxType' /\ Counts' /\ Locks'
    BY DEF HostType, BatchType, RxType, Counts, Locks
  <1>2. Flags'
    BY Zenon DEF Flags
  <1>3. VmType'
    BY Sizes DEF VmType
  <1>4. TxType'
    <2>1. /\ Head(tx_vm) \in 1 .. MaxTx /\ Tail(tx_vm) \in Seq(1 .. MaxTx)
          /\ Len(Tail(tx_vm)) < QueueLen
      BY Sizes, GetKeeps DEF TxType
    <2>2. /\ Append(tx_host, Head(tx_vm)) \in Seq(1 .. MaxTx)
          /\ Len(Append(tx_host, Head(tx_vm))) < QueueLen
      BY <2>1, Sizes, PutKeeps DEF TxType
    <2> QED
      BY <2>1, <2>2 DEF TxType
  <1> QED
    BY <1>1, <1>2, <1>3, <1>4

LEMMA MovedType ==
    ASSUME TypeInv, Moved
    PROVE  TypeInv'
  <1> USE DEF Moved, TypeInv, vmVars, hostVars, events, links, txQueues, rxQueues,
        txHistory, rxHistory, mutexes
  <1>1. HostType' /\ BatchType' /\ TxType' /\ RxType' /\ Counts'
    BY DEF HostType, BatchType, TxType, RxType, Counts
  <1>2. Flags'
    BY Zenon DEF Flags
  <1>3. VmType'
    BY Sizes DEF VmType
  <1>4. Locks'
    BY DEF Locks
  <1> QED
    BY <1>1, <1>2, <1>3, <1>4

LEMMA NotifyType ==
    ASSUME TypeInv, Notify
    PROVE  TypeInv'
  <1> USE DEF Notify, TypeInv, vmVars, hostVars, events, links, txQueues, rxQueues,
        txHistory, rxHistory, mutexes
  <1>1. BatchType' /\ TxType' /\ RxType' /\ Counts'
    BY DEF BatchType, TxType, RxType, Counts
  <1>2. Flags'
    BY Zenon DEF Flags
  <1>3. VmType'
    BY Sizes DEF VmType
  <1>4. HostType'
    BY Sizes DEF HostType
  <1>5. Locks'
    BY DEF Locks
  <1> QED
    BY <1>1, <1>2, <1>3, <1>4, <1>5

LEMMA CloseType ==
    ASSUME TypeInv, Close
    PROVE  TypeInv'
  <1> USE DEF Close, TypeInv, vmVars, hostVars, events, links, txQueues, rxQueues,
        txHistory, rxHistory, mutexes
  <1>1. HostType' /\ BatchType' /\ TxType' /\ RxType' /\ Counts'
    BY DEF HostType, BatchType, TxType, RxType, Counts
  <1>2. Flags'
    BY Zenon DEF Flags
  <1>3. VmType'
    BY Sizes DEF VmType
  <1>4. Locks'
    BY DEF Locks
  <1> QED
    BY <1>1, <1>2, <1>3, <1>4

LEMMA JoinedType ==
    ASSUME TypeInv, Joined
    PROVE  TypeInv'
  <1> USE DEF Joined, TypeInv, vmVars, hostVars, events, links, txQueues, rxQueues,
        txHistory, rxHistory, mutexes
  <1>1. HostType' /\ BatchType' /\ Counts'
    BY DEF HostType, BatchType, Counts
  <1>2. Flags'
    BY Zenon DEF Flags
  <1>3. VmType'
    BY Sizes DEF VmType
  <1>4. TxType'
    BY Sizes, Empties DEF TxType
  <1>5. RxType'
    BY Sizes, Empties DEF RxType
  <1>6. Locks'
    BY DEF Locks
  <1> QED
    BY <1>1, <1>2, <1>3, <1>4, <1>5, <1>6

LEMMA PlugType ==
    ASSUME TypeInv, Plug
    PROVE  TypeInv'
  <1> USE DEF Plug, TypeInv, vmVars, hostVars, events, links, txQueues, rxQueues,
        txHistory, rxHistory, mutexes
  <1>1. VmType' /\ HostType' /\ BatchType' /\ TxType' /\ RxType' /\ Locks'
    BY DEF VmType, HostType, BatchType, TxType, RxType, Locks
  <1>2. Flags'
    BY Zenon DEF Flags
  <1>3. Counts'
    BY Sizes, Empties DEF Counts
  <1> QED
    BY <1>1, <1>2, <1>3

LEMMA PollType ==
    ASSUME TypeInv, Poll
    PROVE  TypeInv'
  <1> USE DEF Poll, TypeInv, vmVars, hostVars, events, links, txQueues, rxQueues,
        txHistory, rxHistory, mutexes
  <1>1. VmType' /\ TxType' /\ RxType' /\ Counts'
    BY DEF VmType, TxType, RxType, Counts
  <1>2. Flags'
    BY Zenon DEF Flags
  <1>3. HostType'
    BY Sizes DEF HostType
  <1>4. BatchType'
    BY Sizes, Empties DEF BatchType
  <1>5. Locks'
    BY DEF Locks
  <1> QED
    BY <1>1, <1>2, <1>3, <1>4, <1>5

LEMMA ReceiveType ==
    ASSUME TypeInv, Receive
    PROVE  TypeInv'
  <1> USE DEF Receive, TypeInv, vmVars, hostVars, events, links, txQueues, rxQueues,
        txHistory, rxHistory, mutexes
  <1>1. VmType' /\ BatchType' /\ TxType' /\ Locks'
    BY DEF VmType, BatchType, TxType, Locks
  <1>2. Flags'
    BY Zenon DEF Flags
  <1>3. HostType'
    <2>1. nrx' \in 0 .. MaxRx
      BY Sizes DEF Counts
    <2>2. pkt' = pkt \/ pkt' = nrx'
      OBVIOUS
    <2>3. pkt' \in 0 .. MaxRx /\ host # "put" /\ host' = host
      BY <2>1, <2>2 DEF HostType
    <2> QED
      BY <2>3 DEF HostType
  <1>4. RxType'
    <2>1. nrx' \in 1 .. MaxRx
      BY Sizes DEF Counts
    <2>2. CASE rx_on_tx' = rx_on_tx
      BY <2>2 DEF RxType
    <2>3. CASE ~Full(rx_on_tx) /\ rx_on_tx' = Append(rx_on_tx, nrx')
      <3>1. /\ Append(rx_on_tx, nrx') \in Seq(1 .. MaxRx)
            /\ Len(Append(rx_on_tx, nrx')) < QueueLen
        BY <2>1, <2>3, Sizes, PutKeeps DEF RxType
      <3> QED
        BY <3>1, <2>3 DEF RxType
    <2> QED
      BY <2>2, <2>3
  <1>5. Counts'
    BY Sizes, Empties DEF Counts
  <1> QED
    BY <1>1, <1>2, <1>3, <1>4, <1>5

LEMMA LockRxForPutType ==
    ASSUME TypeInv, LockRxForPut
    PROVE  TypeInv'
  <1> USE DEF LockRxForPut, TypeInv, vmVars, hostVars, events, links, txQueues, rxQueues,
        txHistory, rxHistory, mutexes
  <1>1. VmType' /\ TxType' /\ RxType' /\ Counts'
    BY DEF VmType, TxType, RxType, Counts
  <1>2. Flags'
    BY Zenon DEF Flags
  <1>3. HostType'
    BY Sizes DEF HostType
  <1>4. BatchType'
    BY Sizes, Empties DEF BatchType
  <1>5. Locks'
    BY DEF Locks
  <1> QED
    BY <1>1, <1>2, <1>3, <1>4, <1>5

LEMMA PutType ==
    ASSUME TypeInv, Put
    PROVE  TypeInv'
  <1> USE DEF Put, TypeInv, vmVars, hostVars, events, links, txQueues, rxQueues,
        txHistory, rxHistory, mutexes
  <1>1. VmType' /\ TxType'
    BY DEF VmType, TxType
  <1>2. Flags'
    BY Zenon DEF Flags
  <1>3. HostType'
    BY Sizes DEF HostType
  <1>4. BatchType'
    BY Sizes, Empties DEF BatchType
  <1>5. RxType'
    <2>1. pkt \in 1 .. MaxRx
      BY Sizes DEF HostType
    <2>2. CASE Full(rx)
      BY <2>2 DEF PutRx, RxType
    <2>3. CASE ~Full(rx)
      <3>1. Append(rx, pkt) \in Seq(1 .. MaxRx) /\ Len(Append(rx, pkt)) < QueueLen
        BY <2>1, <2>3, Sizes, PutKeeps DEF RxType
      <3> QED
        BY <3>1, <2>3 DEF PutRx, RxType
    <2> QED
      BY <2>2, <2>3
  <1>6. Counts'
    BY Sizes DEF PutRx, Counts, HostType
  <1>7. Locks'
    BY DEF PutRx, Locks
  <1> QED
    BY <1>1, <1>2, <1>3, <1>4, <1>5, <1>6, <1>7

LEMMA ServeType ==
    ASSUME TypeInv, Serve
    PROVE  TypeInv'
  <1> USE DEF Serve, TypeInv, vmVars, hostVars, events, links, txQueues, rxQueues,
        txHistory, rxHistory, mutexes
  <1>1. VmType' /\ TxType' /\ RxType' /\ Counts'
    BY DEF VmType, TxType, RxType, Counts
  <1>2. Flags'
    BY Zenon DEF Flags
  <1>3. HostType'
    BY Sizes DEF HostType
  <1>4. BatchType'
    BY Sizes, Empties DEF BatchType
  <1>5. Locks'
    BY DEF Locks
  <1> QED
    BY <1>1, <1>2, <1>3, <1>4, <1>5

LEMMA LockTxForPopType ==
    ASSUME TypeInv, LockTxForPop
    PROVE  TypeInv'
  <1> USE DEF LockTxForPop, TypeInv, vmVars, hostVars, events, links, txQueues, rxQueues,
        txHistory, rxHistory, mutexes
  <1>1. VmType' /\ TxType' /\ RxType' /\ Counts'
    BY DEF VmType, TxType, RxType, Counts
  <1>2. Flags'
    BY Zenon DEF Flags
  <1>3. HostType'
    BY Sizes DEF HostType
  <1>4. BatchType'
    BY Sizes, Empties DEF BatchType
  <1>5. Locks'
    BY DEF Locks
  <1> QED
    BY <1>1, <1>2, <1>3, <1>4, <1>5

LEMMA PopType ==
    ASSUME TypeInv, Pop
    PROVE  TypeInv'
  <1> USE DEF Pop, TypeInv, vmVars, hostVars, events, links, txQueues, rxQueues,
        txHistory, rxHistory, mutexes
  <1>1. VmType' /\ RxType' /\ Counts'
    BY DEF VmType, RxType, Counts
  <1>2. Flags'
    BY Zenon DEF Flags
  <1>3. HostType'
    BY Sizes DEF HostType
  <1>4. BatchType'
    <2>1. tx_host \in Seq(1 .. Larger)
      BY Wider DEF TxType
    <2> QED
      BY <2>1 DEF BatchType, TxType
  <1>5. TxType'
    BY Sizes, Empties DEF TxType
  <1>6. Locks'
    BY DEF Locks
  <1> QED
    BY <1>1, <1>2, <1>3, <1>4, <1>5, <1>6

LEMMA CheckType ==
    ASSUME TypeInv, Check
    PROVE  TypeInv'
  <1> USE DEF Check, TypeInv, vmVars, hostVars, events, links, txQueues, rxQueues,
        txHistory, rxHistory, mutexes
  <1>1. VmType' /\ TxType' /\ RxType' /\ Counts'
    BY DEF VmType, TxType, RxType, Counts
  <1>2. Flags'
    BY Zenon DEF Flags
  <1>3. HostType'
    BY Sizes DEF HostType
  <1>4. BatchType'
    <2>1. CASE link
      BY <2>1 DEF BatchType
    <2>2. CASE ~link
      BY <2>2, Sizes, Empties DEF BatchType
    <2> QED
      BY <2>1, <2>2
  <1>5. Locks'
    BY DEF Locks
  <1> QED
    BY <1>1, <1>2, <1>3, <1>4, <1>5

LEMMA SendType ==
    ASSUME TypeInv, Send
    PROVE  TypeInv'
  <1> USE DEF Send, TypeInv, vmVars, hostVars, events, links, txQueues, rxQueues,
        txHistory, rxHistory, mutexes
  <1>1. VmType' /\ TxType' /\ RxType'
    BY DEF VmType, TxType, RxType
  <1>2. Flags'
    BY Zenon DEF Flags
  <1>3. HostType'
    BY Sizes DEF HostType
  <1>4. BatchType'
    <2>1. CASE pkt_v = <<>>
      BY <2>1 DEF BatchType
    <2>2. CASE pkt_v # <<>>
      <3>1. Tail(pkt_v) \in Seq(1 .. MaxTx) /\ Len(Tail(pkt_v)) < QueueLen
        BY <2>2, Sizes, GetKeeps DEF BatchType
      <3>2. Tail(pkt_v) \in Seq(1 .. Larger)
        BY <3>1, Wider
      <3> QED
        BY <3>1, <3>2, <2>2 DEF BatchType
    <2> QED
      BY <2>1, <2>2
  <1>5. Counts'
    <2>1. pkt_v # <<>> => Head(pkt_v) \in 1 .. MaxTx
      BY Sizes, HeadTail DEF BatchType
    <2> QED
      BY <2>1, Sizes DEF Counts
  <1>6. Locks'
    BY DEF Locks
  <1> QED
    BY <1>1, <1>2, <1>3, <1>4, <1>5, <1>6

LEMMA DeferType ==
    ASSUME TypeInv, Defer
    PROVE  TypeInv'
  <1> USE DEF Defer, TypeInv, vmVars, hostVars, events, links, txQueues, rxQueues,
        txHistory, rxHistory, mutexes
  <1>1. VmType' /\ TxType' /\ Counts'
    BY DEF VmType, TxType, Counts
  <1>2. Flags'
    BY Zenon DEF Flags
  <1>3. HostType'
    BY Sizes DEF HostType
  <1>4. BatchType'
    <2>1. CASE pkt_v' = rx_on_tx
      BY <2>1, Wider DEF RxType, BatchType
    <2>2. CASE pkt_v' = <<>>
      <3>1. host' \notin {"check", "send", "again"}
        OBVIOUS
      <3> HIDE DEF Defer
      <3> QED
        BY <2>2, <3>1, Empties DEF BatchType
    <2> QED
      BY <2>1, <2>2
  <1>5. RxType'
    <2>1. CASE rx_on_tx' = rx_on_tx
      BY <2>1 DEF RxType
    <2>2. CASE rx_on_tx' = <<>>
      <3>1. rx' = rx
        OBVIOUS
      <3> HIDE DEF Defer
      <3> QED
        BY <2>2, <3>1, Empties DEF RxType
    <2> QED
      BY <2>1, <2>2
  <1>6. Locks'
    BY DEF Locks
  <1> QED
    BY <1>1, <1>2, <1>3, <1>4, <1>5, <1>6

LEMMA LockRxAgainType ==
    ASSUME TypeInv, LockRxAgain
    PROVE  TypeInv'
  <1> USE DEF LockRxAgain, TypeInv, vmVars, hostVars, events, links, txQueues, rxQueues,
        txHistory, rxHistory, mutexes
  <1>1. VmType' /\ TxType' /\ RxType' /\ Counts'
    BY DEF VmType, TxType, RxType, Counts
  <1>2. Flags'
    BY Zenon DEF Flags
  <1>3. HostType'
    BY Sizes DEF HostType
  <1>4. BatchType'
    BY Sizes, Empties DEF BatchType
  <1>5. Locks'
    BY DEF Locks
  <1> QED
    BY <1>1, <1>2, <1>3, <1>4, <1>5

LEMMA PutAgainType ==
    ASSUME TypeInv, PutAgain
    PROVE  TypeInv'
  <1> USE DEF PutAgain, TypeInv, vmVars, hostVars, events, links, txQueues, rxQueues,
        txHistory, rxHistory, mutexes
  <1>1. VmType' /\ TxType'
    BY DEF VmType, TxType
  <1>2. Flags'
    BY Zenon DEF Flags
  <1>3. HostType'
    BY Sizes DEF HostType
  <1>4. BatchType'
    BY Sizes, Empties DEF BatchType
  <1>5. RxType'
    <2>1. Head(pkt_v) \in 1 .. MaxRx
      BY Sizes, HeadTail DEF BatchType
    <2>2. CASE Full(rx)
      BY <2>2 DEF PutRx, RxType
    <2>3. CASE ~Full(rx)
      <3>1. Append(rx, Head(pkt_v)) \in Seq(1 .. MaxRx) /\ Len(Append(rx, Head(pkt_v))) < QueueLen
        BY <2>1, <2>3, Sizes, PutKeeps DEF RxType
      <3> QED
        BY <3>1, <2>3 DEF PutRx, RxType
    <2> QED
      BY <2>2, <2>3
  <1>6. Counts'
    <2>1. Head(pkt_v) \in 1 .. MaxRx
      BY Sizes, HeadTail DEF BatchType
    <2> QED
      BY <2>1, Sizes DEF PutRx, Counts
  <1>7. Locks'
    BY DEF PutRx, Locks
  <1> QED
    BY <1>1, <1>2, <1>3, <1>4, <1>5, <1>6, <1>7

LEMMA TypeKept ==
    ASSUME TypeInv, [Next]_vars
    PROVE  TypeInv'
  <1>1. CASE VM
    BY <1>1, NetworkTxType, TimerType, RetryType, LockRxType, GetType, CardTakesType,
       CardBusyType, LockTxType, MoveType, MovedType, NotifyType, CloseType,
       JoinedType, Zenon DEF VM
  <1>2. CASE Plug
    BY <1>2, PlugType
  <1>3. CASE Host
    BY <1>3, PollType, ReceiveType, LockRxForPutType, PutType, ServeType,
       LockTxForPopType, PopType, CheckType, SendType, DeferType,
       LockRxAgainType, PutAgainType, Zenon DEF Host
  <1>4. CASE UNCHANGED vars
    <2> USE <1>4 DEF TypeInv, vars, vmVars, hostVars, events, links, txQueues, rxQueues,
          txHistory, rxHistory, mutexes
    <2>1. VmType' /\ HostType' /\ BatchType' /\ TxType' /\ RxType' /\ Counts' /\ Locks'
      BY DEF VmType, HostType, BatchType, TxType, RxType, Counts, Locks
    <2>2. Flags'
      BY Zenon DEF Flags
    <2> QED
      BY <2>1, <2>2
  <1> QED
    BY <1>1, <1>2, <1>3, <1>4 DEF Next

-----------------------------------------------------------------------------
(* The wake-up.  NoLostWakeup is inductive with the types.                 *)

LEMMA WakeupKept ==
    ASSUME TypeInv, NoLostWakeup, [Next]_vars
    PROVE  NoLostWakeup'
  <1> USE DEF NoLostWakeup
  \* Who fills tx_host is about to set the event.
  <1>1. CASE Move
    BY <1>1 DEF Move
  <1>2. CASE Moved
    BY <1>2 DEF Moved, hostVars, events, txQueues
  \* Setting it takes nothing away, though the pipe may be full.
  <1>3. CASE Notify
    BY <1>3, Sizes DEF Notify, TypeInv, HostType, hostVars, txQueues
  \* The driver clears it on its way to the queue, and empties that.
  <1>4. CASE Serve
    BY <1>4 DEF Serve, vmVars, txQueues
  <1>5. CASE LockTxForPop \/ Pop \/ Check
    BY <1>5 DEF LockTxForPop, Pop, Check, vmVars, txQueues, events
  \* Nothing else touches the queue or the event.
  <1>6. CASE NetworkTx \/ Timer \/ Retry \/ LockRx \/ Get \/ CardTakes \/ CardBusy \/ LockTx \/ Close \/ Joined
    BY <1>6 DEF NetworkTx, Timer, Retry, LockRx, Get, CardTakes, CardBusy, LockTx, Close, Joined,
       hostVars, events, txQueues, vmVars
  <1>7. CASE Plug
    BY <1>7 DEF Plug, vmVars, hostVars, events, txQueues
  <1>8. CASE Poll \/ Receive \/ LockRxForPut \/ Put \/ Send \/ Defer \/ LockRxAgain \/ PutAgain
    BY <1>8 DEF Poll, Receive, LockRxForPut, Put, Send, Defer, LockRxAgain, PutAgain,
       vmVars, events, txQueues
  <1>9. CASE UNCHANGED vars
    BY <1>9 DEF vars, vmVars, hostVars, events, txQueues
  <1> QED
    BY <1>1, <1>2, <1>3, <1>4, <1>5, <1>6, <1>7, <1>8, <1>9, Zenon DEF Next, VM, Host

-----------------------------------------------------------------------------
(* Packets keep their order: what the guest sent is numbered from 1, and   *)
(* what the stack sent waits in one place at a time.                       *)

Increasing(q, low, high) ==
    /\ \A k \in 1 .. Len(q) : low < q[k] /\ q[k] <= high
    /\ \A j, k \in 1 .. Len(q) : j < k => q[j] < q[k]

Order ==
    /\ accepted <= ntx
    /\ entered <= nrx
    /\ pkt # 0 => entered < pkt /\ pkt <= nrx /\ host \in {"stack", "put"}
    /\ rx_on_tx # <<>> => host \in {"send", "defer"} /\ recv_on_tx
    /\ Increasing(rx_on_tx, entered, nrx)
    /\ host \in {"requeue", "again"} => Increasing(pkt_v, entered, nrx)

LEMMA NothingIncreases == \A low, high : Increasing(<<>>, low, high)
  BY DEF Increasing

LEMMA IncreasingAppend ==
    ASSUME NEW n \in Nat, NEW q \in Seq(1 .. n), NEW low \in Nat, NEW high \in Nat,
           NEW e \in 1 .. n, Increasing(q, low, high), low <= high, high < e
    PROVE  Increasing(Append(q, e), low, e)
  <1>1. /\ Len(q) \in Nat /\ Len(Append(q, e)) = Len(q) + 1
        /\ \A k \in 1 .. Len(q) : Append(q, e)[k] = q[k] /\ q[k] \in 1 .. n
        /\ Append(q, e)[Len(q) + 1] = e
    BY AppendProperties
  <1> QED
    BY <1>1, SMTT(30) DEF Increasing

LEMMA IncreasingTail ==
    ASSUME NEW n \in Nat, NEW q \in Seq(1 .. n), NEW low \in Nat, NEW high \in Nat,
           Increasing(q, low, high), q # <<>>
    PROVE  /\ low < Head(q) /\ Head(q) <= high
           /\ Increasing(Tail(q), Head(q), high) /\ Increasing(Tail(q), low, high)
  <1>1. /\ Len(q) \in Nat \ {0} /\ Len(Tail(q)) = Len(q) - 1
        /\ \A k \in 1 .. Len(Tail(q)) : Tail(q)[k] = q[k + 1]
        /\ Head(q) = q[1] /\ \A k \in 1 .. Len(q) : q[k] \in 1 .. n
    BY HeadTailProperties, EmptySeq
  <1> QED
    BY <1>1 DEF Increasing

LEMMA IncreasingOn ==
    ASSUME NEW n \in Nat, NEW q \in Seq(1 .. n), NEW low \in Nat, NEW high \in Nat,
           Increasing(q, low, high)
    PROVE  Increasing(q, low, high + 1)
  <1>1. Len(q) \in Nat /\ \A k \in 1 .. Len(q) : q[k] \in 1 .. n
    OBVIOUS
  <1> QED
    BY <1>1 DEF Increasing

LEMMA InitOrder == Init => Order
  BY NothingIncreases DEF Init, Order

LEMMA ReceiveOrder ==
    ASSUME TypeInv, Order, Receive
    PROVE  Order'
  <1> USE DEF Receive, vmVars, events, links, txQueues, txHistory, mutexes
  <1>1. /\ nrx \in 0 .. MaxRx /\ nrx' \in 1 .. MaxRx /\ nrx' = nrx + 1
        /\ entered \in 0 .. MaxRx /\ rx_on_tx \in Seq(1 .. MaxRx)
    BY Sizes, SMTT(30) DEF TypeInv, Counts, RxType
  <1>2. /\ host' = host /\ host \in {"stack", "send"}
        /\ pkt = 0
        /\ entered' = entered /\ accepted' = accepted /\ ntx' = ntx
    BY DEF Order
  <1>3. Increasing(rx_on_tx, entered, nrx')
    BY <1>1, IncreasingOn, Sizes DEF Order
  <1>4. CASE rx_on_tx' = rx_on_tx /\ recv_on_tx' = recv_on_tx /\ pkt' \in {0, nrx'} /\ (pkt' # 0 => host = "stack")
    BY <1>1, <1>2, <1>3, <1>4, Sizes DEF Order
  <1>5. CASE /\ host = "send" /\ recv_on_tx' /\ pkt' = pkt
             /\ rx_on_tx' = IF Full(rx_on_tx) THEN rx_on_tx ELSE Append(rx_on_tx, nrx')
    <2>1. Increasing(Append(rx_on_tx, nrx'), entered, nrx')
      BY <1>1, IncreasingAppend, Sizes DEF Order
    <2>2. Increasing(rx_on_tx', entered', nrx')
      BY <1>2, <1>3, <1>5, <2>1
    <2> QED
      BY <1>1, <1>2, <1>5, <2>2, Sizes DEF Order
  <1> QED
    BY <1>2, <1>4, <1>5

LEMMA PutOrder ==
    ASSUME TypeInv, Order, Put
    PROVE  Order'
  <1>1. rx_on_tx = <<>> /\ host' = "stack" /\ pkt' = 0
    BY DEF Put, Order
  <1>2. entered' \in {entered, pkt} /\ pkt <= nrx /\ nrx' = nrx
    BY DEF Put, PutRx, Order, TypeInv, HostType
  <1>3. rx_on_tx' = <<>> /\ accepted' = accepted /\ ntx' = ntx
    BY <1>1 DEF Put, txHistory
  <1> QED
    BY <1>1, <1>2, <1>3, NothingIncreases DEF Order

LEMMA PutAgainOrder ==
    ASSUME TypeInv, Order, PutAgain
    PROVE  Order'
  <1> USE DEF PutAgain, PutRx, txHistory
  <1>1. pkt_v \in Seq(1 .. MaxRx) /\ pkt_v # <<>> /\ entered \in 0 .. MaxRx /\ nrx \in 0 .. MaxRx
    BY DEF TypeInv, BatchType, Counts
  <1>2. /\ entered < Head(pkt_v) /\ Head(pkt_v) <= nrx
        /\ Increasing(Tail(pkt_v), Head(pkt_v), nrx) /\ Increasing(Tail(pkt_v), entered, nrx)
    BY <1>1, IncreasingTail, Sizes DEF Order
  <1>3. rx_on_tx = <<>> /\ pkt = 0
    BY DEF Order
  <1>4. /\ host' = "requeue" /\ nrx' = nrx /\ rx_on_tx' = <<>> /\ pkt' = 0
        /\ pkt_v' = Tail(pkt_v) /\ entered' \in {entered, Head(pkt_v)}
        /\ accepted' = accepted /\ ntx' = ntx
    BY <1>3
  <1> QED
    BY <1>2, <1>4, NothingIncreases DEF Order

LEMMA DeferOrder ==
    ASSUME TypeInv, Order, Defer
    PROVE  Order'
  <1> USE DEF Defer, rxHistory, txHistory
  <1>1. pkt = 0 /\ pkt' = 0 /\ nrx' = nrx /\ entered' = entered /\ accepted' = accepted /\ ntx' = ntx
    BY DEF Order
  <1>2. rx_on_tx' = <<>>
    BY DEF Order
  <1>3. host' \in {"requeue", "again"} => Increasing(pkt_v', entered', nrx')
    BY <1>1 DEF Order
  <1> QED
    BY <1>1, <1>2, <1>3, NothingIncreases DEF Order

LEMMA OrderKept ==
    ASSUME TypeInv, Order, [Next]_vars
    PROVE  Order'
  <1>1. CASE NetworkTx
    BY <1>1, Sizes DEF NetworkTx, Order, TypeInv, Counts, hostVars, rxQueues, rxHistory
  <1>2. CASE Timer \/ Retry \/ LockRx \/ LockTx \/ Move \/ Moved \/ Notify \/ Close \/ CardBusy
    BY <1>2 DEF Timer, Retry, LockRx, LockTx, Move, Moved, Notify, Close, CardBusy, Order,
       hostVars, rxQueues, rxHistory, txHistory
  <1>3. CASE Get \/ CardTakes
    BY <1>3 DEF Get, CardTakes, Order, hostVars, rxHistory, txHistory
  <1>4. CASE Joined
    BY <1>4, NothingIncreases DEF Joined, Order, hostVars, rxHistory, txHistory
  <1>5. CASE Plug
    BY <1>5 DEF Plug, Order, hostVars, rxQueues, rxHistory, txHistory
  <1>6. CASE Poll \/ LockRxForPut \/ Serve \/ LockTxForPop \/ Pop \/ Check \/ Send
    BY <1>6 DEF Poll, LockRxForPut, Serve, LockTxForPop, Pop, Check, Send, Order,
       rxQueues, rxHistory, txHistory
  <1>7. CASE LockRxAgain
    BY <1>7 DEF LockRxAgain, Order, rxQueues, rxHistory, txHistory
  <1>8. CASE UNCHANGED vars
    BY <1>8 DEF vars, Order, hostVars, rxQueues, rxHistory, txHistory
  <1> QED
    BY <1>1, <1>2, <1>3, <1>4, <1>5, <1>6, <1>7, <1>8, ReceiveOrder, PutOrder,
       PutAgainOrder, DeferOrder, Zenon DEF Next, VM, Host

-----------------------------------------------------------------------------
(* The pipes.                                                              *)

LEMMA LeaveFirst ==
    ASSUME NEW S, NEW s \in Seq(S), NEW t \in Seq(S), s # <<>>
    PROVE  /\ s \o t # <<>> /\ Head(s \o t) = Head(s) /\ Tail(s \o t) = Tail(s) \o t
  <1>1. /\ Len(s) \in Nat \ {0} /\ Len(t) \in Nat
        /\ s \o t \in Seq(S) /\ Len(s \o t) = Len(s) + Len(t)
        /\ \A k \in 1 .. Len(s) + Len(t) :
              (s \o t)[k] = IF k <= Len(s) THEN s[k] ELSE t[k - Len(s)]
    BY ConcatProperties, EmptySeq
  <1>2. s \o t # <<>>
    BY <1>1
  <1>3. /\ Tail(s) \in Seq(S) /\ Len(Tail(s)) = Len(s) - 1
        /\ \A k \in 1 .. Len(Tail(s)) : Tail(s)[k] = s[k + 1]
    BY HeadTailProperties
  <1>4. /\ Tail(s \o t) \in Seq(S) /\ Len(Tail(s \o t)) = Len(s \o t) - 1
        /\ \A k \in 1 .. Len(Tail(s \o t)) : Tail(s \o t)[k] = (s \o t)[k + 1]
    BY <1>1, <1>2, HeadTailProperties
  <1>5. /\ Tail(s) \o t \in Seq(S) /\ Len(Tail(s) \o t) = Len(Tail(s)) + Len(t)
        /\ \A k \in 1 .. Len(Tail(s)) + Len(t) :
              (Tail(s) \o t)[k] = IF k <= Len(Tail(s)) THEN Tail(s)[k] ELSE t[k - Len(Tail(s))]
    BY <1>3, ConcatProperties
  <1>6. Len(Tail(s \o t)) = Len(Tail(s) \o t)
    BY <1>1, <1>3, <1>4, <1>5
  <1>7. ASSUME NEW k \in 1 .. Len(Tail(s \o t))
        PROVE  Tail(s \o t)[k] = (Tail(s) \o t)[k]
    BY <1>1, <1>3, <1>4, <1>5
  <1>8. Tail(s \o t) = Tail(s) \o t
    BY <1>4, <1>5, <1>6, <1>7, SeqEqual
  <1>9. Head(s \o t) = Head(s)
    BY <1>1, <1>2
  <1> QED
    BY <1>2, <1>8, <1>9

LEMMA AppendLast ==
    ASSUME NEW S, NEW s \in Seq(S), NEW t \in Seq(S), NEW e \in S
    PROVE  s \o Append(t, e) = Append(s \o t, e)
  <1>1. /\ <<e>> \in Seq(S) /\ Append(t, e) = t \o <<e>> /\ s \o t \in Seq(S)
    BY AppendIsConcat, ConcatProperties
  <1>2. Append(s \o t, e) = (s \o t) \o <<e>>
    BY <1>1, AppendIsConcat
  <1> QED
    BY <1>1, <1>2, ConcatAssociative

LEMMA MoveFirst ==
    ASSUME NEW S, NEW s \in Seq(S), NEW t \in Seq(S), t # <<>>
    PROVE  Append(s, Head(t)) \o Tail(t) = s \o t
  <1>1. Head(t) \in S /\ Tail(t) \in Seq(S) /\ <<Head(t)>> \in Seq(S)
    BY HeadTailProperties
  <1>2. Append(s, Head(t)) = s \o <<Head(t)>>
    BY <1>1, AppendIsConcat
  <1>3. <<Head(t)>> \o Tail(t) = t
    <2>1. Len(t) \in Nat \ {0} /\ 1 \in 1 .. Len(t) /\ Len(t) \in 1 .. Len(t)
      BY EmptySeq
    <2>2. SubSeq(t, 1, Len(t)) = <<t[1]>> \o SubSeq(t, 1 + 1, Len(t))
      BY <2>1, SubSeqRecursiveFirst
    <2>3. SubSeq(t, 1, Len(t)) = t /\ Tail(t) = SubSeq(t, 2, Len(t)) /\ Head(t) = t[1]
      BY SubSeqFull, TailIsSubSeq
    <2> QED
      BY <2>2, <2>3
  <1> QED
    BY <1>1, <1>2, <1>3, ConcatAssociative

LEMMA DropFirst ==
    ASSUME NEW S, NEW s \in Seq(S), NEW t \in Seq(S)
    PROVE  SubSeq(s \o t, Len(s) + 1, Len(s \o t)) = t
  <1>1. Len(s) \in Nat /\ Len(t) \in Nat /\ Len(s \o t) = Len(s) + Len(t) /\ s \o t \in Seq(S)
    BY ConcatProperties
  <1>2. CASE Len(t) = 0
    <2>1. t = <<>>
      BY <1>2, EmptySeq
    <2> QED
      BY <1>1, <1>2, <2>1, SubSeqEmpty
  <1>3. CASE Len(t) # 0
    <2>1. SubSeq(s \o t, Len(s) + 1, Len(s) + Len(t))
            = SubSeq(t, Len(s) + 1 - Len(s), Len(s) + Len(t) - Len(s))
      BY <1>1, <1>3, SubSeqOfConcat2
    <2>2. Len(s) + 1 - Len(s) = 1 /\ Len(s) + Len(t) - Len(s) = Len(t)
      BY <1>1
    <2> QED
      BY <1>1, <2>1, <2>2, SubSeqFull
  <1> QED
    BY <1>2, <1>3

\* What the guest sends.
LEMMA OutgoingType ==
    ASSUME TypeInv
    PROVE  /\ Batch \in Seq(1 .. MaxTx) /\ Len(Batch) < QueueLen
           /\ tx_host \in Seq(1 .. MaxTx) /\ Len(tx_host) < QueueLen
           /\ tx_vm \in Seq(1 .. MaxTx) /\ Len(tx_vm) < QueueLen
           /\ Batch \o tx_host \in Seq(1 .. MaxTx) /\ Outgoing \in Seq(1 .. MaxTx)
           /\ Len(Outgoing) = Len(Batch) + Len(tx_host) + Len(tx_vm)
  <1>1. Batch \in Seq(1 .. MaxTx) /\ Len(Batch) < QueueLen
    BY Empties DEF TypeInv, BatchType, Batch
  <1>2. /\ tx_host \in Seq(1 .. MaxTx) /\ Len(tx_host) < QueueLen
        /\ tx_vm \in Seq(1 .. MaxTx) /\ Len(tx_vm) < QueueLen
    BY DEF TypeInv, TxType
  <1>3. Batch \o tx_host \in Seq(1 .. MaxTx) /\ Len(Batch \o tx_host) = Len(Batch) + Len(tx_host)
    BY <1>1, <1>2, ConcatProperties
  <1>4. Outgoing \in Seq(1 .. MaxTx) /\ Len(Outgoing) = Len(Batch \o tx_host) + Len(tx_vm)
    BY <1>2, <1>3, ConcatProperties DEF Outgoing
  <1> QED
    BY <1>1, <1>2, <1>3, <1>4

TxStutter == Outgoing' = Outgoing /\ accepted' = accepted /\ sent' = sent

LEMMA TxTake ==
    ASSUME TypeInv, Order, NetworkTx
    PROVE  TxPipe!Take \/ TxStutter
  <1> USE DEF NetworkTx, hostVars
  <1>1. Batch' = Batch /\ tx_host' = tx_host /\ sent' = sent
    BY DEF Batch
  <1>2. CASE Full(tx_vm)
    BY <1>1, <1>2 DEF TxStutter, Outgoing
  <1>3. CASE ~Full(tx_vm)
    <2>1. ntx' \in 1 .. MaxTx /\ ntx' > accepted /\ accepted' = ntx'
      BY <1>3, Sizes DEF TypeInv, Counts, Order
    <2>2. Outgoing' = Append(Outgoing, ntx')
      <3>1. (Batch \o tx_host) \o Append(tx_vm, ntx') = Append((Batch \o tx_host) \o tx_vm, ntx')
        BY <2>1, AppendLast, OutgoingType, SMTT(30)
      <3>2. Outgoing' = (Batch \o tx_host) \o Append(tx_vm, ntx')
        BY <1>1, <1>3 DEF Outgoing
      <3> QED
        BY <3>1, <3>2 DEF Outgoing
    <2>3. Len(Outgoing) < 2 * (QueueLen - 1) + QueueLen
      <3>1. Len(tx_vm) \in Nat /\ Len(tx_host) \in Nat /\ Len(Batch) \in Nat
        BY OutgoingType
      <3> QED
        BY <3>1, OutgoingType, Sizes
    <2> QED
      BY <1>1, <2>1, <2>2, <2>3 DEF TxPipe!Take
  <1> QED
    BY <1>2, <1>3

LEMMA TxMove ==
    ASSUME TypeInv, Move
    PROVE  TxStutter
  <1> USE DEF Move, hostVars, txHistory
  <1>1. Batch' = Batch /\ accepted' = accepted /\ sent' = sent
    BY DEF Batch
  <1>2. Batch \o Append(tx_host, Head(tx_vm)) = Append(Batch \o tx_host, Head(tx_vm))
    <2>1. Head(tx_vm) \in 1 .. MaxTx
      BY OutgoingType, HeadTailProperties
    <2> QED
      BY <2>1, OutgoingType, AppendLast, SMTT(30)
  <1>3. Append(Batch \o tx_host, Head(tx_vm)) \o Tail(tx_vm) = Outgoing
    BY OutgoingType, MoveFirst DEF Outgoing
  <1>4. Outgoing' = (Batch \o Append(tx_host, Head(tx_vm))) \o Tail(tx_vm)
    BY <1>1 DEF Outgoing
  <1> QED
    BY <1>1, <1>2, <1>3, <1>4 DEF TxStutter

LEMMA TxPop ==
    ASSUME TypeInv, Pop
    PROVE  TxStutter
  <1>1. Batch = <<>> /\ Batch' = tx_host /\ tx_host' = <<>> /\ tx_vm' = tx_vm
    BY DEF Pop, Batch
  <1>2. /\ Outgoing = (<<>> \o tx_host) \o tx_vm
        /\ Outgoing' = (tx_host \o <<>>) \o tx_vm
    BY <1>1 DEF Outgoing
  <1>3. <<>> \o tx_host = tx_host /\ tx_host \o <<>> = tx_host
    BY OutgoingType, ConcatEmptySeq
  <1>4. accepted' = accepted /\ sent' = sent
    BY DEF Pop, txHistory
  <1> QED
    BY <1>2, <1>3, <1>4 DEF TxStutter

\* A link that is down costs the batch, closing the card what it holds.
LEMMA TxDrop ==
    ASSUME TypeInv, Check \/ Joined
    PROVE  TxPipe!Drop \/ TxStutter
  <1>1. accepted' = accepted /\ sent' = sent
    BY DEF Check, Joined, txHistory
  <1>2. CASE Check /\ link
    BY <1>1, <1>2 DEF Check, Batch, Outgoing, TxStutter, txQueues
  <1>3. CASE Check /\ ~link
    <2>1. Batch = pkt_v /\ Batch' = <<>> /\ tx_host' = tx_host /\ tx_vm' = tx_vm
      BY <1>3 DEF Check, Batch, txQueues
    <2>2. Outgoing = pkt_v \o (tx_host \o tx_vm) /\ Outgoing' = tx_host \o tx_vm
      <3>1. Outgoing' = (<<>> \o tx_host) \o tx_vm
        BY <2>1 DEF Outgoing
      <3>2. <<>> \o tx_host = tx_host
        BY OutgoingType, ConcatEmptySeq
      <3>3. Outgoing = pkt_v \o (tx_host \o tx_vm)
        BY <2>1, OutgoingType, ConcatAssociative DEF Outgoing
      <3> QED
        BY <3>1, <3>2, <3>3
    <2>3. /\ tx_host \o tx_vm \in Seq(1 .. MaxTx) /\ pkt_v \in Seq(1 .. MaxTx)
          /\ Len(pkt_v) \in Nat /\ Len(pkt_v) <= Len(Outgoing) /\ Len(Outgoing) \in Nat
      <3>1. tx_host \o tx_vm \in Seq(1 .. MaxTx)
        BY OutgoingType, ConcatProperties
      <3>2. Len(tx_host) \in Nat /\ Len(tx_vm) \in Nat /\ Len(pkt_v) \in Nat
        BY <2>1, OutgoingType
      <3> QED
        BY <2>1, <3>1, <3>2, OutgoingType
    <2>4. SubSeq(Outgoing, Len(pkt_v) + 1, Len(Outgoing)) = Outgoing'
      BY <2>2, <2>3, DropFirst
    <2>5. CASE pkt_v = <<>>
      BY <1>1, <2>1, <2>5 DEF TxStutter, Outgoing
    <2>6. CASE pkt_v # <<>>
      <3>1. Len(pkt_v) \in 1 .. Len(Outgoing)
        BY <2>3, <2>6, EmptySeq
      <3> QED
        BY <1>1, <1>3, <2>4, <3>1 DEF TxPipe!Drop
    <2> QED
      BY <2>5, <2>6
  <1>4. CASE Joined
    <2>1. Batch' = <<>> /\ tx_host' = <<>> /\ tx_vm' = <<>> /\ vm = "closing"
      BY <1>4 DEF Joined, Batch, hostVars
    <2>2. Outgoing' = <<>>
      BY <2>1, ConcatEmptySeq, Empties DEF Outgoing
    <2>3. CASE Outgoing = <<>>
      BY <1>1, <2>2, <2>3 DEF TxStutter
    <2>4. CASE Outgoing # <<>>
      <3>1. Len(Outgoing) \in Nat \ {0}
        BY <2>4, OutgoingType, EmptySeq
      <3>2. SubSeq(Outgoing, Len(Outgoing) + 1, Len(Outgoing)) = <<>> /\ Len(Outgoing) \in 1 .. Len(Outgoing)
        BY <3>1, SubSeqEmpty
      <3> QED
        BY <1>1, <2>1, <2>2, <3>2 DEF TxPipe!Drop
    <2> QED
      BY <2>3, <2>4
  <1> QED
    BY <1>2, <1>3, <1>4

LEMMA TxLeave ==
    ASSUME TypeInv, Send
    PROVE  TxPipe!Leave \/ TxStutter
  <1> USE DEF Send, txQueues
  <1>1. Batch = pkt_v /\ tx_host' = tx_host /\ tx_vm' = tx_vm /\ accepted' = accepted
    BY DEF Batch
  <1>2. CASE pkt_v = <<>>
    <2>1. Batch' = Batch /\ sent' = sent
      BY <1>2 DEF Batch
    <2> QED
      BY <1>1, <2>1 DEF TxStutter, Outgoing
  <1>3. CASE pkt_v # <<>>
    <2>1. Batch' = Tail(pkt_v) /\ sent' = Head(pkt_v)
      BY <1>3 DEF Batch
    <2>2. /\ pkt_v \o tx_host # <<>>
          /\ Head(pkt_v \o tx_host) = Head(pkt_v) /\ Tail(pkt_v \o tx_host) = Tail(pkt_v) \o tx_host
      BY <1>1, <1>3, OutgoingType, LeaveFirst, SMTT(30)
    <2>3. Outgoing = (pkt_v \o tx_host) \o tx_vm /\ pkt_v \o tx_host \in Seq(1 .. MaxTx)
      BY <1>1, OutgoingType DEF Outgoing
    <2>4. /\ Outgoing # <<>> /\ Head(Outgoing) = Head(pkt_v)
          /\ Tail(Outgoing) = (Tail(pkt_v) \o tx_host) \o tx_vm
      <3>1. /\ (pkt_v \o tx_host) \o tx_vm # <<>>
            /\ Head((pkt_v \o tx_host) \o tx_vm) = Head(pkt_v \o tx_host)
            /\ Tail((pkt_v \o tx_host) \o tx_vm) = Tail(pkt_v \o tx_host) \o tx_vm
        BY <2>2, <2>3, OutgoingType, LeaveFirst, SMTT(30)
      <3> HIDE DEF Send
      <3> QED
        BY <2>2, <2>3, <3>1
    <2>5. Outgoing' = (Tail(pkt_v) \o tx_host) \o tx_vm
      BY <1>1, <2>1 DEF Outgoing
    <2> QED
      BY <1>1, <2>1, <2>4, <2>5 DEF TxPipe!Leave
  <1> QED
    BY <1>2, <1>3

LEMMA TxStep ==
    ASSUME TypeInv, Order, [Next]_vars
    PROVE  [TxPipe!Next]_(TxPipe!vars)
  <1> USE DEF hostVars, txQueues, txHistory
  <1>5. SUFFICES TxPipe!Take \/ TxPipe!Leave \/ TxPipe!Drop \/ TxStutter
    BY DEF TxStutter, TxPipe!vars, TxPipe!Next
  <1>1. Batch' = Batch /\ UNCHANGED <<txQueues, accepted, sent>> => TxStutter
    BY DEF TxStutter, Outgoing
  <1>2. CASE Timer \/ Retry \/ LockRx \/ Get \/ CardTakes \/ CardBusy \/ LockTx \/ Moved
              \/ Notify \/ Close \/ Plug
    <2>1. UNCHANGED <<hostVars, txQueues, accepted, sent>>
      BY <1>2 DEF Timer, Retry, LockRx, Get, CardTakes, CardBusy, LockTx, Moved, Notify, Close, Plug
    <2> QED
      BY <1>1, <2>1 DEF Batch
  <1>3. CASE Poll \/ Receive \/ LockRxForPut \/ Put \/ Serve \/ LockTxForPop \/ Defer
              \/ LockRxAgain \/ PutAgain
    <2>1. UNCHANGED <<txQueues, accepted, sent>>
      BY <1>3 DEF Poll, Receive, LockRxForPut, Put, Serve, LockTxForPop, Defer, LockRxAgain, PutAgain
    <2>2. \/ host' = host /\ pkt_v' = pkt_v
          \/ host \notin {"check", "send"} /\ host' \notin {"check", "send"}
      BY <1>3 DEF Poll, Receive, LockRxForPut, Put, Serve, LockTxForPop, Defer, LockRxAgain, PutAgain
    <2>3. Batch' = Batch
      BY <2>2 DEF Batch
    <2> QED
      BY <1>1, <2>1, <2>3
  <1>4. CASE UNCHANGED vars
    BY <1>1, <1>4 DEF vars, Batch
  <1> QED
    BY <1>2, <1>3, <1>4, TxTake, TxMove, TxPop, TxDrop, TxLeave, Zenon DEF Next, VM, Host

\* What the card receives.
Offered == IF queued_pkt = 0 THEN <<>> ELSE <<queued_pkt>>

LEMMA IncomingType ==
    ASSUME TypeInv
    PROVE  /\ Offered \in Seq(1 .. MaxRx) /\ Len(Offered) \in {0, 1}
           /\ rx \in Seq(1 .. MaxRx) /\ Len(rx) < QueueLen
           /\ Incoming = Offered \o rx /\ Incoming \in Seq(1 .. MaxRx)
           /\ Len(Incoming) = Len(Offered) + Len(rx)
  <1>1. rx \in Seq(1 .. MaxRx) /\ Len(rx) < QueueLen
    BY DEF TypeInv, RxType
  <1>2. Offered \in Seq(1 .. MaxRx) /\ Len(Offered) \in {0, 1}
    <2>1. CASE queued_pkt = 0
      BY <2>1, Empties DEF Offered
    <2>2. CASE queued_pkt # 0
      <3>1. queued_pkt \in 1 .. MaxRx
        BY <2>2, Sizes DEF TypeInv, VmType
      <3> QED
        BY <2>2, <3>1 DEF Offered
    <2> QED
      BY <2>1, <2>2
  <1>3. Incoming = Offered \o rx
    BY DEF Incoming, Offered
  <1> QED
    BY <1>1, <1>2, <1>3, ConcatProperties

RxStutter == Incoming' = Incoming /\ entered' = entered /\ got' = got

\* What the queue takes comes after all it took before.
LEMMA RxTakes ==
    ASSUME TypeInv, NEW p \in 1 .. MaxRx, p > entered, PutRx(p),
           got' = got, queued_pkt' = queued_pkt
    PROVE  RxPipe!Take \/ RxStutter
  <1>1. CASE Full(rx)
    BY <1>1 DEF PutRx, RxStutter, Incoming
  <1>2. CASE ~Full(rx)
    <2>1. rx' = Append(rx, p) /\ entered' = p
      BY <1>2 DEF PutRx
    <2>2. Offered \o Append(rx, p) = Append(Offered \o rx, p)
      BY IncomingType, AppendLast
    <2>3. Incoming' = Offered \o Append(rx, p)
      BY <2>1 DEF Incoming, Offered
    <2>4. Len(Incoming) < QueueLen
      <3>1. Len(rx) \in Nat /\ Len(rx) # QueueLen - 1 /\ Len(rx) < QueueLen
        BY <1>2, IncomingType DEF Full
      <3>2. Len(Offered) \in {0, 1} /\ Len(Incoming) = Len(Offered) + Len(rx)
        BY IncomingType
      <3>3. \A a \in {0, 1}, b, c \in Nat : b # c - 1 /\ b < c => a + b < c
        OBVIOUS
      <3> QED
        BY <3>1, <3>2, <3>3, Sizes, Zenon
    <2>5. Incoming' = Append(Incoming, p)
      BY <2>2, <2>3, IncomingType
    <2> QED
      BY <2>1, <2>4, <2>5 DEF RxPipe!Take
  <1> QED
    BY <1>1, <1>2

LEMMA RxTake ==
    ASSUME TypeInv, Order, Put \/ PutAgain
    PROVE  RxPipe!Take \/ RxStutter
  <1>1. CASE Put
    <2>1. pkt \in 1 .. MaxRx /\ pkt > entered
      BY <1>1, Sizes DEF Put, TypeInv, HostType, Order
    <2>2. PutRx(pkt) /\ got' = got /\ queued_pkt' = queued_pkt
      BY <1>1 DEF Put
    <2> QED
      BY <2>1, <2>2, RxTakes
  <1>2. CASE PutAgain
    <2>1. pkt_v \in Seq(1 .. MaxRx) /\ pkt_v # <<>> /\ entered \in 0 .. MaxRx /\ nrx \in 0 .. MaxRx
      BY <1>2 DEF PutAgain, TypeInv, BatchType, Counts
    <2>2. Increasing(pkt_v, entered, nrx)
      BY <1>2 DEF PutAgain, Order
    <2>3. Head(pkt_v) \in 1 .. MaxRx
      BY <2>1, HeadTailProperties
    <2>4. Head(pkt_v) > entered
      BY <2>1, <2>2, <2>3, IncreasingTail, Sizes
    <2>5. PutRx(Head(pkt_v)) /\ got' = got /\ queued_pkt' = queued_pkt
      BY <1>2 DEF PutAgain
    <2> QED
      BY <2>3, <2>4, <2>5, RxTakes
  <1> QED
    BY <1>1, <1>2

\* From the queue to the card's doorstep.
LEMMA RxGet ==
    ASSUME TypeInv, Get
    PROVE  RxStutter
  <1>1. queued_pkt = 0 /\ Incoming = <<>> \o rx /\ entered' = entered /\ got' = got
    BY DEF Get, TypeInv, VmType, Incoming, rxHistory
  <1>2. CASE rx = <<>>
    BY <1>1, <1>2 DEF Get, RxStutter, Incoming
  <1>3. CASE rx # <<>>
    <2>1. /\ queued_pkt' = Head(rx) /\ rx' = Tail(rx) /\ Head(rx) \in 1 .. MaxRx
      BY <1>3, IncomingType, HeadTailProperties DEF Get
    <2>2. Incoming' = <<Head(rx)>> \o Tail(rx)
      <3>1. queued_pkt' # 0
        BY <2>1, Sizes
      <3> QED
        BY <2>1, <3>1 DEF Incoming
    <2>3. Append(<<>>, Head(rx)) \o Tail(rx) = <<>> \o rx
      BY <1>3, IncomingType, MoveFirst, Empties
    <2>4. Append(<<>>, Head(rx)) = <<Head(rx)>>
      OBVIOUS
    <2> QED
      BY <1>1, <2>2, <2>3, <2>4 DEF RxStutter
  <1> QED
    BY <1>2, <1>3

LEMMA RxLeave ==
    ASSUME TypeInv, CardTakes
    PROVE  RxPipe!Leave
  <1>1. queued_pkt # 0 /\ Offered = <<queued_pkt>> /\ Offered # <<>>
    BY DEF CardTakes, TypeInv, VmType, Offered
  <1>2. Head(Offered) = queued_pkt /\ Tail(Offered) = <<>>
    BY <1>1
  <1>3. Incoming # <<>> /\ Head(Incoming) = queued_pkt /\ Tail(Incoming) = <<>> \o rx
    BY <1>1, <1>2, IncomingType, LeaveFirst
  <1>4. Incoming' = <<>> \o rx /\ got' = queued_pkt /\ entered' = entered
    BY DEF CardTakes, Incoming
  <1> QED
    BY <1>3, <1>4 DEF RxPipe!Leave

LEMMA RxDrop ==
    ASSUME TypeInv, Joined
    PROVE  RxPipe!Drop \/ RxStutter
  <1>1. /\ entered' = entered /\ got' = got /\ vm = "closing"
        /\ queued_pkt' = 0 /\ rx' = <<>>
    BY DEF Joined, rxHistory
  <1>2. Incoming' = <<>>
    BY <1>1, ConcatEmptySeq, Empties DEF Incoming
  <1>3. CASE Incoming = <<>>
    BY <1>1, <1>2, <1>3 DEF RxStutter
  <1>4. CASE Incoming # <<>>
    <2>1. Len(Incoming) \in Nat \ {0}
      BY <1>4, IncomingType, EmptySeq
    <2>2. /\ SubSeq(Incoming, Len(Incoming) + 1, Len(Incoming)) = <<>>
          /\ Len(Incoming) \in 1 .. Len(Incoming)
      BY <2>1, SubSeqEmpty
    <2> QED
      BY <1>1, <1>2, <2>2 DEF RxPipe!Drop
  <1> QED
    BY <1>3, <1>4

LEMMA RxStep ==
    ASSUME TypeInv, Order, [Next]_vars
    PROVE  [RxPipe!Next]_(RxPipe!vars)
  <1> SUFFICES RxPipe!Take \/ RxPipe!Leave \/ RxPipe!Drop \/ RxStutter
    BY DEF RxStutter, RxPipe!vars, RxPipe!Next
  <1>1. UNCHANGED <<rx, queued_pkt, entered, got>> => RxStutter
    BY DEF RxStutter, Incoming
  <1>2. CASE NetworkTx \/ Timer \/ Retry \/ LockRx \/ CardBusy \/ LockTx \/ Move \/ Moved
              \/ Notify \/ Close \/ Plug
    BY <1>1, <1>2 DEF NetworkTx, Timer, Retry, LockRx, CardBusy, LockTx, Move, Moved, Notify,
       Close, Plug, rxQueues, rxHistory
  <1>3. CASE Poll \/ Receive \/ LockRxForPut \/ Serve \/ LockTxForPop \/ Pop \/ Check \/ Send
              \/ Defer \/ LockRxAgain
    BY <1>1, <1>3 DEF Poll, Receive, LockRxForPut, Serve, LockTxForPop, Pop, Check, Send,
       Defer, LockRxAgain, rxQueues, rxHistory
  <1>4. CASE UNCHANGED vars
    BY <1>1, <1>4 DEF vars, rxQueues, rxHistory
  <1> QED
    BY <1>2, <1>3, <1>4, RxTake, RxGet, RxLeave, RxDrop, Zenon DEF Next, VM, Host

-----------------------------------------------------------------------------
(* The theorems.                                                           *)

\* The types, the mutexes, the wake-up and the order of packets are kept by
\* every step of both threads, the user and the stack.
IInv == TypeInv /\ NoLostWakeup /\ Order
THEOREM InvHolds == Spec => []IInv
  <1>1. Init => IInv
    <2>1. Init => NoLostWakeup
      BY DEF Init, NoLostWakeup
    <2> QED
      BY <2>1, InitType, InitOrder, Zenon DEF IInv
  <1>2. IInv /\ [Next]_vars => IInv'
    BY TypeKept, WakeupKept, OrderKept, Zenon DEF IInv
  <1> QED
    BY <1>1, <1>2, PTL DEF Spec

\* The queues of a card keep their bounds, and each thread its place.
THEOREM TypeSafe == Spec => []TypeOK
  <1>1. IInv => TypeOK
    BY Unpacked DEF IInv
  <1> QED
    BY <1>1, InvHolds, PTL

\* Whatever the lengths and the packets, the two threads are never in the
\* middle of one queue at a time.
THEOREM ExclusiveSafe == Spec => []Exclusive
  <1>1. IInv => Exclusive
    BY DEF IInv, TypeInv, Locks, Exclusive
  <1> QED
    BY <1>1, InvHolds, PTL

\* The driver's thread does not sleep on packets that wait for it, however
\* few bytes the pipe of the event holds.
THEOREM WakeupSafe == Spec => []NoLostWakeup
  <1>1. IInv => NoLostWakeup
    BY DEF IInv
  <1> QED
    BY <1>1, InvHolds, PTL

\* The way out implements a pipe: what network_tx accepts goes out once and in
\* order, or is lost to a link that is down or a card that is closed.
THEOREM TxImplementsPipe == Spec => TxIsPipe
  <1>1. Init => TxPipe!Init
    <2>1. <<>> \o <<>> = <<>>
      BY ConcatEmptySeq, Empties
    <2> QED
      BY <2>1 DEF Init, TxPipe!Init, Outgoing, Batch
  <1>2. IInv /\ [Next]_vars => [TxPipe!Next]_(TxPipe!vars)
    BY TxStep DEF IInv
  <1> QED
    BY <1>1, <1>2, InvHolds, PTL DEF Spec, TxIsPipe, TxPipe!Spec

\* The way in implements a pipe: what network_rx_put_pkt accepts reaches the
\* card once and in order, though the card refuses it and the stack defers.
THEOREM RxImplementsPipe == Spec => RxIsPipe
  <1>1. Init => RxPipe!Init
    <2>1. <<>> \o <<>> = <<>>
      BY ConcatEmptySeq, Empties
    <2> QED
      BY <2>1 DEF Init, RxPipe!Init, Incoming
  <1>2. IInv /\ [Next]_vars => [RxPipe!Next]_(RxPipe!vars)
    BY RxStep DEF IInv
  <1> QED
    BY <1>1, <1>2, InvHolds, PTL DEF Spec, RxIsPipe, RxPipe!Spec
=============================================================================
