---------------------------- MODULE FunLinkProof -----------------------------
(***************************************************************************)
(* What holds of the fun.link bus for every number of cabinets, peers and  *)
(* connections, and what holds while no cabinet has more than two peers.   *)
(***************************************************************************)
EXTENDS FunLink, FiniteSetTheorems, FunctionTheorems, SequenceTheorems,
        Induction, TLAPS

-----------------------------------------------------------------------------
(* The invariant.                                                          *)

Tab(c) == SeqMembers(peer[c])
Injective(s) == \A i, j \in DOMAIN s : s[i] = s[j] => i = j
Calling(c) == state[c] \in {"CONNECTING", "CLIENT"}

\* The peers of a listener are accepted connections, those of the others the
\* one they have dialled.
Served(r, c) == r.srv = c /\ r.s \notin Shut
PeersMatchState ==
    \A c \in Cabinet :
      /\ state[c] = "LISTENING" => \A k \in Tab(c) : Served(net[k], c)
      /\ Calling(c) => \A k \in Tab(c) : IsClient(net[k], c)
      /\ state[c] = "IDLE" => peer[c] = <<>>
      /\ state[c] = "CONNECTING" => Len(peer[c]) = 1
      /\ state[c] = "CLIENT" => Len(peer[c]) <= 1

\* A cabinet has no socket it has dialled but the one in its table.
DialledIsPeer ==
    \A c \in Cabinet, k \in Conn : IsClient(net[k], c) => Calling(c) /\ k \in Tab(c)

\* What waits to be accepted is a connection to the port's owner.
QueuedIsServed ==
    \A p \in PC : \A k \in SeqMembers(backlog[p]) :
      port[p] # None /\ Served(net[k], port[p])

\* A connection is in one table or queue, and once.
Once ==
    /\ \A c \in Cabinet : Injective(peer[c])
    /\ \A p \in PC : Injective(backlog[p])
    /\ \A c \in Cabinet, p \in PC :
         state[c] = "LISTENING" => Tab(c) \cap SeqMembers(backlog[p]) = {}

\* A SYN has a sender and no server yet.
SynUnserved ==
    \A k \in Conn : net[k].c = "syn" => net[k].cli \in Cabinet /\ net[k].s \in Shut

\* A listening socket is bound to the port of its machine.
PortOwned ==
    /\ \A c \in Cabinet : listener[c] => state[c] = "LISTENING" /\ port[Site[c]] = c
    /\ \A p \in PC : port[p] # None => p = Site[port[p]]

\* Only a settled cabinet is in its receive loop.
DrainsSettled ==
    \A c \in Cabinet :
      /\ state[c] = "CONNECTING" => at[c] = Out
      /\ state[c] = "IDLE" => at[c] <= 0

\* What a client sends has the mark of its connection, what a listener sends
\* up that connection has not.
Marked(k, r) ==
    /\ \A b \in SeqMembers(r.up) : b.via = k
    /\ \A b \in SeqMembers(r.dn) : b.via # k
MarkedBytes == \A k \in Conn : Marked(k, net[k])

Shape ==
    PeersMatchState /\ DialledIsPeer /\ QueuedIsServed /\ Once /\ SynUnserved
      /\ PortOwned
Inv == TypeOK /\ Shape /\ DrainsSettled /\ MarkedBytes

\* While no cabinet has more than two peers a listener's loop stays in its
\* table, and so the socket it listens on is not overwritten.
SmallBus == \A c \in Cabinet : Len(peer[c]) <= 2
LoopInTable == \A c \in Cabinet : at[c] > 0 => at[c] <= Len(peer[c])
SocketsKept ==
    /\ \A c \in Cabinet : state[c] = "LISTENING" => listener[c]
    /\ \A c \in Cabinet : port[Site[c]] = c => listener[c]
    /\ \A c \in Cabinet, k \in Conn :
         Served(net[k], c) =>
           state[c] = "LISTENING" /\ k \in Tab(c) \cup SeqMembers(backlog[Site[c]])
SmallInv == Inv /\ LoopInTable /\ SocketsKept

-----------------------------------------------------------------------------
(* Tables.                                                                 *)

LEMMA MembersIs ==
    ASSUME NEW T, NEW s \in Seq(T)
    PROVE  /\ Len(s) \in Nat /\ DOMAIN s = 1 .. Len(s) /\ SeqMembers(s) \subseteq T
           /\ \A i \in 1 .. Len(s) : s[i] \in SeqMembers(s)
           /\ \A k \in SeqMembers(s) : \E i \in 1 .. Len(s) : s[i] = k
           /\ s = <<>> <=> SeqMembers(s) = {}
           /\ s = <<>> <=> Len(s) = 0
  <1>1. Len(s) \in Nat /\ DOMAIN s = 1 .. Len(s) /\ s \in [1 .. Len(s) -> T]
    BY LenProperties
  <1>2. s = <<>> <=> Len(s) = 0
    BY EmptySeq
  <1>3. s # <<>> => s[1] \in SeqMembers(s)
    BY <1>1, <1>2 DEF SeqMembers
  <1>4. s = <<>> => SeqMembers(s) = {}
    BY <1>1, <1>2 DEF SeqMembers
  <1> QED
    BY <1>1, <1>2, <1>3, <1>4 DEF SeqMembers

LEMMA RemoveIs ==
    ASSUME NEW T, NEW s \in Seq(T), NEW i \in 1 .. Len(s)
    PROVE  /\ RemoveIdx(s, i) \in Seq(T) /\ Len(RemoveIdx(s, i)) = Len(s) - 1
           /\ SeqMembers(RemoveIdx(s, i)) \subseteq SeqMembers(s)
           /\ SeqMembers(s) \subseteq SeqMembers(RemoveIdx(s, i)) \cup {s[i]}
           /\ Injective(s) => /\ Injective(RemoveIdx(s, i))
                              /\ s[i] \notin SeqMembers(RemoveIdx(s, i))
  <1> DEFINE r == RemoveIdx(s, i)
             n == Len(s)
  <1>1. n \in Nat /\ DOMAIN s = 1 .. n /\ s \in [1 .. n -> T] /\ i \in 1 .. n
    BY LenProperties
  <1>2. r = [j \in 1 .. n - 1 |-> IF j < i THEN s[j] ELSE s[j + 1]]
    BY DEF RemoveIdx
  <1> HIDE DEF r, n
  <1>3. r \in [1 .. n - 1 -> T] /\ n - 1 \in Nat
    BY <1>1, <1>2
  <1>4. r \in Seq(T) /\ Len(r) = n - 1 /\ DOMAIN r = 1 .. n - 1
    BY <1>3, SeqDef
  <1>5. \A j \in 1 .. n - 1 : (j < i /\ r[j] = s[j] /\ j \in 1 .. n) \/ (j >= i /\ r[j] = s[j + 1] /\ j + 1 \in 1 .. n)
    BY <1>1, <1>2
  <1>6. SeqMembers(r) \subseteq SeqMembers(s)
    BY <1>1, <1>4, <1>5 DEF SeqMembers
  <1>7. \A j \in 1 .. n : j = i \/ (j < i /\ j \in 1 .. n - 1 /\ r[j] = s[j])
                                \/ (j > i /\ j - 1 \in 1 .. n - 1 /\ r[j - 1] = s[j])
    BY <1>1, <1>2
  <1>8. SeqMembers(s) \subseteq SeqMembers(r) \cup {s[i]}
    BY <1>1, <1>4, <1>7 DEF SeqMembers
  <1>9. Injective(s) => Injective(r)
    BY <1>1, <1>4, <1>5 DEF Injective
  <1>10. Injective(s) => s[i] \notin SeqMembers(r)
    <2> SUFFICES ASSUME Injective(s), NEW j \in 1 .. n - 1, r[j] = s[i] PROVE FALSE
      BY <1>4 DEF SeqMembers
    <2>1. \A l \in 1 .. n : s[l] = s[i] => l = i
      BY <1>1 DEF Injective
    <2> QED
      BY <1>1, <1>5, <2>1
  <1> QED
    BY <1>4, <1>6, <1>8, <1>9, <1>10 DEF r, n

LEMMA AppendIs ==
    ASSUME NEW T, NEW s \in Seq(T), NEW x \in T
    PROVE  /\ Append(s, x) \in Seq(T) /\ Len(Append(s, x)) = Len(s) + 1
           /\ SeqMembers(Append(s, x)) = SeqMembers(s) \cup {x}
           /\ Injective(s) /\ x \notin SeqMembers(s) => Injective(Append(s, x))
  <1> DEFINE n == Len(s)
             a == Append(s, x)
  <1>1. n \in Nat /\ DOMAIN s = 1 .. n
    BY LenProperties
  <1>2. /\ a \in Seq(T) /\ Len(a) = n + 1 /\ a[n + 1] = x
        /\ \A i \in 1 .. n : a[i] = s[i]
    BY <1>1
  <1> HIDE DEF a, n
  <1>3. DOMAIN a = 1 .. n + 1
    BY <1>2, LenProperties
  <1>4. SeqMembers(a) = SeqMembers(s) \cup {x}
    <2>1. \A i \in 1 .. n + 1 : i = n + 1 \/ i \in 1 .. n
      BY <1>1
    <2>2. n + 1 \in 1 .. n + 1 /\ \A i \in 1 .. n : i \in 1 .. n + 1
      BY <1>1
    <2> QED
      BY <1>1, <1>2, <1>3, <2>1, <2>2 DEF SeqMembers
  <1>5. ASSUME Injective(s), x \notin SeqMembers(s) PROVE Injective(a)
    <2> SUFFICES ASSUME NEW i \in 1 .. n + 1, NEW j \in 1 .. n + 1, a[i] = a[j] PROVE i = j
      BY <1>3 DEF Injective
    <2>1. \A l \in 1 .. n : s[l] # x
      BY <1>1, <1>5 DEF SeqMembers
    <2>2. \A l, m \in 1 .. n : s[l] = s[m] => l = m
      BY <1>1, <1>5 DEF Injective
    <2>3. \A l \in 1 .. n + 1 : l = n + 1 \/ l \in 1 .. n
      BY <1>1
    <2> QED
      BY <1>2, <2>1, <2>2, <2>3
  <1> QED
    BY <1>2, <1>4, <1>5 DEF a, n

\* The function that Kept is defined by exists, and does what it says.
KeepBy(s, S, n, f) ==
    \A i \in 0 .. n : f[i] = IF i = 0 THEN <<>>
                             ELSE IF s[i] \in S THEN Append(f[i - 1], s[i]) ELSE f[i - 1]

LEMMA KeepExists ==
    ASSUME NEW T, NEW s \in Seq(T), NEW S
    PROVE  \E f \in [0 .. Len(s) -> Seq(T)] : KeepBy(s, S, Len(s), f)
  <1> DEFINE B == {n \in 0 .. Len(s) : \E f \in [0 .. n -> Seq(T)] : KeepBy(s, S, n, f)}
  <1>1. Len(s) \in Nat /\ \A i \in 1 .. Len(s) : s[i] \in T
    BY LenProperties
  <1>2. 0 \in B
    <2> DEFINE f == [i \in 0 .. 0 |-> <<>>]
    <2>1. f \in [0 .. 0 -> Seq(T)]
      BY EmptySeq
    <2>2. KeepBy(s, S, 0, f)
      BY DEF KeepBy
    <2> HIDE DEF f
    <2> QED
      BY <1>1, <2>1, <2>2
  <1>3. ASSUME NEW n \in 0 .. Len(s) - 1, n \in B PROVE n + 1 \in B
    <2>1. PICK f \in [0 .. n -> Seq(T)] : KeepBy(s, S, n, f)
      BY <1>3
    <2> DEFINE e == IF s[n + 1] \in S THEN Append(f[n], s[n + 1]) ELSE f[n]
               g == [i \in 0 .. n + 1 |-> IF i = n + 1 THEN e ELSE f[i]]
    <2>2. n \in Nat /\ n + 1 \in 0 .. Len(s) /\ n + 1 \in 1 .. Len(s)
      BY <1>1, <1>3
    <2>3. e \in Seq(T)
      <3>1. f[n] \in Seq(T) /\ s[n + 1] \in T
        BY <1>1, <2>2
      <3> QED
        BY <3>1
    <2>4. g \in [0 .. n + 1 -> Seq(T)]
      BY <2>2, <2>3
    <2>5. KeepBy(s, S, n + 1, g)
      <3> SUFFICES ASSUME NEW i \in 0 .. n + 1
                   PROVE  g[i] = IF i = 0 THEN <<>>
                                 ELSE IF s[i] \in S THEN Append(g[i - 1], s[i]) ELSE g[i - 1]
        BY DEF KeepBy
      <3>1. CASE i = n + 1
        BY <2>2, <3>1
      <3>2. CASE i # n + 1
        <4>1. i \in 0 .. n /\ g[i] = f[i] /\ (i # 0 => g[i - 1] = f[i - 1])
          BY <2>2, <3>2
        <4> QED
          BY <2>1, <4>1 DEF KeepBy
      <3> QED
        BY <3>1, <3>2
    <2> HIDE DEF g
    <2> QED
      BY <2>2, <2>4, <2>5
  <1> HIDE DEF B
  <1>4. 0 .. Len(s) \subseteq B
    BY <1>1, <1>2, <1>3, IntervalInduction
  <1>5. Len(s) \in B
    BY <1>1, <1>4
  <1> QED
    BY <1>5 DEF B

LEMMA KeptIs ==
    ASSUME NEW T, NEW s \in Seq(T), NEW S
    PROVE  /\ Kept(s, S) \in Seq(T) /\ Len(Kept(s, S)) <= Len(s)
           /\ SeqMembers(Kept(s, S)) = SeqMembers(s) \cap S
           /\ Injective(s) => Injective(Kept(s, S))
  <1> DEFINE keep == CHOOSE f : f = [i \in 0 .. Len(s) |->
                       IF i = 0 THEN <<>>
                       ELSE IF s[i] \in S THEN Append(f[i - 1], s[i]) ELSE f[i - 1]]
             n == Len(s)
  <1>1. n \in Nat /\ DOMAIN s = 1 .. n /\ \A i \in 1 .. n : s[i] \in T
    BY LenProperties
  <1>2. PICK f \in [0 .. n -> Seq(T)] : KeepBy(s, S, n, f)
    BY KeepExists
  <1>3. f = [i \in 0 .. n |-> IF i = 0 THEN <<>>
                              ELSE IF s[i] \in S THEN Append(f[i - 1], s[i]) ELSE f[i - 1]]
    BY <1>2 DEF KeepBy
  <1>4. keep = [i \in 0 .. n |-> IF i = 0 THEN <<>>
                                 ELSE IF s[i] \in S THEN Append(keep[i - 1], s[i]) ELSE keep[i - 1]]
    BY <1>3
  <1>5. Kept(s, S) = keep[n]
    BY DEF Kept
  <1> HIDE DEF keep
  <1> DEFINE B == {i \in 0 .. n :
                     /\ keep[i] \in Seq(T) /\ Len(keep[i]) <= i
                     /\ SeqMembers(keep[i]) = {s[j] : j \in 1 .. i} \cap S
                     /\ Injective(s) => Injective(keep[i])}
  <1>6. 0 \in B
    <2>1. keep[0] = <<>>
      BY <1>1, <1>4
    <2>2. keep[0] \in Seq(T) /\ Len(keep[0]) = 0 /\ SeqMembers(keep[0]) = {} /\ Injective(keep[0])
      BY <2>1, EmptySeq DEF SeqMembers, Injective
    <2> QED
      BY <1>1, <2>2
  <1>7. ASSUME NEW i \in 0 .. n - 1, i \in B PROVE i + 1 \in B
    <2>1. /\ keep[i] \in Seq(T) /\ Len(keep[i]) <= i
          /\ SeqMembers(keep[i]) = {s[j] : j \in 1 .. i} \cap S
          /\ Injective(s) => Injective(keep[i])
      BY <1>7
    <2>2. i + 1 \in 1 .. n /\ i \in Nat /\ s[i + 1] \in T /\ i + 1 \in 0 .. n /\ i + 1 # 0 /\ i + 1 - 1 = i
      BY <1>1
    <2>3. keep[i + 1] = IF s[i + 1] \in S THEN Append(keep[i], s[i + 1]) ELSE keep[i]
      <3>1. \A j \in 0 .. n : j # 0 =>
              keep[j] = IF s[j] \in S THEN Append(keep[j - 1], s[j]) ELSE keep[j - 1]
        BY <1>4
      <3> QED
        BY <2>2, <3>1
    <2>4. {s[j] : j \in 1 .. i + 1} = {s[j] : j \in 1 .. i} \cup {s[i + 1]}
      BY <2>2
    <2>5. Injective(s) => s[i + 1] \notin {s[l] : l \in 1 .. i}
      BY <1>1, <2>2 DEF Injective
    <2>6. CASE s[i + 1] \notin S
      BY <2>1, <2>2, <2>3, <2>4, <2>6
    <2>7. CASE s[i + 1] \in S
      <3>1. /\ Append(keep[i], s[i + 1]) \in Seq(T)
            /\ Len(Append(keep[i], s[i + 1])) = Len(keep[i]) + 1
            /\ SeqMembers(Append(keep[i], s[i + 1])) = SeqMembers(keep[i]) \cup {s[i + 1]}
            /\ Injective(keep[i]) /\ s[i + 1] \notin SeqMembers(keep[i]) =>
                 Injective(Append(keep[i], s[i + 1]))
        BY <2>1, <2>2, AppendIs
      <3>2. Len(keep[i]) \in Nat
        BY <2>1, LenProperties
      <3>3. keep[i + 1] = Append(keep[i], s[i + 1])
        BY <2>3, <2>7
      <3>4. Injective(s) => s[i + 1] \notin SeqMembers(keep[i])
        BY <2>1, <2>5
      <3>5. keep[i + 1] \in Seq(T) /\ Len(keep[i + 1]) <= i + 1
        BY <2>1, <2>2, <3>1, <3>2, <3>3
      <3>6. SeqMembers(keep[i + 1]) = {s[j] : j \in 1 .. i + 1} \cap S
        BY <2>1, <2>4, <2>7, <3>1, <3>3
      <3>7. Injective(s) => Injective(keep[i + 1])
        BY <2>1, <3>1, <3>3, <3>4
      <3> QED
        BY <2>2, <3>5, <3>6, <3>7
    <2> QED
      BY <2>6, <2>7
  <1> HIDE DEF B
  <1>8. 0 .. n \subseteq B
    BY <1>1, <1>6, <1>7, IntervalInduction
  <1>9. n \in B
    BY <1>1, <1>8
  <1>10. {s[j] : j \in 1 .. n} = SeqMembers(s)
    BY <1>1 DEF SeqMembers
  <1> QED
    BY <1>5, <1>9, <1>10 DEF B

LEMMA SubSeqIs ==
    ASSUME NEW T, NEW s \in Seq(T), NEW m \in Nat \ {0}, NEW n \in 0 .. Len(s)
    PROVE  /\ SubSeq(s, m, n) \in Seq(T)
           /\ Len(SubSeq(s, m, n)) = IF m <= n THEN n - m + 1 ELSE 0
           /\ SeqMembers(SubSeq(s, m, n)) \subseteq SeqMembers(s)
           /\ Injective(s) => Injective(SubSeq(s, m, n))
  <1> DEFINE q == SubSeq(s, m, n)
             l == Len(q)
  <1>1. Len(s) \in Nat /\ DOMAIN s = 1 .. Len(s) /\ (\A i \in 1 .. Len(s) : s[i] \in T) /\ n \in Nat
    BY LenProperties
  <1>2. m \in Int /\ n \in Int /\ \A i \in m .. n : s[i] \in T
    BY <1>1
  <1>3. /\ q \in Seq(T) /\ l = IF m <= n THEN n - m + 1 ELSE 0
        /\ \A i \in 1 .. n - m + 1 : q[i] = s[m + i - 1]
    BY <1>2, SubSeqProperties
  <1> HIDE DEF q, l
  <1>4. DOMAIN q = 1 .. l /\ l \in Nat
    BY <1>3, LenProperties DEF l
  <1>5. \A i \in 1 .. l : q[i] = s[m + i - 1] /\ m + i - 1 \in 1 .. Len(s)
    BY <1>1, <1>3
  <1>6. SeqMembers(q) \subseteq SeqMembers(s)
    BY <1>1, <1>4, <1>5 DEF SeqMembers
  <1>7. ASSUME Injective(s) PROVE Injective(q)
    <2> SUFFICES ASSUME NEW i \in 1 .. l, NEW j \in 1 .. l, q[i] = q[j] PROVE i = j
      BY <1>4 DEF Injective
    <2>1. m + i - 1 = m + j - 1
      BY <1>1, <1>5, <1>7 DEF Injective
    <2> QED
      BY <1>4, <2>1
  <1> QED
    BY <1>3, <1>6, <1>7 DEF q, l

LEMMA ConcatIs ==
    ASSUME NEW T, NEW s \in Seq(T), NEW q \in Seq(T)
    PROVE  /\ s \o q \in Seq(T) /\ Len(s \o q) = Len(s) + Len(q)
           /\ SeqMembers(s \o q) = SeqMembers(s) \cup SeqMembers(q)
           /\ Injective(s) /\ Injective(q) /\ SeqMembers(s) \cap SeqMembers(q) = {}
                => Injective(s \o q)
  <1> DEFINE a == s \o q
             m == Len(s)
             n == Len(q)
  <1>1. /\ a \in Seq(T) /\ Len(a) = m + n
        /\ \A i \in 1 .. m + n : a[i] = IF i <= m THEN s[i] ELSE q[i - m]
    BY ConcatProperties
  <1>2. m \in Nat /\ DOMAIN s = 1 .. m /\ n \in Nat /\ DOMAIN q = 1 .. n
    BY LenProperties
  <1>3. DOMAIN a = 1 .. m + n
    BY <1>1, LenProperties
  <1> HIDE DEF a, m, n
  <1>4. \A i \in 1 .. m : i \in 1 .. m + n /\ a[i] = s[i]
    BY <1>1, <1>2
  <1>5. \A i \in 1 .. n : i + m \in 1 .. m + n /\ a[i + m] = q[i]
    BY <1>1, <1>2
  <1>6. \A i \in 1 .. m + n : \/ i \in 1 .. m /\ a[i] = s[i]
                              \/ i - m \in 1 .. n /\ a[i] = q[i - m]
    BY <1>1, <1>2
  <1>7. SeqMembers(s) \subseteq SeqMembers(a)
    BY <1>2, <1>3, <1>4 DEF SeqMembers
  <1>8. SeqMembers(q) \subseteq SeqMembers(a)
    BY <1>2, <1>3, <1>5 DEF SeqMembers
  <1>9. SeqMembers(a) \subseteq SeqMembers(s) \cup SeqMembers(q)
    BY <1>2, <1>3, <1>6 DEF SeqMembers
  <1>10. ASSUME Injective(s), Injective(q), SeqMembers(s) \cap SeqMembers(q) = {}
         PROVE  Injective(a)
    <2> SUFFICES ASSUME NEW i \in 1 .. m + n, NEW j \in 1 .. m + n, a[i] = a[j] PROVE i = j
      BY <1>3 DEF Injective
    <2>1. \A k \in 1 .. m, l \in 1 .. n : s[k] # q[l]
      BY <1>2, <1>10 DEF SeqMembers
    <2>2. /\ \A k, l \in 1 .. m : s[k] = s[l] => k = l
          /\ \A k, l \in 1 .. n : q[k] = q[l] => k = l
      BY <1>2, <1>10 DEF Injective
    <2>3. CASE i \in 1 .. m /\ a[i] = s[i]
      BY <1>6, <2>1, <2>2, <2>3
    <2>4. CASE i - m \in 1 .. n /\ a[i] = q[i - m]
      <3>1. j - m \in 1 .. n /\ a[j] = q[j - m]
        BY <1>6, <2>1, <2>4
      <3>2. i - m = j - m
        BY <2>2, <2>4, <3>1
      <3> QED
        BY <1>2, <3>2
    <2> QED
      BY <1>6, <2>3, <2>4
  <1> QED
    BY <1>1, <1>7, <1>8, <1>9, <1>10 DEF a, m, n

-----------------------------------------------------------------------------
(* What a socket and the ring take.                                        *)

LEMMA FittingIs ==
    ASSUME NEW q \in Seq(Byte), NEW data \in Seq(Byte), Len(q) <= SockCap
    PROVE  /\ Fitting(q, data) \in Seq(Byte) /\ Len(Fitting(q, data)) <= SockCap
           /\ SeqMembers(Fitting(q, data)) \subseteq SeqMembers(q) \cup SeqMembers(data)
  <1> DEFINE m == IF Len(data) <= SockCap - Len(q) THEN Len(data) ELSE SockCap - Len(q)
  <1>1. Len(q) \in Nat /\ Len(data) \in Nat /\ SockCap \in Nat
    BY LenProperties, BoundsAssumption
  <1>2. m \in 0 .. Len(data) /\ Len(q) + m <= SockCap
    BY <1>1
  <1> HIDE DEF m
  <1>3. /\ SubSeq(data, 1, m) \in Seq(Byte) /\ Len(SubSeq(data, 1, m)) = m
        /\ SeqMembers(SubSeq(data, 1, m)) \subseteq SeqMembers(data)
    BY <1>1, <1>2, SubSeqIs
  <1>4. Fitting(q, data) = q \o SubSeq(data, 1, m)
    BY DEF Fitting, m
  <1>5. /\ q \o SubSeq(data, 1, m) \in Seq(Byte)
        /\ Len(q \o SubSeq(data, 1, m)) = Len(q) + Len(SubSeq(data, 1, m))
        /\ SeqMembers(q \o SubSeq(data, 1, m)) = SeqMembers(q) \cup SeqMembers(SubSeq(data, 1, m))
    BY <1>3, ConcatIs, ZenonT(40)
  <1> QED
    BY <1>1, <1>2, <1>3, <1>4, <1>5

LEMMA RxPushIs ==
    ASSUME NEW ring \in Seq(Byte), NEW data \in Seq(Byte), Len(ring) < RxSize
    PROVE  RxPush(ring, data) \in Seq(Byte) /\ Len(RxPush(ring, data)) < RxSize
  <1> DEFINE room == RxSize - 1 - Len(ring)
             m == IF Len(data) <= room THEN Len(data) ELSE room
  <1>1. Len(ring) \in Nat /\ Len(data) \in Nat /\ RxSize \in Nat
    BY LenProperties, BoundsAssumption
  <1>2. m \in 0 .. Len(data) /\ Len(ring) + m < RxSize
    BY <1>1
  <1> HIDE DEF m
  <1>3. SubSeq(data, 1, m) \in Seq(Byte) /\ Len(SubSeq(data, 1, m)) = m
    BY <1>1, <1>2, SubSeqIs
  <1>4. RxPush(ring, data) = ring \o SubSeq(data, 1, m)
    BY DEF RxPush, m
  <1> QED
    BY <1>1, <1>2, <1>3, <1>4, ConcatIs

-----------------------------------------------------------------------------
(* The two ends of a connection.                                           *)

\* A connection as the state must have it.
Sound(k, r) ==
    r \in Connection /\ Len(r.up) <= SockCap /\ Len(r.dn) <= SockCap /\ Marked(k, r)

\* From r to s nobody has got or lost a socket.
SameHolders(r, s) ==
    /\ \A d \in Cabinet : IsClient(s, d) <=> IsClient(r, d)
    /\ \A d \in Cabinet : Served(s, d) <=> Served(r, d)
    /\ s.s \in Shut <=> r.s \in Shut
    /\ s.c = "syn" => r.c = "syn" /\ s.cli = r.cli

\* From r to s cabinet c has closed its socket.
ClosedBy(r, s, c) ==
    /\ \A d \in Cabinet : IsClient(s, d) <=> IsClient(r, d) /\ d # c
    /\ \A d \in Cabinet : Served(s, d) <=> Served(r, d) /\ IsClient(r, c)
    /\ r.s \in Shut => s.s \in Shut
    /\ s.c = "syn" => r.c = "syn" /\ s.cli = r.cli

\* r and s differ in the bytes on their way.
SameEnds(r, s) == s.cli = r.cli /\ s.srv = r.srv /\ s.c = r.c /\ s.s = r.s

LEMMA ConnectionIs ==
    ASSUME NEW r \in Connection
    PROVE  /\ r.cli \in Cabinet \cup {None} /\ r.srv \in Cabinet \cup {None}
           /\ r.c \in EndState /\ r.s \in EndState /\ r.up \in Seq(Byte) /\ r.dn \in Seq(Byte)
  BY DEF Connection

LEMMA EmptyIs ==
    /\ \A T : <<>> \in Seq(T)
    /\ Len(<<>>) = 0 /\ SeqMembers(<<>>) = {} /\ Injective(<<>>)
  BY EmptySeq DEF SeqMembers, Injective

LEMMA FreeIs == \A k \in Conn : Sound(k, FreeConn)
  <1>1. FreeConn \in Connection
    BY EmptyIs DEF FreeConn, Connection, EndState, Shut
  <1> QED
    BY <1>1, EmptyIs, BoundsAssumption DEF FreeConn, Sound, Marked

LEMMA CloseEndIs ==
    ASSUME NEW k \in Conn, NEW r, Sound(k, r), NEW c \in Cabinet
    PROVE  Sound(k, CloseEnd(r, c)) /\ ClosedBy(r, CloseEnd(r, c), c)
  <1> DEFINE t == IF IsClient(r, c) THEN [r EXCEPT !.c = Closing(r.c), !.dn = <<>>]
                                    ELSE [r EXCEPT !.s = Closing(r.s), !.up = <<>>]
             s == CloseEnd(r, c)
  <1>1. r \in Connection /\ Closing(r.c) \in Shut /\ Closing(r.s) \in Shut
    BY DEF Sound, Closing, Shut
  <1>2. CASE IsClient(r, c)
    <2>1. /\ t \in Connection /\ t.cli = r.cli /\ t.srv = r.srv /\ t.c \in Shut /\ t.s = r.s
          /\ t.up = r.up /\ t.dn = <<>>
      BY <1>1, <1>2, EmptyIs DEF Connection, EndState
    <2>2. (s = FreeConn /\ t.s \in Shut) \/ (s = t /\ t.s \notin Shut)
      <3>1. s = Reclaim(t)
        BY DEF CloseEnd
      <3> HIDE DEF s, t
      <3> QED
        BY <2>1, <3>1 DEF Reclaim
    <2> HIDE DEF s, t
    <2>3. Sound(k, s)
      BY <2>1, <2>2, EmptyIs, FreeIs, BoundsAssumption DEF Sound, Marked
    <2>4. s.c \in Shut /\ (s.s \notin Shut <=> r.s \notin Shut) /\ (s.s \notin Shut => s.srv = r.srv)
      BY <2>1, <2>2 DEF FreeConn, Shut
    <2>5. ClosedBy(r, s, c)
      BY <1>1, <1>2, <2>4 DEF ClosedBy, IsClient, Served, Shut
    <2> QED
      BY <2>3, <2>5 DEF s
  <1>3. CASE ~IsClient(r, c)
    <2>1. /\ t \in Connection /\ t.cli = r.cli /\ t.srv = r.srv /\ t.s \in Shut /\ t.c = r.c
          /\ t.dn = r.dn /\ t.up = <<>>
      BY <1>1, <1>3, EmptyIs DEF Connection, EndState
    <2>2. (s = FreeConn /\ t.c \in Shut) \/ (s = t /\ t.c \notin Shut)
      <3>1. s = Reclaim(t)
        BY DEF CloseEnd
      <3> HIDE DEF s, t
      <3> QED
        BY <2>1, <3>1 DEF Reclaim
    <2> HIDE DEF s, t
    <2>3. Sound(k, s)
      BY <2>1, <2>2, EmptyIs, FreeIs, BoundsAssumption DEF Sound, Marked
    <2>4. s.s \in Shut /\ (s.c \notin Shut <=> r.c \notin Shut) /\ (s.c \notin Shut => s.cli = r.cli /\ s.c = r.c)
      BY <2>1, <2>2 DEF FreeConn, Shut
    <2>5. ClosedBy(r, s, c)
      BY <1>1, <1>3, <2>4 DEF ClosedBy, IsClient, Served, Shut
    <2> QED
      BY <2>3, <2>5 DEF s
  <1> QED
    BY <1>2, <1>3

LEMMA SendOnIs ==
    ASSUME NEW k \in Conn, NEW r, Sound(k, r), NEW c \in Cabinet, NEW data \in Seq(Byte),
           IF IsClient(r, c) THEN \A b \in SeqMembers(data) : b.via = k
                             ELSE \A b \in SeqMembers(data) : b.via # k
    PROVE  Sound(k, SendOn(r, c, data)) /\ SameEnds(r, SendOn(r, c, data))
  <1> DEFINE s == SendOn(r, c, data)
             fu == Fitting(r.up, data)
             fd == Fitting(r.dn, data)
  <1>1. /\ r \in Connection /\ r.up \in Seq(Byte) /\ r.dn \in Seq(Byte)
        /\ Len(r.up) <= SockCap /\ Len(r.dn) <= SockCap
    BY ConnectionIs DEF Sound
  <1>2. /\ fu \in Seq(Byte) /\ Len(fu) <= SockCap
        /\ SeqMembers(fu) \subseteq SeqMembers(r.up) \cup SeqMembers(data)
    BY <1>1, FittingIs
  <1>3. /\ fd \in Seq(Byte) /\ Len(fd) <= SockCap
        /\ SeqMembers(fd) \subseteq SeqMembers(r.dn) \cup SeqMembers(data)
    BY <1>1, FittingIs
  <1> HIDE DEF fu, fd
  <1>4. CASE IsClient(r, c) /\ r.s \notin Shut
    <2>1. s = [r EXCEPT !.up = fu]
      BY <1>4 DEF SendOn, fu
    <2>2. s \in Connection /\ SameEnds(r, s) /\ s.up = fu /\ s.dn = r.dn
      BY <1>1, <1>2, <2>1 DEF Connection, SameEnds
    <2> QED
      BY <1>1, <1>2, <1>4, <2>2 DEF Sound, Marked
  <1>5. CASE ~IsClient(r, c) /\ r.c \notin Shut
    <2>1. s = [r EXCEPT !.dn = fd]
      BY <1>5 DEF SendOn, fd
    <2>2. s \in Connection /\ SameEnds(r, s) /\ s.dn = fd /\ s.up = r.up
      BY <1>1, <1>3, <2>1 DEF Connection, SameEnds
    <2> QED
      BY <1>1, <1>3, <1>5, <2>2 DEF Sound, Marked
  <1>6. CASE ~(IsClient(r, c) /\ r.s \notin Shut) /\ ~(~IsClient(r, c) /\ r.c \notin Shut)
    <2>1. s = r
      BY <1>6 DEF SendOn
    <2> QED
      BY <2>1 DEF SameEnds
  <1> QED
    BY <1>4, <1>5, <1>6

LEMMA EndsHold ==
    ASSUME NEW r, NEW s, SameEnds(r, s)
    PROVE  /\ SameHolders(r, s)
           /\ \A t, c : ClosedBy(s, t, c) => ClosedBy(r, t, c)
           /\ \A c : IsClient(s, c) <=> IsClient(r, c)
           /\ \A c : EndOf(s, c) = EndOf(r, c)
  BY DEF SameEnds, SameHolders, ClosedBy, IsClient, Served, EndOf

-----------------------------------------------------------------------------
(* Steps that only take connections out of one cabinet's table.            *)

\* k is as it was, or cabinet c has closed its socket, lost, and dropped it from
\* its table, which is now tab; or a listener past the end of its table forgets it.
OnlyDrops(c, k, r, tab) ==
    \/ SameHolders(net[k], r) /\ (k \in Tab(c) => k \in SeqMembers(tab))
    \/ SameHolders(net[k], r) /\ state[c] = "LISTENING" /\ at[c] > Len(peer[c])
    \/ /\ ClosedBy(net[k], r, c) /\ EndOf(net[k], c) \in {"eof", "dead"}
       /\ k \in Tab(c) /\ k \notin SeqMembers(tab)

LEMMA SentIs ==
    ASSUME TypeOK, NEW c \in Cabinet, NEW nt, NEW data \in Seq(Byte), NEW except,
           \A k \in Conn : Sound(k, nt[k]) /\ SameEnds(net[k], nt[k]),
           \A k \in Tab(c) : k # except =>
             IF IsClient(net[k], c) THEN \A b \in SeqMembers(data) : b.via = k
                                    ELSE \A b \in SeqMembers(data) : b.via # k
    PROVE  /\ SentNet(c, nt, data, except) \in [Conn -> Connection]
           /\ SentTable(c, except) \in Seq(Conn)
           /\ Len(SentTable(c, except)) <= Len(peer[c])
           /\ SeqMembers(SentTable(c, except)) \subseteq Tab(c)
           /\ Injective(peer[c]) => Injective(SentTable(c, except))
           /\ except \in Tab(c) => except \in SeqMembers(SentTable(c, except))
           /\ \A k \in Conn :
                /\ Sound(k, SentNet(c, nt, data, except)[k])
                /\ OnlyDrops(c, k, SentNet(c, nt, data, except)[k], SentTable(c, except))
  <1> DEFINE n == SentNet(c, nt, data, except)
             t == SentTable(c, except)
             S == {k \in Conn : k = except \/ ~Dead(c, k)}
  <1>1. peer[c] \in Seq(Conn)
    BY DEF TypeOK
  <1>2. Tab(c) \subseteq Conn
    BY <1>1, MembersIs DEF Tab
  <1>3. /\ t \in Seq(Conn) /\ Len(t) <= Len(peer[c]) /\ SeqMembers(t) = Tab(c) \cap S
        /\ Injective(peer[c]) => Injective(t)
    BY <1>1, KeptIs DEF SentTable, Tab
  <1>4. \A k \in Conn :
          n[k] = IF k = except \/ k \notin Tab(c) THEN nt[k]
                 ELSE IF Dead(c, k) THEN CloseEnd(nt[k], c) ELSE SendOn(nt[k], c, data)
    BY DEF SentNet, Tab
  <1>5. n = [k \in Conn |-> n[k]]
    BY DEF SentNet
  <1> HIDE DEF n, t
  <1>6. ASSUME NEW k \in Conn PROVE Sound(k, n[k]) /\ OnlyDrops(c, k, n[k], t)
    <2>1. Sound(k, nt[k]) /\ SameEnds(net[k], nt[k]) /\ (IsClient(nt[k], c) <=> IsClient(net[k], c))
      BY EndsHold
    <2>2. CASE k = except \/ k \notin Tab(c)
      <3>1. n[k] = nt[k] /\ (k \in Tab(c) => k \in SeqMembers(t))
        BY <1>3, <1>4, <2>2
      <3> QED
        BY <2>1, <3>1, EndsHold DEF OnlyDrops
    <2>3. CASE k # except /\ k \in Tab(c) /\ Dead(c, k)
      <3>1. n[k] = CloseEnd(nt[k], c) /\ k \notin SeqMembers(t)
        BY <1>3, <1>4, <2>3
      <3>2. Sound(k, CloseEnd(nt[k], c)) /\ ClosedBy(nt[k], CloseEnd(nt[k], c), c)
        BY <2>1, CloseEndIs
      <3> QED
        BY <2>1, <2>3, <3>1, <3>2, EndsHold DEF OnlyDrops, Dead
    <2>4. CASE k # except /\ k \in Tab(c) /\ ~Dead(c, k)
      <3>1. n[k] = SendOn(nt[k], c, data) /\ k \in SeqMembers(t)
        BY <1>3, <1>4, <2>4
      <3>2. IF IsClient(nt[k], c) THEN \A b \in SeqMembers(data) : b.via = k
                                  ELSE \A b \in SeqMembers(data) : b.via # k
        BY <2>1, <2>4
      <3>3. Sound(k, SendOn(nt[k], c, data)) /\ SameEnds(nt[k], SendOn(nt[k], c, data))
        BY <2>1, <3>2, SendOnIs
      <3>4. SameEnds(net[k], n[k])
        BY <2>1, <3>1, <3>3 DEF SameEnds
      <3> QED
        BY <3>1, <3>3, <3>4, EndsHold DEF OnlyDrops
    <2> QED
      BY <2>2, <2>3, <2>4
  <1>7. n \in [Conn -> Connection]
    <2>1. \A k \in Conn : n[k] \in Connection
      BY <1>6 DEF Sound
    <2> QED
      BY <1>5, <2>1
  <1> QED
    BY <1>2, <1>3, <1>6, <1>7 DEF n, t

\* From a table and its sockets to one with fewer.
Drops(c) ==
    /\ peer' \in [Cabinet -> Seq(Conn)]
    /\ net' \in [Conn -> Connection]
    /\ \A k \in Conn : Sound(k, net'[k]) /\ OnlyDrops(c, k, net'[k], peer'[c])
    /\ \A d \in Cabinet : d # c => peer'[d] = peer[d]
    /\ Len(peer'[c]) <= Len(peer[c])
    /\ SeqMembers(peer'[c]) \subseteq Tab(c) /\ Injective(peer'[c])
    /\ state[c] \in {"CONNECTING", "IDLE"} => peer'[c] = peer[c]

\* Such a step, with the rest of the sockets as they were.
TableStep(c) ==
    /\ Drops(c)
    /\ state' = state /\ port' = port /\ backlog' = backlog
    /\ \A d \in Cabinet : listener'[d] => listener[d]

LEMMA TypeFacts ==
    ASSUME TypeOK
    PROVE  /\ \A c \in Cabinet : peer[c] \in Seq(Conn) /\ Tab(c) \subseteq Conn /\ Len(peer[c]) \in Nat
           /\ \A p \in PC : backlog[p] \in Seq(Conn) /\ SeqMembers(backlog[p]) \subseteq Conn
           /\ \A p \in PC : port[p] \in Cabinet \cup {None}
           /\ \A c \in Cabinet : state[c] \in {"IDLE", "CONNECTING", "CLIENT", "LISTENING"}
           /\ \A c \in Cabinet : Site[c] \in PC /\ Dials[c] \in PC
           /\ \A k \in Conn : net[k] \in Connection
  <1>1. \A c \in Cabinet : peer[c] \in Seq(Conn)
    BY DEF TypeOK
  <1>2. \A p \in PC : backlog[p] \in Seq(Conn)
    BY DEF TypeOK
  <1>3. \A c \in Cabinet : Tab(c) \subseteq Conn /\ Len(peer[c]) \in Nat
    BY <1>1, MembersIs DEF Tab
  <1>4. \A p \in PC : SeqMembers(backlog[p]) \subseteq Conn
    BY <1>2, MembersIs
  <1> QED
    BY <1>1, <1>2, <1>3, <1>4 DEF TypeOK, PC

LEMMA TableStepShape ==
    ASSUME TypeOK, Shape, NEW c \in Cabinet, TableStep(c)
    PROVE  Shape'
  <1> USE DEF Calling
  <1>1. \A d \in Cabinet : Tab(d)' \subseteq Tab(d) /\ (d # c => Tab(d)' = Tab(d))
    BY DEF TableStep, Drops, Tab
  <1>2. \A d \in Cabinet : Tab(d) \subseteq Conn
    BY TypeFacts
  <1>3. \A k \in Conn :
          \/ SameHolders(net[k], net'[k]) /\ (k \in Tab(c) => k \in Tab(c)' \/ ~Calling(c))
          \/ ClosedBy(net[k], net'[k], c) /\ k \in Tab(c) /\ k \notin Tab(c)'
    BY DEF TableStep, Drops, OnlyDrops, Tab
  <1>4. ASSUME NEW d \in Cabinet, NEW k \in Tab(d)', state[d] = "LISTENING" PROVE Served(net'[k], d)
    <2>1. k \in Tab(d) /\ k \in Conn /\ Served(net[k], d)
      BY <1>1, <1>2, <1>4 DEF Shape, PeersMatchState
    <2>2. CASE SameHolders(net[k], net'[k])
      BY <2>1, <2>2 DEF SameHolders
    <2>3. CASE ClosedBy(net[k], net'[k], c) /\ k \in Tab(c) /\ k \notin Tab(c)'
      <3>1. d # c
        BY <1>4, <2>3
      <3>2. CASE state[c] = "LISTENING"
        BY <2>1, <2>3, <3>1, <3>2 DEF Shape, PeersMatchState, Served
      <3>3. CASE Calling(c)
        BY <2>1, <2>3, <3>3 DEF Shape, PeersMatchState, ClosedBy
      <3>4. CASE state[c] = "IDLE"
        BY <2>3, <3>4, EmptyIs DEF Shape, PeersMatchState, Tab
      <3> QED
        BY <3>2, <3>3, <3>4, TypeFacts
    <2> QED
      BY <1>3, <2>1, <2>2, <2>3
  <1>5. ASSUME NEW d \in Cabinet, NEW k \in Tab(d)', Calling(d) PROVE IsClient(net'[k], d)
    <2>1. k \in Tab(d) /\ k \in Conn /\ IsClient(net[k], d)
      BY <1>1, <1>2, <1>5 DEF Shape, PeersMatchState
    <2> QED
      BY <1>3, <1>5, <2>1 DEF SameHolders, ClosedBy
  <1>6. PeersMatchState'
    <2> SUFFICES ASSUME NEW d \in Cabinet
                 PROVE  /\ state[d] = "IDLE" => peer'[d] = <<>>
                        /\ state[d] = "CONNECTING" => Len(peer'[d]) = 1
                        /\ state[d] = "CLIENT" => Len(peer'[d]) <= 1
      BY <1>4, <1>5 DEF PeersMatchState, TableStep
    <2>1. /\ state[d] = "IDLE" => peer[d] = <<>>
          /\ state[d] = "CONNECTING" => Len(peer[d]) = 1
          /\ state[d] = "CLIENT" => Len(peer[d]) <= 1
      BY DEF Shape, PeersMatchState
    <2>2. CASE d # c
      BY <2>1, <2>2 DEF TableStep, Drops
    <2>3. CASE d = c
      <3>1. Len(peer[c]) \in Nat /\ Len(peer'[c]) \in Nat /\ Len(peer'[c]) <= Len(peer[c])
        BY TypeFacts, LenProperties DEF TableStep, Drops
      <3>2. state[c] \in {"CONNECTING", "IDLE"} => peer'[c] = peer[c]
        BY DEF TableStep, Drops
      <3> QED
        BY <2>1, <2>3, <3>1, <3>2
    <2> QED
      BY <2>2, <2>3
  <1>7. DialledIsPeer'
    <2> SUFFICES ASSUME NEW d \in Cabinet, NEW k \in Conn, IsClient(net'[k], d)
                 PROVE  Calling(d) /\ k \in Tab(d)'
      BY DEF DialledIsPeer, TableStep
    <2>1. IsClient(net[k], d)
      BY <1>3 DEF SameHolders, ClosedBy
    <2>2. Calling(d) /\ k \in Tab(d)
      BY <2>1 DEF Shape, DialledIsPeer
    <2>3. d = c => k \in Tab(c)'
      BY <1>3, <2>2 DEF ClosedBy
    <2> QED
      BY <1>1, <2>2, <2>3
  <1>8. QueuedIsServed'
    <2> SUFFICES ASSUME NEW p \in PC, NEW k \in SeqMembers(backlog[p])
                 PROVE  port[p] # None /\ Served(net'[k], port[p])
      BY DEF QueuedIsServed, TableStep
    <2>1. k \in Conn /\ port[p] \in Cabinet /\ Served(net[k], port[p])
      BY TypeFacts DEF Shape, QueuedIsServed
    <2>2. port[p] # None
      BY DEF Shape, QueuedIsServed
    <2>3. CASE SameHolders(net[k], net'[k])
      BY <2>1, <2>2, <2>3 DEF SameHolders
    <2>4. CASE ClosedBy(net[k], net'[k], c) /\ k \in Tab(c) /\ k \notin Tab(c)'
      <3>1. CASE state[c] = "LISTENING"
        BY <2>4, <3>1 DEF Shape, Once
      <3>2. CASE Calling(c)
        BY <2>1, <2>2, <2>4, <3>2 DEF Shape, PeersMatchState, ClosedBy
      <3>3. CASE state[c] = "IDLE"
        BY <2>4, <3>3, EmptyIs DEF Shape, PeersMatchState, Tab
      <3> QED
        BY <3>1, <3>2, <3>3, TypeFacts
    <2> QED
      BY <1>3, <2>1, <2>3, <2>4
  <1>9. Once'
    <2>1. \A d \in Cabinet : Injective(peer'[d])
      BY DEF Shape, Once, TableStep, Drops
    <2>2. \A d \in Cabinet, p \in PC :
            state[d] = "LISTENING" => Tab(d)' \cap SeqMembers(backlog[p]) = {}
      BY <1>1 DEF Shape, Once
    <2>3. \A p \in PC : Injective(backlog[p])
      BY DEF Shape, Once
    <2> QED
      BY <2>1, <2>2, <2>3 DEF Once, TableStep
  <1>10. SynUnserved'
    <2> SUFFICES ASSUME NEW k \in Conn, net'[k].c = "syn"
                 PROVE  net'[k].cli \in Cabinet /\ net'[k].s \in Shut
      BY DEF SynUnserved
    <2>1. net[k].c = "syn" /\ net'[k].cli = net[k].cli
      BY <1>3 DEF SameHolders, ClosedBy
    <2> QED
      BY <1>3, <2>1 DEF Shape, SynUnserved, SameHolders, ClosedBy
  <1>11. PortOwned'
    BY DEF Shape, PortOwned, TableStep
  <1> QED
    BY <1>6, <1>7, <1>8, <1>9, <1>10, <1>11 DEF Shape

-----------------------------------------------------------------------------
(* Steps that close every socket of a cabinet, or open its listening one.  *)

\* k waits in the listen queue of cabinet c.
WaitsOn(c, k) == listener[c] /\ k \in SeqMembers(backlog[Site[c]])

\* From r to s cabinet c has closed all it holds of connection k.
LeftBy(r, s, c, k) ==
    /\ \A d \in Cabinet : IsClient(s, d) <=> IsClient(r, d) /\ d # c
    /\ \A d \in Cabinet \ {c} : Served(s, d) <=> Served(r, d)
    /\ Served(s, c) <=> Served(r, c) /\ (Calling(c) \/ (k \notin Tab(c) /\ ~WaitsOn(c, k)))
    /\ r.s \in Shut => s.s \in Shut
    /\ s.c = "syn" => r.c = "syn" /\ s.cli = r.cli

LEMMA HungUpIs ==
    ASSUME NEW k \in Conn, NEW r, Sound(k, r),
           NEW s, s = Reclaim([r EXCEPT !.s = "gone", !.up = <<>>,
                                        !.c = IF r.c \in Shut THEN r.c ELSE "dead"])
    PROVE  /\ Sound(k, s) /\ s.s \in Shut /\ s.c # "syn"
           /\ \A d \in Cabinet : IsClient(s, d) <=> IsClient(r, d)
           /\ \A d \in Cabinet : ~Served(s, d)
  <1> DEFINE t == [r EXCEPT !.s = "gone", !.up = <<>>,
                            !.c = IF r.c \in Shut THEN r.c ELSE "dead"]
  <1>1. r \in Connection
    BY DEF Sound
  <1>2. /\ t \in Connection /\ t.s = "gone" /\ t.up = <<>> /\ t.dn = r.dn /\ t.cli = r.cli
        /\ t.c = (IF r.c \in Shut THEN r.c ELSE "dead")
    BY <1>1, EmptyIs DEF Connection, EndState, Shut
  <1>3. s = Reclaim(t)
    OBVIOUS
  <1> HIDE DEF t
  <1>4. (s = FreeConn /\ t.c \in Shut) \/ (s = t /\ t.c \notin Shut)
    BY <1>2, <1>3 DEF Reclaim, Shut
  <1>5. Sound(k, s)
    BY <1>2, <1>4, EmptyIs, FreeIs, BoundsAssumption DEF Sound, Marked
  <1>6. s.s \in Shut /\ s.c # "syn" /\ (s.c \notin Shut <=> r.c \notin Shut) /\ (s.c \notin Shut => s.cli = r.cli)
    BY <1>2, <1>4 DEF FreeConn, Shut
  <1> QED
    BY <1>1, <1>5, <1>6 DEF IsClient, Served

LEMMA ClosedSocketsAre ==
    ASSUME TypeOK, Shape, MarkedBytes, NEW c \in Cabinet
    PROVE  /\ ClosedSockets(c) \in [Conn -> Connection]
           /\ \A k \in Conn : /\ Sound(k, ClosedSockets(c)[k])
                              /\ LeftBy(net[k], ClosedSockets(c)[k], c, k)
  <1> USE DEF Calling
  <1> DEFINE n == ClosedSockets(c)
  <1>1. \A k \in Conn : Sound(k, net[k])
    BY DEF TypeOK, MarkedBytes, Sound
  <1>2. \A k \in Conn :
          n[k] = IF k \in Tab(c) THEN CloseEnd(net[k], c)
                 ELSE IF WaitsOn(c, k)
                 THEN Reclaim([net[k] EXCEPT !.s = "gone", !.up = <<>>,
                                 !.c = IF net[k].c \in Shut THEN net[k].c ELSE "dead"])
                 ELSE net[k]
    BY DEF ClosedSockets, Tab, WaitsOn
  <1>3. n = [k \in Conn |-> n[k]]
    BY DEF ClosedSockets
  <1> HIDE DEF n
  <1>4. ASSUME NEW k \in Conn PROVE Sound(k, n[k]) /\ LeftBy(net[k], n[k], c, k)
    <2>1. Sound(k, net[k])
      BY <1>1
    <2>2. IsClient(net[k], c) => Calling(c) /\ k \in Tab(c)
      BY DEF Shape, DialledIsPeer
    <2>3. CASE k \in Tab(c)
      <3>1. n[k] = CloseEnd(net[k], c)
        BY <1>2, <2>3
      <3>2. Sound(k, n[k]) /\ ClosedBy(net[k], n[k], c)
        BY <2>1, <3>1, CloseEndIs
      <3>3. CASE Calling(c)
        <4>1. IsClient(net[k], c)
          BY <2>3, <3>3 DEF Shape, PeersMatchState
        <4> QED
          BY <3>2, <3>3, <4>1 DEF LeftBy, ClosedBy
      <3>4. CASE state[c] = "LISTENING"
        <4>1. Served(net[k], c) /\ ~IsClient(net[k], c)
          BY <2>2, <2>3, <3>4 DEF Shape, PeersMatchState
        <4>2. \A d \in Cabinet \ {c} : ~Served(net[k], d)
          BY <4>1 DEF Served
        <4> QED
          BY <2>3, <3>2, <3>4, <4>1, <4>2 DEF LeftBy, ClosedBy
      <3>5. CASE state[c] = "IDLE"
        BY <2>3, <3>5, EmptyIs DEF Shape, PeersMatchState, Tab
      <3> QED
        BY <3>3, <3>4, <3>5, <3>2, TypeFacts
    <2>4. CASE k \notin Tab(c) /\ WaitsOn(c, k)
      <3>1. /\ Sound(k, n[k]) /\ n[k].s \in Shut /\ n[k].c # "syn"
            /\ \A d \in Cabinet : IsClient(n[k], d) <=> IsClient(net[k], d)
            /\ \A d \in Cabinet : ~Served(n[k], d)
        BY <1>2, <2>1, <2>4, HungUpIs
      <3>2. state[c] = "LISTENING" /\ port[Site[c]] = c /\ Site[c] \in PC
        BY <2>4, TypeFacts DEF WaitsOn, Shape, PortOwned
      <3>3. Served(net[k], c)
        BY <2>4, <3>2 DEF WaitsOn, Shape, QueuedIsServed
      <3>4. \A d \in Cabinet \ {c} : ~Served(net[k], d)
        BY <3>3 DEF Served
      <3> QED
        BY <2>2, <2>4, <3>1, <3>2, <3>4 DEF LeftBy
    <2>5. CASE k \notin Tab(c) /\ ~WaitsOn(c, k)
      <3>1. n[k] = net[k]
        BY <1>2, <2>5
      <3> QED
        BY <2>1, <2>2, <2>5, <3>1 DEF LeftBy
    <2> QED
      BY <2>3, <2>4, <2>5
  <1>5. n \in [Conn -> Connection]
    <2>1. \A k \in Conn : n[k] \in Connection
      BY <1>4 DEF Sound
    <2> QED
      BY <1>3, <2>1
  <1> QED
    BY <1>4, <1>5 DEF n

LeaveStep(c) ==
    /\ net' = ClosedSockets(c)
    /\ peer' = [peer EXCEPT ![c] = <<>>]
    /\ \A d \in Cabinet : d # c => state'[d] = state[d] /\ listener'[d] = listener[d]
    /\ \/ state'[c] = "IDLE" /\ ~listener'[c] /\ CloseListener(c)
       \/ /\ state'[c] = "LISTENING" /\ port[Site[c]] = None /\ ~listener[c] /\ listener'[c]
          /\ port' = [port EXCEPT ![Site[c]] = c] /\ backlog' = backlog

LEMMA LeaveStepShape ==
    ASSUME TypeOK, Shape, MarkedBytes, NEW c \in Cabinet, LeaveStep(c)
    PROVE  Shape'
  <1> USE DEF Calling
  <1>1. /\ Tab(c)' = {} /\ peer'[c] = <<>> /\ state'[c] \in {"IDLE", "LISTENING"}
        /\ \A d \in Cabinet \ {c} : Tab(d)' = Tab(d) /\ peer'[d] = peer[d] /\ state'[d] = state[d]
    BY EmptyIs DEF LeaveStep, TypeOK, Tab
  <1>2. \A k \in Conn : LeftBy(net[k], net'[k], c, k)
    BY ClosedSocketsAre DEF LeaveStep
  <1>3. \A d \in Cabinet : Tab(d) \subseteq Conn
    BY TypeFacts
  <1>4. Site[c] \in PC
    BY TypeFacts
  \* A port is as it was, or c has given it back, or c has just bound it.
  <1>5. ASSUME NEW p \in PC
        PROVE  \/ port'[p] = port[p] /\ backlog'[p] = backlog[p] /\ ~(listener[c] /\ p = Site[c])
               \/ port'[p] = None /\ backlog'[p] = <<>> /\ listener[c] /\ port[p] = c
               \/ port'[p] = c /\ backlog'[p] = backlog[p] /\ port[p] = None /\ p = Site[c] /\ state'[c] = "LISTENING"
    <2>1. listener[c] => port[Site[c]] = c
      BY DEF Shape, PortOwned
    <2>2. CASE state'[c] = "IDLE" /\ ~listener'[c] /\ CloseListener(c) /\ listener[c]
      BY <2>1, <2>2, <1>4 DEF CloseListener, TypeOK
    <2>3. CASE state'[c] = "IDLE" /\ ~listener'[c] /\ CloseListener(c) /\ ~listener[c]
      BY <2>3 DEF CloseListener
    <2>4. CASE /\ state'[c] = "LISTENING" /\ port[Site[c]] = None /\ ~listener[c]
               /\ port' = [port EXCEPT ![Site[c]] = c] /\ backlog' = backlog
      BY <2>4, <1>4 DEF TypeOK
    <2> QED
      BY <2>2, <2>3, <2>4 DEF LeaveStep
  <1>6. PeersMatchState'
    <2> SUFFICES ASSUME NEW d \in Cabinet, d # c
                 PROVE  /\ state'[d] = "LISTENING" => \A k \in Tab(d)' : Served(net'[k], d)
                        /\ Calling(d)' => \A k \in Tab(d)' : IsClient(net'[k], d)
                        /\ state'[d] = "IDLE" => peer'[d] = <<>>
                        /\ state'[d] = "CONNECTING" => Len(peer'[d]) = 1
                        /\ state'[d] = "CLIENT" => Len(peer'[d]) <= 1
      BY <1>1 DEF PeersMatchState
    <2>1. /\ state[d] = "LISTENING" => \A k \in Tab(d) : Served(net[k], d)
          /\ Calling(d) => \A k \in Tab(d) : IsClient(net[k], d)
          /\ state[d] = "IDLE" => peer[d] = <<>>
          /\ state[d] = "CONNECTING" => Len(peer[d]) = 1
          /\ state[d] = "CLIENT" => Len(peer[d]) <= 1
      BY DEF Shape, PeersMatchState
    <2>2. /\ Tab(d)' = Tab(d) /\ peer'[d] = peer[d] /\ state'[d] = state[d] /\ Tab(d) \subseteq Conn
          /\ \A k \in Conn : Served(net'[k], d) <=> Served(net[k], d)
          /\ \A k \in Conn : IsClient(net'[k], d) <=> IsClient(net[k], d)
      BY <1>1, <1>2, <1>3 DEF LeftBy
    <2> QED
      BY <2>1, <2>2
  <1>7. DialledIsPeer'
    <2> SUFFICES ASSUME NEW d \in Cabinet, NEW k \in Conn, IsClient(net'[k], d)
                 PROVE  Calling(d)' /\ k \in Tab(d)'
      BY DEF DialledIsPeer
    <2>1. IsClient(net[k], d) /\ d # c
      BY <1>2 DEF LeftBy
    <2> QED
      BY <1>1, <2>1 DEF Shape, DialledIsPeer
  <1>8. QueuedIsServed'
    <2> SUFFICES ASSUME NEW p \in PC, NEW k \in SeqMembers(backlog'[p])
                 PROVE  port'[p] # None /\ Served(net'[k], port'[p])
      BY DEF QueuedIsServed
    <2>1. CASE port'[p] = None /\ backlog'[p] = <<>>
      BY <2>1, EmptyIs
    <2>2. CASE port'[p] = c /\ backlog'[p] = backlog[p] /\ port[p] = None
      BY <2>2 DEF Shape, QueuedIsServed
    <2>3. CASE port'[p] = port[p] /\ backlog'[p] = backlog[p] /\ ~(listener[c] /\ p = Site[c])
      <3>1. port[p] # None /\ Served(net[k], port[p]) /\ k \in Conn /\ port[p] \in Cabinet
        BY <2>3, TypeFacts DEF Shape, QueuedIsServed
      <3>2. LeftBy(net[k], net'[k], c, k)
        BY <1>2, <3>1
      <3>3. CASE port[p] # c
        BY <2>3, <3>1, <3>2, <3>3 DEF LeftBy
      <3>4. CASE port[p] = c
        <4>1. p = Site[c] /\ ~listener[c]
          BY <2>3, <3>1, <3>4 DEF Shape, PortOwned
        <4>2. Calling(c) \/ k \notin Tab(c)
          <5>1. CASE state[c] = "LISTENING"
            BY <2>3, <5>1 DEF Shape, Once
          <5>2. CASE state[c] = "IDLE"
            BY <5>2, EmptyIs DEF Shape, PeersMatchState, Tab
          <5> QED
            BY <5>1, <5>2, TypeFacts
        <4> QED
          BY <2>3, <3>1, <3>2, <3>4, <4>1, <4>2 DEF LeftBy, WaitsOn
      <3> QED
        BY <3>3, <3>4
    <2> QED
      BY <1>5, <2>1, <2>2, <2>3
  <1>9. Once'
    <2>1. \A p \in PC : backlog'[p] = backlog[p] \/ backlog'[p] = <<>>
      BY <1>5
    <2>2. \A d \in Cabinet : Injective(peer'[d])
      BY <1>1, EmptyIs DEF Shape, Once
    <2>3. \A p \in PC : Injective(backlog'[p])
      BY <2>1, EmptyIs DEF Shape, Once
    <2>4. ASSUME NEW d \in Cabinet, NEW p \in PC, state'[d] = "LISTENING"
          PROVE  Tab(d)' \cap SeqMembers(backlog'[p]) = {}
      <3>1. CASE d = c
        BY <1>1, <3>1
      <3>2. CASE d # c
        BY <1>1, <2>1, <2>4, <3>2, EmptyIs DEF Shape, Once
      <3> QED
        BY <3>1, <3>2
    <2> QED
      BY <2>2, <2>3, <2>4 DEF Once
  <1>10. SynUnserved'
    <2> SUFFICES ASSUME NEW k \in Conn, net'[k].c = "syn"
                 PROVE  net'[k].cli \in Cabinet /\ net'[k].s \in Shut
      BY DEF SynUnserved
    <2> QED
      BY <1>2 DEF LeftBy, Shape, SynUnserved
  <1>11. PortOwned'
    <2>1. ASSUME NEW d \in Cabinet, listener'[d]
          PROVE  state'[d] = "LISTENING" /\ port'[Site[d]] = d
      <3>1. CASE d = c
        BY <1>4, <2>1, <3>1 DEF LeaveStep, TypeOK
      <3>2. CASE d # c
        <4>1. /\ state'[d] = "LISTENING" /\ port[Site[d]] = d /\ Site[d] \in PC
          BY <2>1, <3>2, TypeFacts DEF LeaveStep, Shape, PortOwned
        <4>2. d # None
          BY RolesAssumption
        <4> QED
          BY <1>5, <3>2, <4>1, <4>2
      <3> QED
        BY <3>1, <3>2
    <2>2. ASSUME NEW p \in PC, port'[p] # None PROVE p = Site[port'[p]]
      BY <1>5, <2>2 DEF Shape, PortOwned
    <2> QED
      BY <2>1, <2>2 DEF PortOwned
  <1> QED
    BY <1>6, <1>7, <1>8, <1>9, <1>10, <1>11 DEF Shape

-----------------------------------------------------------------------------
(* The invariant, from its parts.                                          *)

\* What TypeOK says of the variables that are no sockets.
RestOK ==
    /\ state \in [Cabinet -> {"IDLE", "CONNECTING", "CLIENT", "LISTENING"}]
    /\ hold \in [Cabinet -> BOOLEAN]
    /\ listener \in [Cabinet -> BOOLEAN]
    /\ rx \in [Cabinet -> Seq(Byte)]
    /\ tx \in [Cabinet -> Seq(Byte)]
    /\ at \in [Cabinet -> Out .. MaxPeers]
    /\ \A c \in Cabinet : Len(rx[c]) < RxSize /\ Len(tx[c]) <= TxSize
    /\ sent \in [Cabinet -> 0 .. MaxBytes]
    /\ faults \in 0 .. MaxFaults
SocketsOK ==
    /\ peer \in [Cabinet -> Seq(Conn)]
    /\ \A c \in Cabinet : Len(peer[c]) <= MaxPeers
    /\ net \in [Conn -> Connection]
    /\ \A k \in Conn : Sound(k, net[k])
    /\ port \in [PC -> Cabinet \cup {None}]
    /\ backlog \in [PC -> Seq(Conn)]
    /\ \A p \in PC : Len(backlog[p]) <= Backlog

LEMMA InvIs == Inv <=> RestOK /\ SocketsOK /\ Shape /\ DrainsSettled
  <1>1. TypeOK /\ MarkedBytes <=> RestOK /\ SocketsOK
    <2>1. ASSUME TypeOK, MarkedBytes PROVE RestOK /\ SocketsOK
      BY <2>1 DEF TypeOK, MarkedBytes, RestOK, SocketsOK, Sound
    <2>2. ASSUME RestOK, SocketsOK PROVE TypeOK /\ MarkedBytes
      BY <2>2 DEF TypeOK, MarkedBytes, RestOK, SocketsOK, Sound
    <2> QED
      BY <2>1, <2>2
  <1> QED
    BY <1>1 DEF Inv

LEMMA TableStepInv ==
    ASSUME Inv, NEW c \in Cabinet, TableStep(c), RestOK', DrainsSettled'
    PROVE  Inv'
  <1>1. RestOK /\ SocketsOK /\ Shape /\ TypeOK
    BY InvIs DEF Inv
  <1>2. Shape'
    BY <1>1, TableStepShape
  <1>3. SocketsOK'
    <2>1. ASSUME NEW d \in Cabinet PROVE Len(peer'[d]) <= MaxPeers
      <3>1. Len(peer[c]) <= MaxPeers /\ Len(peer[d]) <= MaxPeers /\ MaxPeers \in Nat
        BY <1>1, BoundsAssumption DEF SocketsOK
      <3>2. Len(peer'[c]) \in Nat /\ Len(peer[c]) \in Nat
        BY <1>1, LenProperties DEF TableStep, Drops, SocketsOK
      <3> QED
        BY <3>1, <3>2 DEF TableStep, Drops
    <2> QED
      BY <1>1, <2>1 DEF SocketsOK, TableStep, Drops
  <1>4. (RestOK /\ SocketsOK /\ Shape /\ DrainsSettled)'
    BY <1>2, <1>3
  <1> QED
    BY <1>4, InvIs, PTL

LEMMA LeaveStepInv ==
    ASSUME Inv, NEW c \in Cabinet, LeaveStep(c), RestOK', DrainsSettled'
    PROVE  Inv'
  <1>1. RestOK /\ SocketsOK /\ Shape /\ TypeOK /\ MarkedBytes
    BY InvIs DEF Inv
  <1>2. Shape'
    BY <1>1, LeaveStepShape
  <1>3. net' \in [Conn -> Connection] /\ \A k \in Conn : Sound(k, net'[k])
    BY <1>1, ClosedSocketsAre DEF LeaveStep
  <1>4. peer' \in [Cabinet -> Seq(Conn)] /\ \A d \in Cabinet : Len(peer'[d]) <= MaxPeers
    BY <1>1, EmptyIs, BoundsAssumption DEF LeaveStep, SocketsOK
  <1>5. port' \in [PC -> Cabinet \cup {None}]
    BY <1>1 DEF LeaveStep, SocketsOK, CloseListener
  <1>6. backlog' \in [PC -> Seq(Conn)] /\ \A p \in PC : Len(backlog'[p]) <= Backlog
    <2>1. backlog' = backlog \/ backlog' = [backlog EXCEPT ![Site[c]] = <<>>]
      BY DEF LeaveStep, CloseListener
    <2>2. /\ backlog \in [PC -> Seq(Conn)] /\ \A p \in PC : Len(backlog[p]) <= Backlog
          /\ <<>> \in Seq(Conn) /\ Len(<<>>) <= Backlog
      BY <1>1, EmptyIs, BoundsAssumption DEF SocketsOK
    <2>3. CASE backlog' = [backlog EXCEPT ![Site[c]] = <<>>]
      <3>1. backlog' \in [PC -> Seq(Conn)]
        BY <2>2, <2>3
      <3>2. \A p \in PC : backlog'[p] = backlog[p] \/ backlog'[p] = <<>>
        BY <2>2, <2>3
      <3> QED
        BY <2>2, <3>1, <3>2
    <2> QED
      BY <2>1, <2>2, <2>3
  <1>7. SocketsOK'
    BY <1>3, <1>4, <1>5, <1>6 DEF SocketsOK
  <1>8. (RestOK /\ SocketsOK /\ Shape /\ DrainsSettled)'
    BY <1>2, <1>7
  <1> QED
    BY <1>8, InvIs, PTL

LEMMA StaysDrops ==
    ASSUME Inv, NEW c \in Cabinet, UNCHANGED <<net, peer>>
    PROVE  Drops(c)
  <1>1. SocketsOK /\ Injective(peer[c]) /\ Len(peer[c]) \in Nat
    BY InvIs, TypeFacts DEF Inv, Shape, Once
  <1>2. \A k \in Conn : OnlyDrops(c, k, net'[k], peer'[c])
    BY DEF OnlyDrops, SameHolders, Tab
  <1> QED
    BY <1>1, <1>2 DEF SocketsOK, Drops, Tab

\* The network moves: every socket stays whose it is.
LEMMA WireInv ==
    ASSUME Inv, UNCHANGED <<cabVars, port, backlog, sent, heard>>, faults' \in 0 .. MaxFaults,
           net' \in [Conn -> Connection],
           \A k \in Conn : Sound(k, net'[k]) /\ SameHolders(net[k], net'[k])
    PROVE  Inv'
  <1>1. RestOK' /\ DrainsSettled'
    BY InvIs DEF Inv, RestOK, DrainsSettled, cabVars
  <1>2. SocketsOK /\ Shape
    BY InvIs DEF Inv
  <1>3. CASE Cabinet = {}
    <2>1. PC = {}
      BY <1>3 DEF PC
    <2>2. SynUnserved'
      BY <1>2, <1>3 DEF Shape, SynUnserved, SameHolders
    <2>3. Shape'
      BY <1>3, <2>1, <2>2
         DEF Shape, PeersMatchState, DialledIsPeer, QueuedIsServed, Once, PortOwned
    <2>4. SocketsOK'
      BY <1>2 DEF SocketsOK, cabVars
    <2>5. (RestOK /\ SocketsOK /\ Shape /\ DrainsSettled)'
      BY <1>1, <2>3, <2>4
    <2> QED
      BY <2>5, InvIs, PTL
  <1>4. ASSUME NEW c \in Cabinet PROVE Inv'
    <2>1. Injective(peer[c]) /\ Len(peer[c]) \in Nat
      BY TypeFacts DEF Inv, Shape, Once
    <2>2. Drops(c)
      BY <1>2, <2>1 DEF SocketsOK, Drops, OnlyDrops, Tab, cabVars
    <2>3. TableStep(c)
      BY <2>2 DEF TableStep, cabVars
    <2> QED
      BY <1>1, <2>3, TableStepInv
  <1> QED
    BY <1>3, <1>4

-----------------------------------------------------------------------------
(* What a cabinet sends.                                                   *)

LEMMA StampedIs ==
    ASSUME Inv, NEW c \in Cabinet
    PROVE  /\ Stamped(c) \in Seq(Byte)
           /\ \A b \in SeqMembers(Stamped(c)) :
                b.via = IF state[c] = "CLIENT" /\ peer[c] # <<>> THEN peer[c][1] ELSE None
  <1> DEFINE v == IF state[c] = "CLIENT" /\ peer[c] # <<>> THEN peer[c][1] ELSE None
             n == Len(tx[c])
  <1>1. tx[c] \in Seq(Byte) /\ peer[c] \in Seq(Conn)
    BY DEF Inv, TypeOK
  <1>2. n \in Nat /\ DOMAIN tx[c] = 1 .. n /\ \A i \in 1 .. n : tx[c][i] \in Byte
    BY <1>1, LenProperties
  <1>3. v \in Conn \cup {None}
    <2>1. peer[c] # <<>> => peer[c][1] \in Conn
      BY <1>1, EmptySeq, LenProperties
    <2> QED
      BY <2>1
  <1>4. Stamped(c) = [i \in 1 .. n |-> [tx[c][i] EXCEPT !.via = v]]
    BY <1>2 DEF Stamped
  <1> HIDE DEF v, n
  <1>5. \A i \in 1 .. n : [tx[c][i] EXCEPT !.via = v] \in Byte /\ [tx[c][i] EXCEPT !.via = v].via = v
    BY <1>2, <1>3 DEF Byte
  <1>6. Stamped(c) \in Seq(Byte) /\ DOMAIN Stamped(c) = 1 .. n
    BY <1>2, <1>4, <1>5
  <1>7. \A b \in SeqMembers(Stamped(c)) : b.via = v
    BY <1>4, <1>5, <1>6, ZenonT(40) DEF SeqMembers
  <1> QED
    BY <1>6, <1>7 DEF v

LEMMA FlushIs ==
    ASSUME Inv, NEW c \in Cabinet, FlushSockets(c)
    PROVE  Drops(c)
  <1>1. CASE tx[c] # <<>> /\ state[c] \in {"CLIENT", "LISTENING"}
    <2>1. /\ net' = SentNet(c, net, Stamped(c), None)
          /\ peer' = [peer EXCEPT ![c] = SentTable(c, None)]
      BY <1>1 DEF FlushSockets
    <2>2. \A k \in Conn : Sound(k, net[k]) /\ SameEnds(net[k], net[k])
      BY InvIs DEF SocketsOK, SameEnds
    <2>3. TypeOK /\ Stamped(c) \in Seq(Byte) /\ peer[c] \in Seq(Conn) /\ peer \in [Cabinet -> Seq(Conn)]
      BY StampedIs DEF Inv, TypeOK
    <2>4. ASSUME NEW k \in Tab(c), k # None
          PROVE  IF IsClient(net[k], c) THEN \A b \in SeqMembers(Stamped(c)) : b.via = k
                                        ELSE \A b \in SeqMembers(Stamped(c)) : b.via # k
      <3>1. k \in Conn /\ peer[c] # <<>>
        BY <2>3, MembersIs, EmptyIs DEF Tab
      <3>2. CASE state[c] = "CLIENT"
        <4>1. IsClient(net[k], c) /\ Len(peer[c]) <= 1
          BY <3>2 DEF Inv, Shape, PeersMatchState, Calling
        <4>2. peer[c][1] = k
          <5>1. PICK i \in 1 .. Len(peer[c]) : peer[c][i] = k
            BY <2>3, MembersIs DEF Tab
          <5>2. Len(peer[c]) \in Nat
            BY <2>3, LenProperties
          <5> QED
            BY <4>1, <5>1, <5>2
        <4> QED
          BY <3>1, <3>2, <4>1, <4>2, StampedIs
      <3>3. CASE state[c] = "LISTENING"
        <4>1. ~IsClient(net[k], c)
          BY <3>1, <3>3 DEF Inv, Shape, DialledIsPeer, Calling
        <4> QED
          BY <2>4, <3>3, <4>1, StampedIs
      <3> QED
        BY <1>1, <3>2, <3>3
    <2>5. /\ SentNet(c, net, Stamped(c), None) \in [Conn -> Connection]
          /\ SentTable(c, None) \in Seq(Conn)
          /\ Len(SentTable(c, None)) <= Len(peer[c])
          /\ SeqMembers(SentTable(c, None)) \subseteq Tab(c)
          /\ Injective(peer[c]) => Injective(SentTable(c, None))
          /\ \A k \in Conn :
               /\ Sound(k, SentNet(c, net, Stamped(c), None)[k])
               /\ OnlyDrops(c, k, SentNet(c, net, Stamped(c), None)[k], SentTable(c, None))
      BY <2>2, <2>3, <2>4, SentIs
    <2>6. Injective(peer[c])
      BY DEF Inv, Shape, Once
    <2>7. peer'[c] = SentTable(c, None) /\ \A d \in Cabinet : d # c => peer'[d] = peer[d]
      BY <2>1, <2>3
    <2> QED
      BY <1>1, <2>1, <2>3, <2>5, <2>6, <2>7 DEF Drops
  <1>2. CASE ~(tx[c] # <<>> /\ state[c] \in {"CLIENT", "LISTENING"})
    BY <1>2, StaysDrops DEF FlushSockets
  <1> QED
    BY <1>1, <1>2

-----------------------------------------------------------------------------
(* The invariant is inductive: funlink_poll's switch.                      *)

LEMMA RestSets ==
    ASSUME RestOK, NEW c \in Cabinet,
           \/ state' = state
           \/ \E v \in {"IDLE", "CONNECTING", "CLIENT", "LISTENING"} : state' = [state EXCEPT ![c] = v],
           hold' = hold \/ \E v \in BOOLEAN : hold' = [hold EXCEPT ![c] = v],
           listener' = listener \/ \E v \in BOOLEAN : listener' = [listener EXCEPT ![c] = v],
           \/ rx' = rx
           \/ \E v \in Seq(Byte) : rx' = [rx EXCEPT ![c] = v] /\ Len(v) < RxSize,
           \/ tx' = tx
           \/ \E v \in Seq(Byte) : tx' = [tx EXCEPT ![c] = v] /\ Len(v) <= TxSize,
           at' = at \/ \E v \in Out .. MaxPeers : at' = [at EXCEPT ![c] = v],
           sent' = sent \/ \E v \in 0 .. MaxBytes : sent' = [sent EXCEPT ![c] = v],
           faults' \in 0 .. MaxFaults
    PROVE  RestOK'
  <1>1. state' \in [Cabinet -> {"IDLE", "CONNECTING", "CLIENT", "LISTENING"}]
    BY DEF RestOK
  <1>2. hold' \in [Cabinet -> BOOLEAN] /\ listener' \in [Cabinet -> BOOLEAN]
    BY DEF RestOK
  <1>3. rx' \in [Cabinet -> Seq(Byte)] /\ \A d \in Cabinet : Len(rx'[d]) < RxSize
    BY ZenonT(40) DEF RestOK
  <1>4. tx' \in [Cabinet -> Seq(Byte)] /\ \A d \in Cabinet : Len(tx'[d]) <= TxSize
    BY ZenonT(40) DEF RestOK
  <1>5. at' \in [Cabinet -> Out .. MaxPeers]
    BY DEF RestOK
  <1>6. sent' \in [Cabinet -> 0 .. MaxBytes]
    BY DEF RestOK
  <1> QED
    BY <1>1, <1>2, <1>3, <1>4, <1>5, <1>6 DEF RestOK

LEMMA Resets ==
    /\ \A c, x : x = [tx EXCEPT ![c] = <<>>] =>
         \E v \in Seq(Byte) : x = [tx EXCEPT ![c] = v] /\ Len(v) <= TxSize
    /\ \A c, x : x = [rx EXCEPT ![c] = <<>>] =>
         \E v \in Seq(Byte) : x = [rx EXCEPT ![c] = v] /\ Len(v) < RxSize
    /\ 0 \in Out .. MaxPeers
  <1>1. /\ <<>> \in Seq(Byte) /\ Len(<<>>) <= TxSize /\ Len(<<>>) < RxSize
        /\ 0 \in Out .. MaxPeers
    BY EmptyIs, BoundsAssumption DEF Out
  <1> QED
    BY <1>1

LEMMA PollInv ==
    ASSUME Inv, NEW c \in Cabinet,
           PollHeld(c) \/ PollTryFails(c) \/ PollClient(c) \/ HoldExpires(c) \/ DrainQuiet(c)
    PROVE  Inv' /\ TableStep(c)
  <1>1. TypeOK /\ RestOK /\ DrainsSettled /\ Shape
    BY InvIs DEF Inv
  <1>2. /\ UNCHANGED <<state, listener, peer, rx, tx, netVars, ghostVars>>
        /\ hold' = hold \/ \E b \in BOOLEAN : hold' = [hold EXCEPT ![c] = b]
        /\ \/ at' = at
           \/ at' = [at EXCEPT ![c] = 0]
           \/ at' = [at EXCEPT ![c] = Len(peer[c])] /\ state[c] = "CLIENT"
           \/ at' = [at EXCEPT ![c] = @ - 1] /\ at[c] > 0
        /\ state[c] = "CONNECTING" => at' = at \/ at[c] > 0
    BY DEF PollHeld, PollTryFails, PollClient, HoldExpires, DrainQuiet, NextSlot
  <1>3. Len(peer[c]) \in Nat /\ Len(peer[c]) <= MaxPeers /\ MaxPeers \in Nat /\ at[c] \in Out .. MaxPeers
    BY <1>1, TypeFacts, BoundsAssumption DEF TypeOK
  <1>4. RestOK'
    <2>1. hold' \in [Cabinet -> BOOLEAN]
      BY <1>1, <1>2 DEF RestOK
    <2>2. at \in [Cabinet -> Out .. MaxPeers]
      BY <1>1 DEF RestOK
    <2>3. \E i \in Out .. MaxPeers : at' = [at EXCEPT ![c] = i]
      BY <1>2, <1>3, <2>2 DEF Out
    <2>4. at' \in [Cabinet -> Out .. MaxPeers]
      BY <2>2, <2>3
    <2> QED
      BY <1>1, <1>2, <2>1, <2>4 DEF RestOK, ghostVars
  <1>5. DrainsSettled'
    BY <1>1, <1>2, <1>3 DEF DrainsSettled, RestOK, Out
  <1>6. TableStep(c)
    BY <1>2, StaysDrops DEF TableStep, netVars
  <1> QED
    BY <1>4, <1>5, <1>6, TableStepInv

LEMMA ListensInv ==
    ASSUME Inv, NEW c \in Cabinet, PollHostListens(c)
    PROVE  Inv' /\ LeaveStep(c)
  <1>1. TypeOK /\ RestOK /\ DrainsSettled /\ Shape /\ MaxPeers \in Nat
    BY InvIs, BoundsAssumption DEF Inv
  <1>2. state[c] = "IDLE" /\ peer[c] = <<>> /\ ~listener[c] /\ Site[c] \in PC
    BY <1>1, TypeFacts DEF PollHostListens, Shape, PeersMatchState, PortOwned
  <1>3. RestOK'
    BY <1>1 DEF PollHostListens, Bind, RestOK, Out, ghostVars
  <1>4. DrainsSettled'
    BY <1>1 DEF PollHostListens, Bind, RestOK, DrainsSettled
  <1>5. net' = ClosedSockets(c)
    BY <1>1, <1>2, EmptyIs DEF PollHostListens, ClosedSockets, TypeOK
  <1>6. peer' = [peer EXCEPT ![c] = <<>>]
    BY <1>1, <1>2 DEF PollHostListens, TypeOK
  <1>7. LeaveStep(c)
    BY <1>1, <1>2, <1>5, <1>6 DEF LeaveStep, PollHostListens, Bind, RestOK
  <1> QED
    BY <1>3, <1>4, <1>7, LeaveStepInv

LEMMA GivesUpInv ==
    ASSUME Inv, NEW c \in Cabinet, PollListensInstead(c) \/ PollGivesUp(c)
    PROVE  Inv' /\ LeaveStep(c)
  <1>1. TypeOK /\ RestOK /\ DrainsSettled /\ Shape /\ MaxPeers \in Nat /\ TxSize \in Nat
    BY InvIs, BoundsAssumption DEF Inv
  <1>2. state[c] = "CONNECTING" /\ ~listener[c] /\ Site[c] \in PC
    BY <1>1, TypeFacts DEF PollListensInstead, PollGivesUp, ConnectFailed, Shape, PortOwned
  <1>a. /\ state' = [state EXCEPT ![c] = "LISTENING"] \/ state' = [state EXCEPT ![c] = "IDLE"]
        /\ hold' = [hold EXCEPT ![c] = FALSE] \/ hold' = [hold EXCEPT ![c] = TRUE]
        /\ listener' = [listener EXCEPT ![c] = TRUE] \/ listener' = listener
        /\ tx' = [tx EXCEPT ![c] = <<>>] /\ at' = [at EXCEPT ![c] = 0]
        /\ rx' = rx /\ sent' = sent /\ faults' = faults
    BY DEF PollListensInstead, PollGivesUp, ConnectFailed, Bind, ghostVars
  <1>3. RestOK'
    <2>1. faults' \in 0 .. MaxFaults
      BY <1>1, <1>a DEF RestOK
    <2>2. \E v \in {"IDLE", "CONNECTING", "CLIENT", "LISTENING"} : state' = [state EXCEPT ![c] = v]
      BY <1>a
    <2>3. /\ \E v \in BOOLEAN : hold' = [hold EXCEPT ![c] = v]
          /\ listener' = listener \/ \E v \in BOOLEAN : listener' = [listener EXCEPT ![c] = v]
      BY <1>a
    <2>4. \E v \in Seq(Byte) : tx' = [tx EXCEPT ![c] = v] /\ Len(v) <= TxSize
      BY <1>a, Resets
    <2>6. \E v \in Out .. MaxPeers : at' = [at EXCEPT ![c] = v]
      <3>1. 0 \in Out .. MaxPeers
        BY Resets
      <3> QED
        BY <1>a, <3>1
    <2> QED
      BY <1>1, <1>a, <2>1, <2>2, <2>3, <2>4, <2>6, RestSets
  <1>4. DrainsSettled'
    BY <1>1, <1>a DEF RestOK, DrainsSettled
  <1>5. LeaveStep(c)
    BY <1>1, <1>2
       DEF LeaveStep, PollListensInstead, PollGivesUp, ConnectFailed, Bind, RestOK, CloseListener
  <1> QED
    BY <1>3, <1>4, <1>5, LeaveStepInv

LEMMA LostInv ==
    ASSUME Inv, NEW c \in Cabinet, DrainClientLost(c) \/ Restart(c)
    PROVE  Inv' /\ LeaveStep(c)
  <1>1. /\ TypeOK /\ RestOK /\ DrainsSettled /\ Shape
        /\ MaxPeers \in Nat /\ TxSize \in Nat /\ RxSize \in Nat \ {0} /\ MaxFaults \in Nat
    BY InvIs, BoundsAssumption DEF Inv
  <1>a. /\ state' = [state EXCEPT ![c] = "IDLE"]
        /\ hold' = [hold EXCEPT ![c] = FALSE] \/ hold' = [hold EXCEPT ![c] = TRUE]
        /\ listener' = [listener EXCEPT ![c] = FALSE]
        /\ tx' = [tx EXCEPT ![c] = <<>>] /\ (at' = [at EXCEPT ![c] = 0] \/ at' = at)
        /\ rx' = rx \/ rx' = [rx EXCEPT ![c] = <<>>]
        /\ sent' = sent
    BY DEF DrainClientLost, Restart, ghostVars
  <1>b. faults' = faults \/ (faults' = faults + 1 /\ faults < MaxFaults)
    BY DEF DrainClientLost, Restart, ghostVars
  <1>2. RestOK'
    <2>1. faults' \in 0 .. MaxFaults
      BY <1>1, <1>b DEF RestOK
    <2>2. \E v \in {"IDLE", "CONNECTING", "CLIENT", "LISTENING"} : state' = [state EXCEPT ![c] = v]
      BY <1>a
    <2>3. /\ \E v \in BOOLEAN : hold' = [hold EXCEPT ![c] = v]
          /\ \E v \in BOOLEAN : listener' = [listener EXCEPT ![c] = v]
      BY <1>a
    <2>4. \E v \in Seq(Byte) : tx' = [tx EXCEPT ![c] = v] /\ Len(v) <= TxSize
      BY <1>a, Resets
    <2>6. at' = at \/ \E v \in Out .. MaxPeers : at' = [at EXCEPT ![c] = v]
      <3>1. 0 \in Out .. MaxPeers
        BY Resets
      <3> QED
        BY <1>a, <3>1
    <2>5. rx' = rx \/ \E v \in Seq(Byte) : rx' = [rx EXCEPT ![c] = v] /\ Len(v) < RxSize
      BY <1>a, Resets
    <2> QED
      BY <1>1, <1>a, <2>1, <2>2, <2>3, <2>4, <2>5, <2>6, RestSets
  <1>3. DrainsSettled'
    BY <1>1 DEF DrainClientLost, Restart, RestOK, DrainsSettled, Out
  <1>4. LeaveStep(c)
    BY <1>1 DEF LeaveStep, DrainClientLost, Restart, RestOK
  <1> QED
    BY <1>2, <1>3, <1>4, LeaveStepInv

LEMMA DialsInv ==
    ASSUME Inv, NEW c \in Cabinet, PollDials(c)
    PROVE  Inv'
  <1> USE DEF Calling
  <1>1. /\ RestOK /\ DrainsSettled /\ Shape /\ SocketsOK /\ TypeOK
        /\ \A d \in Cabinet : Tab(d) \subseteq Conn
        /\ \A p \in PC : SeqMembers(backlog[p]) \subseteq Conn
    BY InvIs, TypeFacts DEF Inv
  <1>2. PICK k \in Conn :
          /\ net[k] = FreeConn
          /\ net' = [net EXCEPT ![k] = [FreeConn EXCEPT !.cli = c, !.c = "syn"]]
          /\ peer' = [peer EXCEPT ![c] = <<k>>]
    BY DEF PollDials
  <1> DEFINE r == [FreeConn EXCEPT !.cli = c, !.c = "syn"]
  <1>3. /\ r.cli = c /\ r.srv = None /\ r.c = "syn" /\ r.s = "closed" /\ r.up = <<>> /\ r.dn = <<>>
        /\ r \in Connection
    BY EmptyIs DEF FreeConn, Connection, EndState, Shut
  <1>4. Sound(k, r)
    BY <1>3, EmptyIs, BoundsAssumption DEF Sound, Marked
  <1>5. net'[k] = r /\ \A j \in Conn : j # k => net'[j] = net[j]
    BY <1>1, <1>2 DEF SocketsOK
  <1> HIDE DEF r
  <1>6. /\ \A d \in Cabinet : IsClient(r, d) <=> d = c
        /\ \A d \in Cabinet : ~Served(r, d) /\ ~Served(net[k], d) /\ ~IsClient(net[k], d)
    BY <1>2, <1>3 DEF IsClient, Served, FreeConn, Shut
  <1>7. /\ <<k>> \in Seq(Conn) /\ Len(<<k>>) = 1 /\ SeqMembers(<<k>>) = {k} /\ Injective(<<k>>)
    BY DEF SeqMembers, Injective
  <1>8. /\ state[c] = "IDLE" /\ at[c] = Out /\ UNCHANGED <<listener, rx, tx, at, port, backlog, ghostVars>>
        /\ state' = [state EXCEPT ![c] = "CONNECTING"] /\ hold' = [hold EXCEPT ![c] = TRUE]
    BY DEF PollDials, Polling
  <1>9. /\ state'[c] = "CONNECTING" /\ peer'[c] = <<k>> /\ Tab(c)' = {k}
        /\ \A d \in Cabinet \ {c} : state'[d] = state[d] /\ peer'[d] = peer[d] /\ Tab(d)' = Tab(d)
    BY <1>1, <1>2, <1>7, <1>8 DEF RestOK, SocketsOK, Tab
  \* Nobody has k.
  <1>10. ASSUME NEW d \in Cabinet \ {c} PROVE k \notin Tab(d)
    BY <1>1, <1>6, EmptyIs DEF Shape, PeersMatchState, RestOK, Tab
  <1>11. ASSUME NEW p \in PC PROVE k \notin SeqMembers(backlog[p])
    <2> SUFFICES ASSUME k \in SeqMembers(backlog[p]) PROVE FALSE
      OBVIOUS
    <2>1. Served(net[k], port[p]) /\ port[p] \in Cabinet
      BY <1>1, TypeFacts DEF Shape, QueuedIsServed
    <2> QED
      BY <1>6, <2>1
  <1>12. PeersMatchState'
    <2>1. /\ \A d \in Cabinet \ {c} : Tab(d) \subseteq Conn \ {k}
          /\ \A j \in Conn \ {k} : net'[j] = net[j]
      BY <1>1, <1>5, <1>10
    <2>2. PeersMatchState
      BY <1>1 DEF Shape
    <2> QED
      BY <1>5, <1>6, <1>7, <1>9, <2>1, <2>2 DEF PeersMatchState
  <1>13. DialledIsPeer'
    BY <1>1, <1>5, <1>6, <1>8, <1>9 DEF Shape, DialledIsPeer
  <1>14. QueuedIsServed'
    <2>1. \A p \in PC : \A j \in SeqMembers(backlog[p]) : net'[j] = net[j]
      BY <1>1, <1>5, <1>11
    <2> QED
      BY <1>1, <1>8, <2>1 DEF Shape, QueuedIsServed
  <1>15. Once'
    BY <1>1, <1>7, <1>8, <1>9 DEF Shape, Once
  <1>16. SynUnserved'
    BY <1>1, <1>3, <1>5 DEF Shape, SynUnserved, Shut
  <1>17. PortOwned'
    BY <1>1, <1>8, <1>9 DEF Shape, PortOwned
  <1>18. SocketsOK'
    <2>1. net' \in [Conn -> Connection] /\ \A j \in Conn : Sound(j, net'[j])
      BY <1>1, <1>2, <1>3, <1>4, <1>5 DEF SocketsOK, r
    <2>2. peer' \in [Cabinet -> Seq(Conn)] /\ \A d \in Cabinet : Len(peer'[d]) <= MaxPeers
      BY <1>1, <1>2, <1>7, <1>9, BoundsAssumption DEF SocketsOK
    <2> QED
      BY <1>1, <1>8, <2>1, <2>2 DEF SocketsOK
  <1>19. RestOK' /\ DrainsSettled'
    BY <1>1, <1>8 DEF RestOK, DrainsSettled, ghostVars
  <1>20. (RestOK /\ SocketsOK /\ Shape /\ DrainsSettled)'
    BY <1>12, <1>13, <1>14, <1>15, <1>16, <1>17, <1>18, <1>19 DEF Shape
  <1> QED
    BY <1>20, InvIs, PTL

LEMMA JoinsInv ==
    ASSUME Inv, NEW c \in Cabinet, PollJoins(c)
    PROVE  Inv'
  <1> USE DEF Calling
  <1>1. RestOK /\ DrainsSettled /\ Shape /\ SocketsOK /\ MaxPeers \in Nat \ {0}
    BY InvIs, BoundsAssumption DEF Inv
  <1>2. /\ state[c] = "CONNECTING" /\ state' = [state EXCEPT ![c] = "CLIENT"]
        /\ hold' = [hold EXCEPT ![c] = FALSE] /\ at' = [at EXCEPT ![c] = 1]
        /\ UNCHANGED <<listener, peer, rx, tx, netVars, ghostVars>>
    BY DEF PollJoins
  <1>3. state'[c] = "CLIENT" /\ \A d \in Cabinet : d # c => state'[d] = state[d]
    BY <1>1, <1>2 DEF RestOK
  <1>4. \A d \in Cabinet : Tab(d)' = Tab(d)
    BY <1>2 DEF Tab
  <1>5. PeersMatchState'
    <2> SUFFICES ASSUME NEW d \in Cabinet
                 PROVE  /\ state'[d] = "LISTENING" => \A k \in Tab(d) : Served(net[k], d)
                        /\ Calling(d)' => \A k \in Tab(d) : IsClient(net[k], d)
                        /\ state'[d] = "IDLE" => peer[d] = <<>>
                        /\ state'[d] = "CONNECTING" => Len(peer[d]) = 1
                        /\ state'[d] = "CLIENT" => Len(peer[d]) <= 1
      BY <1>2, <1>4 DEF PeersMatchState, netVars
    <2>1. /\ state[d] = "LISTENING" => \A k \in Tab(d) : Served(net[k], d)
          /\ Calling(d) => \A k \in Tab(d) : IsClient(net[k], d)
          /\ state[d] = "IDLE" => peer[d] = <<>>
          /\ state[d] = "CONNECTING" => Len(peer[d]) = 1
          /\ state[d] = "CLIENT" => Len(peer[d]) <= 1
      BY <1>1 DEF Shape, PeersMatchState
    <2>2. CASE d = c
      <3>1. state[c] = "CONNECTING" /\ state'[c] = "CLIENT"
        BY <1>2, <1>3
      <3>2. Len(peer[d]) = 1 /\ \A k \in Tab(d) : IsClient(net[k], d)
        BY <2>1, <2>2, <3>1
      <3> QED
        BY <2>2, <3>1, <3>2
    <2>3. CASE d # c
      BY <1>3, <2>1, <2>3
    <2> QED
      BY <2>2, <2>3
  <1>6. DialledIsPeer'
    BY <1>1, <1>2, <1>3, <1>4 DEF Shape, DialledIsPeer, netVars
  <1>7. QueuedIsServed' /\ SynUnserved'
    BY <1>1, <1>2 DEF Shape, QueuedIsServed, SynUnserved, netVars
  <1>8. Once' /\ PortOwned'
    BY <1>1, <1>2, <1>3, <1>4 DEF Shape, Once, PortOwned, netVars
  <1>9. SocketsOK'
    BY <1>1, <1>2 DEF SocketsOK, netVars
  <1>10. RestOK'
    <2>1. 1 \in Out .. MaxPeers
      BY <1>1 DEF Out
    <2> QED
      BY <1>1, <1>2, <2>1 DEF RestOK, ghostVars
  <1>11. DrainsSettled'
    BY <1>1, <1>2 DEF DrainsSettled, RestOK
  <1>12. (RestOK /\ SocketsOK /\ Shape /\ DrainsSettled)'
    BY <1>5, <1>6, <1>7, <1>8, <1>9, <1>10, <1>11 DEF Shape
  <1> QED
    BY <1>12, InvIs, PTL

\* Accepting moves the front of the queue to the end of the table.
LEMMA FrontAndRest ==
    ASSUME NEW T, NEW q \in Seq(T), Injective(q), NEW n \in 0 .. Len(q)
    PROVE  SeqMembers(SubSeq(q, 1, n)) \cap SeqMembers(SubSeq(q, n + 1, Len(q))) = {}
  <1> DEFINE f == SubSeq(q, 1, n)
             r == SubSeq(q, n + 1, Len(q))
             l == Len(q)
  <1>1. l \in Nat /\ DOMAIN q = 1 .. l /\ n \in Nat /\ \A i \in 1 .. l : q[i] \in T
    BY LenProperties
  <1>2. f \in Seq(T) /\ Len(f) = n /\ \A i \in 1 .. n : f[i] = q[i]
    <2>1. \A i \in 1 .. n : q[i] \in T
      BY <1>1
    <2>2. /\ f \in Seq(T) /\ Len(f) = IF 1 <= n THEN n - 1 + 1 ELSE 0
          /\ \A i \in 1 .. n - 1 + 1 : f[i] = q[1 + i - 1]
      BY <1>1, <2>1, SubSeqProperties
    <2> QED
      BY <1>1, <2>2
  <1>3. r \in Seq(T) /\ Len(r) = l - n /\ \A i \in 1 .. l - n : r[i] = q[n + i]
    <2>1. \A i \in n + 1 .. l : q[i] \in T
      BY <1>1
    <2>2. /\ r \in Seq(T) /\ Len(r) = IF n + 1 <= l THEN l - (n + 1) + 1 ELSE 0
          /\ \A i \in 1 .. l - (n + 1) + 1 : r[i] = q[(n + 1) + i - 1]
      BY <1>1, <2>1, SubSeqProperties
    <2> HIDE DEF r, l
    <2>3. n <= l
      BY DEF l
    <2>4. Len(r) = l - n
      BY <1>1, <2>2, <2>3
    <2>5. l - (n + 1) + 1 = l - n
      BY <1>1
    <2>6. \A i \in 1 .. l - n : r[i] = q[(n + 1) + i - 1]
      BY <2>2, <2>5
    <2>7. \A i \in 1 .. l - n : (n + 1) + i - 1 = n + i
      BY <1>1
    <2> QED
      BY <2>2, <2>4, <2>6, <2>7
  <1> HIDE DEF f, r, l
  <1>4. DOMAIN f = 1 .. n /\ DOMAIN r = 1 .. l - n
    BY <1>1, <1>2, <1>3, LenProperties
  <1>5. ASSUME NEW i \in 1 .. n, NEW j \in 1 .. l - n PROVE f[i] # r[j]
    <2>1. i \in 1 .. l /\ n + j \in 1 .. l /\ i # n + j
      BY <1>1
    <2>2. q[i] # q[n + j]
      BY <1>1, <2>1 DEF Injective
    <2> QED
      BY <1>2, <1>3, <2>2
  <1>6. SeqMembers(f) \cap SeqMembers(r) = {}
    BY <1>4, <1>5 DEF SeqMembers
  <1> QED
    BY <1>6 DEF f, r, l

LEMMA AcceptsInv ==
    ASSUME Inv, NEW c \in Cabinet, PollAccepts(c)
    PROVE  Inv'
  <1> USE DEF Calling
  <1>1. /\ RestOK /\ DrainsSettled /\ Shape /\ SocketsOK /\ TypeOK /\ Site[c] \in PC
        /\ MaxPeers \in Nat /\ Backlog \in Nat /\ peer[c] \in Seq(Conn) /\ Len(peer[c]) \in Nat
        /\ Len(peer[c]) <= MaxPeers
    BY InvIs, TypeFacts, BoundsAssumption DEF Inv, SocketsOK
  <1> DEFINE queue == IF listener[c] THEN backlog[Site[c]] ELSE <<>>
             room == MaxPeers - Len(peer[c])
             n == IF Len(queue) <= room THEN Len(queue) ELSE room
             front == SubSeq(queue, 1, n)
             rest == SubSeq(queue, n + 1, Len(queue))
  <1>2. /\ state[c] = "LISTENING" /\ at[c] = Out
        /\ peer' = [peer EXCEPT ![c] = @ \o front]
        /\ backlog' = IF listener[c] THEN [backlog EXCEPT ![Site[c]] = rest] ELSE backlog
        /\ at' = [at EXCEPT ![c] = Len(peer'[c])]
        /\ UNCHANGED <<state, hold, listener, rx, tx, net, port, ghostVars>>
    BY DEF PollAccepts, Polling, DrainFrom
  <1>3. queue \in Seq(Conn) /\ Injective(queue) /\ Len(queue) \in Nat
    BY <1>1, EmptyIs, LenProperties DEF SocketsOK, Shape, Once
  <1>4. listener[c] => port[Site[c]] = c /\ Len(queue) <= Backlog /\ queue = backlog[Site[c]]
    BY <1>1 DEF Shape, PortOwned, SocketsOK
  <1>5. \A k \in SeqMembers(queue) : k \in Conn /\ listener[c] /\ Served(net[k], c)
    <2>1. SeqMembers(queue) \subseteq Conn
      BY <1>3, MembersIs
    <2>2. SeqMembers(queue) # {} => listener[c]
      BY EmptyIs
    <2> QED
      BY <1>1, <1>4, <2>1, <2>2 DEF Shape, QueuedIsServed
  <1>6. \A p \in PC : Tab(c) \cap SeqMembers(backlog[p]) = {}
    BY <1>1, <1>2 DEF Shape, Once
  <1>7. Tab(c) \cap SeqMembers(queue) = {}
    BY <1>1, <1>6, EmptyIs
  <1> HIDE DEF queue
  <1>8. n \in 0 .. Len(queue) /\ Len(peer[c]) + n <= MaxPeers
    <2>1. MaxPeers \in Nat /\ Len(peer[c]) \in Nat /\ Len(peer[c]) <= MaxPeers /\ Len(queue) \in Nat
      BY <1>1, <1>3
    <2>2. room \in Nat /\ Len(peer[c]) + room = MaxPeers
      BY <2>1
    <2> HIDE DEF room
    <2>3. CASE Len(queue) <= room
      BY <2>1, <2>2, <2>3
    <2>4. CASE ~(Len(queue) <= room)
      BY <2>1, <2>2, <2>4
    <2> QED
      BY <2>3, <2>4
  <1> HIDE DEF n
  <1>9. /\ front \in Seq(Conn) /\ Len(front) = n /\ SeqMembers(front) \subseteq SeqMembers(queue)
        /\ Injective(front)
    BY <1>3, <1>8, SubSeqIs
  <1>10. /\ rest \in Seq(Conn) /\ Len(rest) <= Len(queue) /\ SeqMembers(rest) \subseteq SeqMembers(queue)
         /\ Injective(rest)
    <2>1. n + 1 \in Nat \ {0} /\ Len(queue) \in 0 .. Len(queue)
      BY <1>3, <1>8
    <2>2. /\ rest \in Seq(Conn)
          /\ Len(rest) = IF n + 1 <= Len(queue) THEN Len(queue) - (n + 1) + 1 ELSE 0
          /\ SeqMembers(rest) \subseteq SeqMembers(queue)
          /\ Injective(queue) => Injective(rest)
      BY <1>3, <2>1, SubSeqIs
    <2> QED
      BY <1>3, <1>8, <2>2
  <1>11. SeqMembers(front) \cap SeqMembers(rest) = {}
    BY <1>3, <1>8, FrontAndRest
  <1> HIDE DEF front, rest
  <1>12. /\ peer[c] \o front \in Seq(Conn) /\ Len(peer[c] \o front) = Len(peer[c]) + n
         /\ SeqMembers(peer[c] \o front) = Tab(c) \cup SeqMembers(front)
         /\ Injective(peer[c] \o front)
    <2>1. Injective(peer[c]) /\ SeqMembers(peer[c]) \cap SeqMembers(front) = {}
      BY <1>1, <1>7, <1>9 DEF Shape, Once, Tab
    <2> QED
      BY <1>1, <1>9, <2>1, ConcatIs DEF Tab
  <1>13. /\ peer'[c] = peer[c] \o front /\ Tab(c)' = Tab(c) \cup SeqMembers(front)
         /\ \A d \in Cabinet \ {c} : peer'[d] = peer[d] /\ Tab(d)' = Tab(d)
    BY <1>1, <1>2, <1>12 DEF SocketsOK, Tab
  <1>14. \A p \in PC : \/ backlog'[p] = backlog[p] /\ ~(listener[c] /\ p = Site[c])
                       \/ backlog'[p] = rest /\ p = Site[c] /\ listener[c]
    BY <1>1, <1>2 DEF SocketsOK
  <1>15. ASSUME NEW p \in PC
         PROVE  SeqMembers(backlog'[p]) \subseteq SeqMembers(backlog[p]) /\ Injective(backlog'[p])
    BY <1>1, <1>4, <1>10, <1>14 DEF Shape, Once
  <1>16. PeersMatchState'
    <2>1. PeersMatchState
      BY <1>1 DEF Shape
    <2>2. \A k \in SeqMembers(front) : Served(net[k], c)
      BY <1>5, <1>9
    <2> QED
      BY <1>2, <1>13, <2>1, <2>2 DEF PeersMatchState
  <1>17. DialledIsPeer'
    BY <1>1, <1>2, <1>13 DEF Shape, DialledIsPeer
  <1>18. QueuedIsServed'
    BY <1>1, <1>2, <1>15 DEF Shape, QueuedIsServed
  <1>19. Once'
    <2>1. \A d \in Cabinet : Injective(peer'[d])
      BY <1>1, <1>12, <1>13 DEF Shape, Once
    <2>2. ASSUME NEW d \in Cabinet, NEW p \in PC, state[d] = "LISTENING"
          PROVE  Tab(d)' \cap SeqMembers(backlog'[p]) = {}
      <3>1. Tab(d) \cap SeqMembers(backlog'[p]) = {}
        BY <1>1, <1>15, <2>2 DEF Shape, Once
      <3>2. CASE d # c
        BY <1>13, <3>1, <3>2
      <3>3. CASE d = c
        <4>1. SeqMembers(front) \cap SeqMembers(backlog'[p]) = {}
          <5>1. CASE backlog'[p] = rest
            BY <1>11, <5>1
          <5>2. CASE backlog'[p] = backlog[p] /\ ~(listener[c] /\ p = Site[c])
            <6> SUFFICES ASSUME NEW k \in SeqMembers(front), k \in SeqMembers(backlog[p]) PROVE FALSE
              BY <5>2
            <6>1. listener[c] /\ net[k].srv = c
              BY <1>5, <1>9 DEF Served
            <6>2. port[p] # None /\ net[k].srv = port[p] /\ p = Site[port[p]]
              BY <1>1 DEF Shape, QueuedIsServed, PortOwned, Served
            <6> QED
              BY <5>2, <6>1, <6>2
          <5> QED
            BY <1>14, <5>1, <5>2
        <4> QED
          BY <1>13, <3>1, <3>3, <4>1
      <3> QED
        BY <3>2, <3>3
    <2> QED
      BY <1>2, <1>15, <2>1, <2>2 DEF Once
  <1>20. SynUnserved' /\ PortOwned'
    BY <1>1, <1>2 DEF Shape, SynUnserved, PortOwned
  <1>21. SocketsOK'
    <2>1. peer' \in [Cabinet -> Seq(Conn)] /\ \A d \in Cabinet : Len(peer'[d]) <= MaxPeers
      BY <1>1, <1>2, <1>8, <1>12, <1>13 DEF SocketsOK
    <2>2. backlog' \in [PC -> Seq(Conn)]
      BY <1>1, <1>2, <1>10 DEF SocketsOK
    <2>3. \A p \in PC : Len(backlog'[p]) <= Backlog
      <3>1. listener[c] => Len(rest) <= Backlog
        BY <1>1, <1>3, <1>4, <1>10, LenProperties
      <3> QED
        BY <1>1, <1>14, <3>1 DEF SocketsOK
    <2> QED
      BY <1>1, <1>2, <2>1, <2>2, <2>3 DEF SocketsOK
  <1>22. RestOK' /\ DrainsSettled'
    <2>1. Len(peer'[c]) \in Out .. MaxPeers
      BY <1>1, <1>8, <1>12, <1>13 DEF Out
    <2>2. at' \in [Cabinet -> Out .. MaxPeers]
      BY <1>1, <1>2, <2>1 DEF RestOK
    <2>3. RestOK'
      BY <1>1, <1>2, <2>2 DEF RestOK, ghostVars
    <2> QED
      BY <1>1, <1>2, <2>3 DEF RestOK, DrainsSettled
  <1>23. (RestOK /\ SocketsOK /\ Shape /\ DrainsSettled)'
    BY <1>16, <1>17, <1>18, <1>19, <1>20, <1>21, <1>22 DEF Shape
  <1> QED
    BY <1>23, InvIs, PTL

-----------------------------------------------------------------------------
(* The receive loop, the guest and the network.                            *)

\* The loop is at a peer of a settled cabinet.
LEMMA InSlotIs ==
    ASSUME Inv, NEW c \in Cabinet, at[c] > 0
    PROVE  /\ state[c] \in {"CLIENT", "LISTENING"}
           /\ at[c] \in 1 .. MaxPeers /\ at[c] - 1 \in Out .. MaxPeers
           /\ InSlot(c) = None <=> at[c] > Len(peer[c])
           /\ InSlot(c) # None =>
                /\ at[c] \in 1 .. Len(peer[c]) /\ InSlot(c) = peer[c][at[c]]
                /\ InSlot(c) \in Tab(c) /\ InSlot(c) \in Conn
  <1>1. /\ at[c] \in Out .. MaxPeers /\ peer[c] \in Seq(Conn) /\ MaxPeers \in Nat
        /\ state[c] \in {"IDLE", "CONNECTING", "CLIENT", "LISTENING"}
    BY BoundsAssumption DEF Inv, TypeOK
  <1>2. state[c] \in {"CLIENT", "LISTENING"}
    BY <1>1 DEF Inv, DrainsSettled, Out
  <1>3. at[c] \in 1 .. MaxPeers /\ at[c] - 1 \in Out .. MaxPeers
    BY <1>1 DEF Out
  <1>4. Len(peer[c]) \in Nat /\ \A i \in 1 .. Len(peer[c]) : peer[c][i] \in Tab(c) /\ peer[c][i] \in Conn
    BY <1>1, MembersIs DEF Tab
  <1>5. CASE at[c] <= Len(peer[c])
    <2>1. at[c] \in 1 .. Len(peer[c]) /\ InSlot(c) = peer[c][at[c]]
      BY <1>3, <1>4, <1>5 DEF InSlot
    <2>2. InSlot(c) \in Tab(c) /\ InSlot(c) \in Conn /\ InSlot(c) # None
      BY <1>4, <2>1, RolesAssumption
    <2> QED
      BY <1>2, <1>3, <1>4, <1>5, <2>1, <2>2
  <1>6. CASE ~(at[c] <= Len(peer[c]))
    <2>1. InSlot(c) = None
      BY <1>6 DEF InSlot
    <2> QED
      BY <1>2, <1>3, <1>4, <1>6, <2>1
  <1> QED
    BY <1>5, <1>6

\* at moves down by one, and what else a step of the loop leaves as it was.
LEMMA LoopRest ==
    ASSUME Inv, NEW c \in Cabinet, at[c] > 0, NextSlot(c),
           UNCHANGED <<state, hold, tx, ghostVars>>,
           listener' = listener \/ listener' = [listener EXCEPT ![c] = FALSE],
           \/ rx' = rx
           \/ \E v \in Seq(Byte) : rx' = [rx EXCEPT ![c] = v] /\ Len(v) < RxSize
    PROVE  RestOK' /\ DrainsSettled'
  <1>1. RestOK /\ DrainsSettled
    BY InvIs DEF Inv
  <1>2. at' = [at EXCEPT ![c] = at[c] - 1] /\ at[c] - 1 \in Out .. MaxPeers /\ at[c] \in 1 .. MaxPeers
    BY InSlotIs DEF NextSlot
  <1>3. faults' \in 0 .. MaxFaults /\ state' = state /\ hold' = hold /\ tx' = tx /\ sent' = sent
    BY <1>1 DEF RestOK, ghostVars
  <1>4. listener' = listener \/ \E v \in BOOLEAN : listener' = [listener EXCEPT ![c] = v]
    OBVIOUS
  <1>5. \E v \in Out .. MaxPeers : at' = [at EXCEPT ![c] = v]
    BY <1>2
  <1>6. RestOK'
    BY <1>1, <1>3, <1>4, <1>5, RestSets
  <1>7. state[c] \in {"CLIENT", "LISTENING"}
    BY InSlotIs
  <1>8. DrainsSettled'
    BY <1>1, <1>2, <1>3, <1>7 DEF DrainsSettled, RestOK
  <1> QED
    BY <1>6, <1>8

LEMMA TakenIs ==
    ASSUME NEW k \in Conn, NEW r, Sound(k, r), NEW c \in Cabinet,
           NEW m \in 1 .. Len(Inbound(r, c)),
           NEW s, s = IF IsClient(r, c)
                      THEN [r EXCEPT !.dn = SubSeq(Inbound(r, c), m + 1, Len(Inbound(r, c)))]
                      ELSE [r EXCEPT !.up = SubSeq(Inbound(r, c), m + 1, Len(Inbound(r, c)))]
    PROVE  /\ Sound(k, s) /\ SameEnds(r, s)
           /\ SubSeq(Inbound(r, c), 1, m) \in Seq(Byte)
           /\ ~IsClient(r, c) => \A b \in SeqMembers(SubSeq(Inbound(r, c), 1, m)) : b.via = k
  <1> DEFINE q == Inbound(r, c)
             n == Len(q)
             rest == SubSeq(q, m + 1, n)
  <1>1. r \in Connection /\ r.up \in Seq(Byte) /\ r.dn \in Seq(Byte)
    BY ConnectionIs DEF Sound
  <1>2. q = IF IsClient(r, c) THEN r.dn ELSE r.up
    BY DEF Inbound
  <1>3. q \in Seq(Byte) /\ n \in Nat /\ m \in 0 .. n /\ m + 1 \in Nat \ {0} /\ n \in 0 .. n /\ n <= SockCap
    BY <1>1, <1>2, LenProperties DEF Sound
  <1> HIDE DEF q, n
  <1>4. /\ SubSeq(q, 1, m) \in Seq(Byte) /\ SeqMembers(SubSeq(q, 1, m)) \subseteq SeqMembers(q)
    BY <1>3, SubSeqIs, SMTT(30) DEF n
  <1>5. /\ rest \in Seq(Byte) /\ Len(rest) <= SockCap /\ SeqMembers(rest) \subseteq SeqMembers(q)
    <2>1. /\ rest \in Seq(Byte) /\ Len(rest) = IF m + 1 <= n THEN n - (m + 1) + 1 ELSE 0
          /\ SeqMembers(rest) \subseteq SeqMembers(q)
      BY <1>3, SubSeqIs DEF n
    <2> QED
      BY <1>3, <2>1, BoundsAssumption, SMTT(30)
  <1>6. s = IF IsClient(r, c) THEN [r EXCEPT !.dn = rest] ELSE [r EXCEPT !.up = rest]
    BY DEF q, n
  <1> HIDE DEF rest
  <1>7. Sound(k, s) /\ SameEnds(r, s)
    <2>1. CASE IsClient(r, c)
      <3>1. s \in Connection /\ SameEnds(r, s) /\ s.dn = rest /\ s.up = r.up
        BY <1>1, <1>5, <1>6, <2>1 DEF Connection, SameEnds
      <3> QED
        BY <1>2, <1>5, <2>1, <3>1 DEF Sound, Marked
    <2>2. CASE ~IsClient(r, c)
      <3>1. s \in Connection /\ SameEnds(r, s) /\ s.up = rest /\ s.dn = r.dn
        BY <1>1, <1>5, <1>6, <2>2 DEF Connection, SameEnds
      <3> QED
        BY <1>2, <1>5, <2>2, <3>1 DEF Sound, Marked
    <2> QED
      BY <2>1, <2>2
  <1>8. ~IsClient(r, c) => \A b \in SeqMembers(SubSeq(q, 1, m)) : b.via = k
    BY <1>2, <1>4 DEF Sound, Marked
  <1> QED
    BY <1>4, <1>7, <1>8 DEF q

\* What DrainHears does to the table and the sockets, and that it keeps the
\* peer it hears.
LEMMA HearsDrops ==
    ASSUME Inv, NEW c \in Cabinet, DrainHears(c)
    PROVE  /\ Drops(c) /\ InSlot(c) \in SeqMembers(peer'[c])
           /\ state[c] = "CLIENT" => peer' = peer
           /\ \E v \in Seq(Byte) : rx' = [rx EXCEPT ![c] = v] /\ Len(v) < RxSize
  <1> DEFINE k == InSlot(c)
             q == Inbound(net[k], c)
             rest(m) == SubSeq(q, m + 1, Len(q))
             r(m) == IF IsClient(net[k], c) THEN [net[k] EXCEPT !.dn = rest(m)]
                                            ELSE [net[k] EXCEPT !.up = rest(m)]
  <1>1. /\ SocketsOK /\ RestOK /\ Shape /\ TypeOK
        /\ at[c] > 0 /\ k # None
    BY InvIs DEF Inv, DrainHears
  <1>2. k \in Conn /\ k \in Tab(c) /\ Tab(c) \subseteq Conn /\ state[c] \in {"CLIENT", "LISTENING"}
    BY <1>1, InSlotIs, TypeFacts
  <1> HIDE DEF k
  <1>3. PICK m \in 1 .. Len(q) :
          /\ rx' = [rx EXCEPT ![c] = RxPush(@, SubSeq(q, 1, m))]
          /\ IF state[c] = "LISTENING"
             THEN /\ net' = SentNet(c, [net EXCEPT ![k] = r(m)], SubSeq(q, 1, m), k)
                  /\ peer' = [peer EXCEPT ![c] = SentTable(c, k)]
             ELSE net' = [net EXCEPT ![k] = r(m)] /\ UNCHANGED peer
    BY DEF DrainHears, k
  <1> DEFINE data == SubSeq(q, 1, m)
             nt == [net EXCEPT ![k] = r(m)]
  <1>4. Sound(k, net[k]) /\ \A j \in Conn : Sound(j, net[j])
    BY <1>1, <1>2 DEF SocketsOK
  <1>5. /\ Sound(k, r(m)) /\ SameEnds(net[k], r(m)) /\ data \in Seq(Byte)
        /\ ~IsClient(net[k], c) => \A b \in SeqMembers(data) : b.via = k
    BY <1>2, <1>4, TakenIs, SMTT(30)
  <1> HIDE DEF r, data, q
  <1>6. nt \in [Conn -> Connection] /\ nt[k] = r(m) /\ \A j \in Conn : j # k => nt[j] = net[j]
    BY <1>1, <1>2, <1>5 DEF SocketsOK, Sound
  <1>7. \A j \in Conn : Sound(j, nt[j]) /\ SameEnds(net[j], nt[j])
    BY <1>4, <1>5, <1>6 DEF SameEnds
  <1> HIDE DEF nt
  <1>8. \E v \in Seq(Byte) : rx' = [rx EXCEPT ![c] = v] /\ Len(v) < RxSize
    <2>1. rx[c] \in Seq(Byte) /\ Len(rx[c]) < RxSize
      BY <1>1 DEF RestOK
    <2>2. RxPush(rx[c], data) \in Seq(Byte) /\ Len(RxPush(rx[c], data)) < RxSize
      BY <1>5, <2>1, RxPushIs
    <2> QED
      BY <1>3, <2>2 DEF data
  <1>9. Injective(peer[c])
    BY <1>1 DEF Shape, Once
  <1>10. peer \in [Cabinet -> Seq(Conn)] /\ Len(peer[c]) \in Nat
    BY <1>1, TypeFacts DEF SocketsOK
  <1>11. CASE state[c] = "LISTENING"
    <2>1. net' = SentNet(c, nt, data, k) /\ peer' = [peer EXCEPT ![c] = SentTable(c, k)]
      BY <1>3, <1>11 DEF nt, data
    <2>2. ASSUME NEW j \in Tab(c), j # k
          PROVE  IF IsClient(net[j], c) THEN \A b \in SeqMembers(data) : b.via = j
                                        ELSE \A b \in SeqMembers(data) : b.via # j
      <3>1. ~IsClient(net[j], c) /\ ~IsClient(net[k], c)
        BY <1>1, <1>2, <1>11 DEF Shape, DialledIsPeer, Calling
      <3> QED
        BY <1>5, <2>2, <3>1
    <2>3. /\ SentNet(c, nt, data, k) \in [Conn -> Connection]
          /\ SentTable(c, k) \in Seq(Conn)
          /\ Len(SentTable(c, k)) <= Len(peer[c])
          /\ SeqMembers(SentTable(c, k)) \subseteq Tab(c)
          /\ Injective(peer[c]) => Injective(SentTable(c, k))
          /\ k \in Tab(c) => k \in SeqMembers(SentTable(c, k))
          /\ \A j \in Conn :
               /\ Sound(j, SentNet(c, nt, data, k)[j])
               /\ OnlyDrops(c, j, SentNet(c, nt, data, k)[j], SentTable(c, k))
      BY <1>1, <1>5, <1>7, <2>2, SentIs
    <2>4. peer'[c] = SentTable(c, k) /\ \A d \in Cabinet : d # c => peer'[d] = peer[d]
      BY <1>10, <2>1
    <2>5. Drops(c)
      BY <1>9, <1>10, <1>11, <2>1, <2>3, <2>4 DEF Drops
    <2> QED
      BY <1>2, <1>8, <1>11, <2>3, <2>4, <2>5 DEF k
  <1>12. CASE state[c] = "CLIENT"
    <2>1. net' = nt /\ peer' = peer
      BY <1>3, <1>12 DEF nt
    <2>2. \A j \in Conn : OnlyDrops(c, j, net'[j], peer'[c])
      BY <1>7, <2>1, EndsHold DEF OnlyDrops, Tab
    <2>3. Drops(c)
      BY <1>6, <1>7, <1>9, <1>10, <2>1, <2>2 DEF Drops, Tab
    <2> QED
      BY <1>2, <1>8, <1>12, <2>1, <2>3 DEF k, Tab
  <1> QED
    BY <1>2, <1>11, <1>12

LEMMA HearsInv ==
    ASSUME Inv, NEW c \in Cabinet, DrainHears(c)
    PROVE  Inv' /\ TableStep(c)
  <1>1. Drops(c) /\ \E v \in Seq(Byte) : rx' = [rx EXCEPT ![c] = v] /\ Len(v) < RxSize
    BY HearsDrops
  <1>2. /\ at[c] > 0 /\ NextSlot(c)
        /\ UNCHANGED <<state, hold, listener, tx, port, backlog, ghostVars>>
    BY DEF DrainHears
  <1>3. RestOK' /\ DrainsSettled'
    BY <1>1, <1>2, LoopRest
  <1>4. TableStep(c)
    BY <1>1, <1>2 DEF TableStep
  <1> QED
    BY <1>3, <1>4, TableStepInv

LEMMA LostDrops ==
    ASSUME Inv, NEW c \in Cabinet, DrainPeerLost(c)
    PROVE  /\ Drops(c) /\ state[c] = "LISTENING"
           /\ at[c] <= Len(peer[c]) =>
                listener' = listener /\ Len(peer'[c]) = Len(peer[c]) - 1
  <1> DEFINE k == InSlot(c)
  <1>1. SocketsOK /\ RestOK /\ Shape /\ TypeOK /\ Injective(peer[c])
    BY InvIs DEF Inv, Shape, Once
  <1>2. /\ at[c] > 0 /\ state[c] # "CLIENT"
        /\ net' = IF k = None THEN net ELSE [net EXCEPT ![k] = CloseEnd(@, c)]
        /\ IF peer[c] = <<>>
           THEN listener' = [listener EXCEPT ![c] = FALSE] /\ UNCHANGED peer
           ELSE /\ peer' = [peer EXCEPT ![c] = DropSlot(@, at[c])]
                /\ UNCHANGED listener
    BY DEF DrainPeerLost, PeerLost
  <1>3. /\ state[c] = "LISTENING"
        /\ k = None <=> at[c] > Len(peer[c])
        /\ k # None => /\ at[c] \in 1 .. Len(peer[c]) /\ k = peer[c][at[c]]
                       /\ k \in Tab(c) /\ k \in Conn
    BY <1>2, InSlotIs
  <1> HIDE DEF k
  <1>4. /\ peer[c] \in Seq(Conn) /\ Len(peer[c]) \in Nat /\ peer \in [Cabinet -> Seq(Conn)]
        /\ at[c] \in Out .. MaxPeers /\ Tab(c) \subseteq Conn
        /\ peer[c] = <<>> <=> Len(peer[c]) = 0
    BY <1>1, TypeFacts, EmptySeq DEF SocketsOK, RestOK
  <1>5. CASE peer[c] = <<>>
    <2>1. net' = net /\ peer' = peer
      BY <1>2, <1>3, <1>4, <1>5
    <2>2. ~(at[c] <= Len(peer[c]))
      BY <1>2, <1>4, <1>5 DEF Out
    <2> QED
      BY <1>3, <2>1, <2>2, StaysDrops
  <1>6. CASE peer[c] # <<>>
    <2> DEFINE i == IF at[c] <= Len(peer[c]) THEN at[c] ELSE Len(peer[c])
               t == RemoveIdx(peer[c], i)
    <2>1. peer' = [peer EXCEPT ![c] = t] /\ listener' = listener
      BY <1>2, <1>6 DEF DropSlot
    <2>2. i \in 1 .. Len(peer[c])
      BY <1>2, <1>4, <1>6 DEF Out
    <2> HIDE DEF i
    <2>3. /\ t \in Seq(Conn) /\ Len(t) = Len(peer[c]) - 1 /\ SeqMembers(t) \subseteq Tab(c)
          /\ Tab(c) \subseteq SeqMembers(t) \cup {peer[c][i]}
          /\ Injective(t) /\ peer[c][i] \notin SeqMembers(t)
      BY <1>1, <1>4, <2>2, RemoveIs DEF Tab
    <2> HIDE DEF t
    <2>4. peer'[c] = t /\ \A d \in Cabinet : d # c => peer'[d] = peer[d]
      BY <1>4, <2>1
    <2>5. \A j \in Conn : Sound(j, net[j]) /\ SameHolders(net[j], net[j])
      BY <1>1 DEF SocketsOK, SameHolders
    <2>6. net' \in [Conn -> Connection]
          /\ \A j \in Conn : Sound(j, net'[j]) /\ OnlyDrops(c, j, net'[j], t)
      <3>1. CASE k = None
        <4>1. net' = net /\ at[c] > Len(peer[c])
          BY <1>2, <1>3, <3>1
        <4> QED
          BY <1>1, <1>3, <2>5, <4>1 DEF OnlyDrops, SocketsOK
      <3>2. CASE k # None
        <4>1. net' = [net EXCEPT ![k] = CloseEnd(@, c)] /\ k \in Conn /\ k \in Tab(c) /\ k = peer[c][i]
          BY <1>2, <1>3, <1>4, <3>2 DEF i
        <4>2. Sound(k, CloseEnd(net[k], c)) /\ ClosedBy(net[k], CloseEnd(net[k], c), c)
          BY <2>5, <4>1, CloseEndIs
        <4>3. /\ net' \in [Conn -> Connection] /\ net'[k] = CloseEnd(net[k], c)
              /\ \A j \in Conn : j # k => net'[j] = net[j]
          BY <1>1, <4>1, <4>2 DEF SocketsOK, Sound
        <4>6. EndOf(net[k], c) \in {"eof", "dead"}
          BY <3>2 DEF DrainPeerLost, PeerLost, Dead, k
        <4>4. OnlyDrops(c, k, net'[k], t)
          BY <2>3, <4>1, <4>2, <4>3, <4>6 DEF OnlyDrops
        <4>5. \A j \in Conn : j # k => OnlyDrops(c, j, net'[j], t)
          BY <2>3, <2>5, <4>1, <4>3 DEF OnlyDrops
        <4> QED
          BY <2>5, <4>1, <4>2, <4>3, <4>4, <4>5
      <3> QED
        BY <3>1, <3>2
    <2>7. peer' \in [Cabinet -> Seq(Conn)]
      BY <1>4, <2>1, <2>3
    <2>8. Len(peer'[c]) <= Len(peer[c])
      BY <1>4, <2>3, <2>4
    <2>9. Drops(c)
      BY <1>3, <2>3, <2>4, <2>6, <2>7, <2>8 DEF Drops
    <2> QED
      BY <1>3, <2>1, <2>3, <2>4, <2>9
  <1> QED
    BY <1>5, <1>6

LEMMA PeerLostInv ==
    ASSUME Inv, NEW c \in Cabinet, DrainPeerLost(c)
    PROVE  Inv' /\ TableStep(c)
  <1>1. Drops(c)
    BY LostDrops
  <1>2. /\ at[c] > 0 /\ NextSlot(c)
        /\ UNCHANGED <<state, hold, rx, tx, port, backlog, ghostVars>>
        /\ listener' = listener \/ listener' = [listener EXCEPT ![c] = FALSE]
    BY DEF DrainPeerLost, PeerLost
  <1>3. RestOK' /\ DrainsSettled'
    BY <1>2, LoopRest
  <1>4. \A d \in Cabinet : listener'[d] => listener[d]
    BY <1>2, InvIs DEF RestOK
  <1>5. TableStep(c)
    BY <1>1, <1>2, <1>4 DEF TableStep
  <1> QED
    BY <1>3, <1>5, TableStepInv

LEMMA FlushInv ==
    ASSUME Inv, NEW c \in Cabinet, Flush(c)
    PROVE  Inv' /\ TableStep(c)
  <1>1. /\ at[c] = 0 /\ FlushSockets(c) /\ tx' = [tx EXCEPT ![c] = <<>>]
        /\ at' = [at EXCEPT ![c] = Out]
        /\ UNCHANGED <<state, hold, listener, rx, port, backlog, ghostVars>>
    BY DEF Flush
  <1>2. RestOK /\ DrainsSettled /\ Out \in Out .. MaxPeers /\ Out <= 0
    BY InvIs, BoundsAssumption DEF Inv, Out
  <1>3. TableStep(c)
    BY <1>1, FlushIs DEF TableStep
  <1>4. RestOK'
    <2>1. \E v \in Seq(Byte) : tx' = [tx EXCEPT ![c] = v] /\ Len(v) <= TxSize
      BY <1>1, Resets
    <2>2. \E v \in Out .. MaxPeers : at' = [at EXCEPT ![c] = v]
      BY <1>1, <1>2
    <2>3. /\ state' = state /\ hold' = hold /\ listener' = listener /\ rx' = rx /\ sent' = sent
          /\ faults' \in 0 .. MaxFaults
      BY <1>1, <1>2 DEF RestOK, ghostVars
    <2> QED
      BY <1>2, <2>1, <2>2, <2>3, RestSets
  <1>5. DrainsSettled'
    BY <1>1, <1>2 DEF DrainsSettled, RestOK
  <1> QED
    BY <1>3, <1>4, <1>5, TableStepInv

LEMMA ReadInv ==
    ASSUME Inv, NEW c \in Cabinet, Read(c)
    PROVE  Inv' /\ TableStep(c)
  <1>1. /\ rx[c] # <<>> /\ rx' = [rx EXCEPT ![c] = Tail(@)]
        /\ UNCHANGED <<state, hold, listener, peer, tx, at, netVars, sent, faults>>
    BY DEF Read
  <1>2. RestOK /\ DrainsSettled /\ rx[c] \in Seq(Byte) /\ Len(rx[c]) < RxSize /\ Len(rx[c]) \in Nat
    BY InvIs, LenProperties DEF Inv, TypeOK
  <1>3. Tail(rx[c]) \in Seq(Byte) /\ Len(Tail(rx[c])) < RxSize
    <2>1. Tail(rx[c]) \in Seq(Byte) /\ Len(Tail(rx[c])) = Len(rx[c]) - 1
      BY <1>1, <1>2, HeadTailProperties
    <2> QED
      BY <1>2, <2>1, BoundsAssumption
  <1>4. RestOK'
    BY <1>1, <1>2, <1>3, RestSets DEF RestOK
  <1>5. DrainsSettled'
    BY <1>1, <1>2 DEF DrainsSettled
  <1>6. TableStep(c)
    BY <1>1, StaysDrops DEF TableStep, netVars
  <1> QED
    BY <1>4, <1>5, <1>6, TableStepInv

LEMMA WriteInv ==
    ASSUME Inv, NEW c \in Cabinet, Write(c)
    PROVE  Inv' /\ TableStep(c)
  <1> DEFINE b == [from |-> c, n |-> sent[c] + 1, via |-> None]
  <1>1. /\ sent[c] < MaxBytes
        /\ \/ FlushSockets(c) /\ tx' = [tx EXCEPT ![c] = <<b>>]
           \/ /\ ~(Len(tx[c]) >= TxSize) /\ tx' = [tx EXCEPT ![c] = Append(@, b)]
              /\ UNCHANGED <<net, peer>>
        /\ \/ rx' = [rx EXCEPT ![c] = RxPush(@, <<b>>)]
           \/ rx' = rx
        /\ sent' = [sent EXCEPT ![c] = @ + 1]
        /\ UNCHANGED <<state, hold, listener, at, port, backlog, heard, faults>>
    BY DEF Write
  <1>2. /\ RestOK /\ DrainsSettled /\ tx[c] \in Seq(Byte) /\ Len(tx[c]) <= TxSize /\ Len(tx[c]) \in Nat
        /\ rx[c] \in Seq(Byte) /\ Len(rx[c]) < RxSize /\ sent[c] \in 0 .. MaxBytes
        /\ TxSize \in Nat \ {0} /\ MaxBytes \in Nat
    BY InvIs, LenProperties, BoundsAssumption DEF Inv, TypeOK
  <1>3. b \in Byte /\ sent[c] + 1 \in 0 .. MaxBytes
    BY <1>1, <1>2 DEF Byte
  <1> HIDE DEF b
  <1>4. <<b>> \in Seq(Byte) /\ Len(<<b>>) = 1
    BY <1>3
  <1>5. \E v \in Seq(Byte) : tx' = [tx EXCEPT ![c] = v] /\ Len(v) <= TxSize
    <2>1. CASE tx' = [tx EXCEPT ![c] = <<b>>]
      <3>1. Len(<<b>>) <= TxSize
        BY <1>2, <1>4
      <3> QED
        BY <1>4, <2>1, <3>1
    <2>2. CASE ~(Len(tx[c]) >= TxSize) /\ tx' = [tx EXCEPT ![c] = Append(@, b)]
      <3>1. Append(tx[c], b) \in Seq(Byte) /\ Len(Append(tx[c], b)) = Len(tx[c]) + 1
        BY <1>2, <1>3
      <3>2. Len(Append(tx[c], b)) <= TxSize
        BY <1>2, <2>2, <3>1
      <3> QED
        BY <2>2, <3>1, <3>2
    <2> QED
      BY <1>1, <2>1, <2>2
  <1>6. rx' = rx \/ \E v \in Seq(Byte) : rx' = [rx EXCEPT ![c] = v] /\ Len(v) < RxSize
    <2>1. RxPush(rx[c], <<b>>) \in Seq(Byte) /\ Len(RxPush(rx[c], <<b>>)) < RxSize
      BY <1>2, <1>4, RxPushIs
    <2> QED
      BY <1>1, <2>1
  <1>7. RestOK'
    <2>1. \E v \in 0 .. MaxBytes : sent' = [sent EXCEPT ![c] = v]
      BY <1>1, <1>3
    <2>2. faults' \in 0 .. MaxFaults
      BY <1>1, <1>2 DEF RestOK
    <2> QED
      BY <1>1, <1>2, <1>5, <1>6, <2>1, <2>2, RestSets
  <1>8. DrainsSettled'
    BY <1>1, <1>2 DEF DrainsSettled
  <1>9. Drops(c)
    BY <1>1, FlushIs, StaysDrops
  <1>10. TableStep(c)
    BY <1>1, <1>9 DEF TableStep
  <1> QED
    BY <1>7, <1>8, <1>10, TableStepInv

\* The network changes one connection.
LEMMA MovedInv ==
    ASSUME Inv, NEW k \in Conn, UNCHANGED <<cabVars, port, backlog, sent, heard>>,
           faults' \in 0 .. MaxFaults,
           NEW r, net' = [net EXCEPT ![k] = r], r \in Connection,
           r.cli = net[k].cli, r.srv = net[k].srv,
           r.c \in Shut <=> net[k].c \in Shut, r.s \in Shut <=> net[k].s \in Shut,
           r.c = "syn" => net[k].c = "syn",
           r.up = net[k].up \/ r.up = <<>>, r.dn = net[k].dn \/ r.dn = <<>>
    PROVE  Inv' /\ \A j \in Conn : SameHolders(net[j], net'[j])
  <1>1. SocketsOK
    BY InvIs DEF Inv
  <1>2. Sound(k, net[k])
    BY <1>1 DEF SocketsOK
  <1>3. Sound(k, r)
    BY <1>2, EmptyIs, BoundsAssumption DEF Sound, Marked
  <1>4. SameHolders(net[k], r)
    BY DEF SameHolders, IsClient, Served
  <1>5. /\ net' \in [Conn -> Connection] /\ net'[k] = r
        /\ \A j \in Conn : j # k => net'[j] = net[j]
    BY <1>1 DEF SocketsOK
  <1>6. \A j \in Conn : Sound(j, net'[j]) /\ SameHolders(net[j], net'[j])
    BY <1>1, <1>3, <1>4, <1>5 DEF SocketsOK, SameHolders
  <1> QED
    BY <1>5, <1>6, WireInv

LEMMA NetworkInv ==
    ASSUME Inv, NEW k \in Conn, SynRefused(k) \/ Fin(k) \/ Rst(k) \/ Break(k)
    PROVE  Inv' /\ \A j \in Conn : SameHolders(net[j], net'[j])
  <1>1. net \in [Conn -> Connection] /\ net[k] \in Connection /\ faults \in 0 .. MaxFaults
    BY InvIs DEF SocketsOK, RestOK
  <1>2. UNCHANGED <<cabVars, port, backlog, sent, heard>>
    BY DEF SynRefused, Fin, Rst, Break, ghostVars
  <1>3. faults' \in 0 .. MaxFaults
    <2>1. faults' = faults \/ (faults' = faults + 1 /\ faults < MaxFaults)
      BY DEF SynRefused, Fin, Rst, Break, ghostVars
    <2> QED
      BY <1>1, <2>1, BoundsAssumption
  <1> DEFINE newC(e) == [net[k] EXCEPT !.c = e]
             newS(e) == [net[k] EXCEPT !.s = e]
             cDies == [net[k] EXCEPT !.c = "dead", !.dn = <<>>]
             sDies == [net[k] EXCEPT !.s = "dead", !.up = <<>>]
             bothDie == [net[k] EXCEPT !.c = "dead", !.dn = <<>>, !.s = "dead", !.up = <<>>]
  <1>4. CASE SynRefused(k)
    <2>1. net' = [net EXCEPT ![k] = newC("dead")] /\ net[k].c = "syn"
      BY <1>1, <1>4 DEF SynRefused, SynPending
    <2>2. /\ newC("dead") \in Connection /\ newC("dead").c = "dead" /\ newC("dead").s = net[k].s
          /\ newC("dead").cli = net[k].cli /\ newC("dead").srv = net[k].srv
          /\ newC("dead").up = net[k].up /\ newC("dead").dn = net[k].dn
      BY <1>1 DEF Connection, EndState
    <2> HIDE DEF newC
    <2> QED
      BY <1>2, <1>3, <2>1, <2>2, MovedInv DEF Shut
  <1>5. CASE Fin(k)
    <2>1. \/ net[k].s = "open" /\ net' = [net EXCEPT ![k] = newS("eof")]
          \/ net[k].c = "open" /\ net' = [net EXCEPT ![k] = newC("eof")]
      BY <1>1, <1>5 DEF Fin
    <2>2. /\ newC("eof") \in Connection /\ newC("eof").c = "eof" /\ newC("eof").s = net[k].s
          /\ newC("eof").cli = net[k].cli /\ newC("eof").srv = net[k].srv
          /\ newC("eof").up = net[k].up /\ newC("eof").dn = net[k].dn
      BY <1>1 DEF Connection, EndState
    <2>3. /\ newS("eof") \in Connection /\ newS("eof").c = net[k].c /\ newS("eof").s = "eof"
          /\ newS("eof").cli = net[k].cli /\ newS("eof").srv = net[k].srv
          /\ newS("eof").up = net[k].up /\ newS("eof").dn = net[k].dn
      BY <1>1 DEF Connection, EndState
    <2> HIDE DEF newC, newS
    <2>4. CASE net[k].s = "open" /\ net' = [net EXCEPT ![k] = newS("eof")]
      BY <1>2, <1>3, <2>3, <2>4, MovedInv DEF Shut
    <2>5. CASE net[k].c = "open" /\ net' = [net EXCEPT ![k] = newC("eof")]
      BY <1>2, <1>3, <2>2, <2>5, MovedInv DEF Shut
    <2> QED
      BY <2>1, <2>4, <2>5
  <1>6. /\ cDies \in Connection /\ cDies.c = "dead" /\ cDies.s = net[k].s
        /\ cDies.cli = net[k].cli /\ cDies.srv = net[k].srv /\ cDies.up = net[k].up /\ cDies.dn = <<>>
    BY <1>1, EmptyIs DEF Connection, EndState
  <1>7. /\ sDies \in Connection /\ sDies.s = "dead" /\ sDies.c = net[k].c
        /\ sDies.cli = net[k].cli /\ sDies.srv = net[k].srv /\ sDies.dn = net[k].dn /\ sDies.up = <<>>
    BY <1>1, EmptyIs DEF Connection, EndState
  <1>8. /\ bothDie \in Connection /\ bothDie.s = "dead" /\ bothDie.c = "dead"
        /\ bothDie.cli = net[k].cli /\ bothDie.srv = net[k].srv /\ bothDie.dn = <<>> /\ bothDie.up = <<>>
    BY <1>1, EmptyIs DEF Connection, EndState
  <1>9. \/ SynRefused(k) \/ Fin(k)
        \/ net[k].c \in {"open", "eof"} /\ net' = [net EXCEPT ![k] = cDies]
        \/ net[k].s \in {"open", "eof"} /\ net' = [net EXCEPT ![k] = sDies]
        \/ net[k].c = "open" /\ net[k].s = "open" /\ net' = [net EXCEPT ![k] = bothDie]
    BY <1>1 DEF Rst, Break
  <1> HIDE DEF cDies, sDies, bothDie
  <1>10. CASE net[k].c \in {"open", "eof"} /\ net' = [net EXCEPT ![k] = cDies]
    BY <1>2, <1>3, <1>6, <1>10, MovedInv DEF Shut
  <1>11. CASE net[k].s \in {"open", "eof"} /\ net' = [net EXCEPT ![k] = sDies]
    BY <1>2, <1>3, <1>7, <1>11, MovedInv DEF Shut
  <1>12. CASE net[k].c = "open" /\ net[k].s = "open" /\ net' = [net EXCEPT ![k] = bothDie]
    BY <1>2, <1>3, <1>8, <1>12, MovedInv DEF Shut
  <1> QED
    BY <1>4, <1>5, <1>9, <1>10, <1>11, <1>12

LEMMA AnsweredInv ==
    ASSUME Inv, NEW k \in Conn, SynAnswered(k)
    PROVE  Inv'
  <1> USE DEF Calling
  <1> DEFINE p == Dials[net[k].cli]
             o == port[p]
             r == [net[k] EXCEPT !.c = "open", !.s = "open", !.srv = o]
  <1>1. RestOK /\ DrainsSettled /\ Shape /\ SocketsOK /\ TypeOK /\ Backlog \in Nat
    BY InvIs, BoundsAssumption DEF Inv
  <1>2. net[k].c = "syn" /\ net[k].cli \in Cabinet /\ net[k].s \in Shut
    BY <1>1 DEF SynAnswered, SynPending, Shape, SynUnserved
  <1>3. p \in PC /\ o \in Cabinet /\ o # None /\ Len(backlog[p]) < Backlog
    BY <1>1, <1>2, TypeFacts DEF SynAnswered, SynPending
  <1>4. /\ backlog' = [backlog EXCEPT ![p] = Append(@, k)]
        /\ UNCHANGED <<cabVars, port, ghostVars>>
    BY DEF SynAnswered
  <1>5. net \in [Conn -> Connection] /\ net[k] \in Connection
    BY <1>1 DEF SocketsOK
  <1>6. net' = [net EXCEPT ![k] = r]
    BY <1>5 DEF SynAnswered
  <1>7. /\ r \in Connection /\ r.c = "open" /\ r.s = "open" /\ r.srv = o /\ r.cli = net[k].cli
        /\ r.up = net[k].up /\ r.dn = net[k].dn
    BY <1>3, <1>5 DEF Connection, EndState
  <1> HIDE DEF r, o, p
  <1>8. net'[k] = r /\ \A j \in Conn : j # k => net'[j] = net[j]
    BY <1>5, <1>6
  <1>9. /\ \A d \in Cabinet : IsClient(r, d) <=> IsClient(net[k], d)
        /\ \A d \in Cabinet : ~Served(net[k], d)
        /\ Served(r, o)
    BY <1>2, <1>7 DEF IsClient, Served, Shut
  <1>10. /\ \A d \in Cabinet : Tab(d)' = Tab(d) /\ Tab(d) \subseteq Conn
         /\ UNCHANGED <<state, peer, listener, port>>
    BY <1>1, <1>4, TypeFacts DEF Tab, cabVars
  <1>11. \A q \in PC : SeqMembers(backlog[q]) \subseteq Conn \ {k}
    <2> SUFFICES ASSUME NEW q \in PC, k \in SeqMembers(backlog[q]) PROVE FALSE
      BY <1>1, TypeFacts
    <2>1. Served(net[k], port[q]) /\ port[q] \in Cabinet
      BY <1>1, TypeFacts DEF Shape, QueuedIsServed
    <2> QED
      BY <1>9, <2>1
  <1>12. /\ backlog[p] \in Seq(Conn) /\ Append(backlog[p], k) \in Seq(Conn)
         /\ Len(Append(backlog[p], k)) = Len(backlog[p]) + 1 /\ Len(backlog[p]) \in Nat
         /\ SeqMembers(Append(backlog[p], k)) = SeqMembers(backlog[p]) \cup {k}
         /\ Injective(Append(backlog[p], k))
    <2>1. backlog[p] \in Seq(Conn) /\ Injective(backlog[p]) /\ k \notin SeqMembers(backlog[p])
      BY <1>1, <1>3, <1>11 DEF SocketsOK, Shape, Once
    <2>2. Len(backlog[p]) \in Nat
      BY <2>1, LenProperties
    <2> QED
      BY <2>1, <2>2, AppendIs
  <1>13. /\ backlog'[p] = Append(backlog[p], k)
         /\ \A q \in PC : q # p => backlog'[q] = backlog[q]
    BY <1>1, <1>3, <1>4 DEF SocketsOK
  \* A listener has not got k.
  <1>14. \A d \in Cabinet : state[d] = "LISTENING" => k \notin Tab(d)
    BY <1>1, <1>9 DEF Shape, PeersMatchState
  <1>15. PeersMatchState'
    <2> SUFFICES ASSUME NEW d \in Cabinet
                 PROVE  /\ state[d] = "LISTENING" => \A j \in Tab(d) : Served(net'[j], d)
                        /\ Calling(d) => \A j \in Tab(d) : IsClient(net'[j], d)
      BY <1>1, <1>10 DEF PeersMatchState, Shape
    <2>1. /\ state[d] = "LISTENING" => \A j \in Tab(d) : Served(net[j], d)
          /\ Calling(d) => \A j \in Tab(d) : IsClient(net[j], d)
      BY <1>1 DEF Shape, PeersMatchState
    <2> QED
      BY <1>8, <1>9, <1>10, <1>14, <2>1
  <1>16. DialledIsPeer'
    BY <1>1, <1>8, <1>9, <1>10 DEF Shape, DialledIsPeer
  <1>17. QueuedIsServed'
    <2> SUFFICES ASSUME NEW q \in PC, NEW j \in SeqMembers(backlog'[q])
                 PROVE  port[q] # None /\ Served(net'[j], port[q])
      BY <1>10 DEF QueuedIsServed
    <2>1. CASE j = k /\ q = p
      BY <1>3, <1>8, <1>9, <2>1 DEF o
    <2>2. CASE j \in SeqMembers(backlog[q])
      <3>1. net'[j] = net[j]
        BY <1>8, <1>11, <2>2
      <3> QED
        BY <1>1, <2>2, <3>1 DEF Shape, QueuedIsServed
    <2> QED
      BY <1>12, <1>13, <2>1, <2>2
  <1>18. Once'
    <2>1. \A q \in PC : Injective(backlog'[q])
      BY <1>1, <1>12, <1>13 DEF Shape, Once
    <2>2. ASSUME NEW d \in Cabinet, NEW q \in PC, state[d] = "LISTENING"
          PROVE  Tab(d) \cap SeqMembers(backlog'[q]) = {}
      BY <1>1, <1>12, <1>13, <1>14, <2>2 DEF Shape, Once
    <2> QED
      BY <1>1, <1>10, <2>1, <2>2 DEF Once, Shape
  <1>19. SynUnserved'
    BY <1>1, <1>7, <1>8 DEF Shape, SynUnserved
  <1>20. PortOwned'
    BY <1>1, <1>10 DEF Shape, PortOwned
  <1>21. SocketsOK'
    <2>1. Sound(k, net[k]) /\ \A j \in Conn : Sound(j, net[j])
      BY <1>1 DEF SocketsOK
    <2>2. Sound(k, r)
      BY <1>7, <2>1 DEF Sound, Marked
    <2>3. net' \in [Conn -> Connection] /\ \A j \in Conn : Sound(j, net'[j])
      BY <1>5, <1>6, <1>7, <1>8, <2>1, <2>2
    <2>4. backlog' \in [PC -> Seq(Conn)]
      BY <1>1, <1>4, <1>12 DEF SocketsOK
    <2>5. \A q \in PC : Len(backlog'[q]) <= Backlog
      <3>1. Len(backlog'[p]) <= Backlog
        BY <1>1, <1>3, <1>12, <1>13
      <3> QED
        BY <1>1, <1>13, <3>1 DEF SocketsOK
    <2> QED
      BY <1>1, <1>10, <2>3, <2>4, <2>5 DEF SocketsOK
  <1>22. RestOK' /\ DrainsSettled'
    BY <1>1, <1>4 DEF RestOK, DrainsSettled, cabVars, ghostVars
  <1>23. (RestOK /\ SocketsOK /\ Shape /\ DrainsSettled)'
    BY <1>15, <1>16, <1>17, <1>18, <1>19, <1>20, <1>21, <1>22 DEF Shape
  <1> QED
    BY <1>23, InvIs, PTL

LEMMA StutterInv ==
    ASSUME Inv, UNCHANGED vars
    PROVE  Inv'
  <1>1. SocketsOK /\ RestOK
    BY InvIs DEF Inv
  <1>2. \A k \in Conn : Sound(k, net[k]) /\ SameHolders(net[k], net[k])
    BY <1>1 DEF SocketsOK, SameHolders
  <1>3. UNCHANGED <<cabVars, port, backlog, sent, heard, net, faults>>
    BY DEF vars, netVars, ghostVars
  <1> QED
    BY <1>1, <1>2, <1>3, WireInv DEF SocketsOK, RestOK

LEMMA NextInv == Inv /\ [Next]_vars => Inv'
  <1> SUFFICES ASSUME Inv, [Next]_vars PROVE Inv'
    OBVIOUS
  <1>1. ASSUME NEW c \in Cabinet,
               \/ Poll(c) \/ DrainHears(c) \/ DrainQuiet(c) \/ DrainClientLost(c)
               \/ DrainPeerLost(c) \/ Flush(c) \/ Read(c) \/ Write(c)
               \/ HoldExpires(c) \/ Restart(c)
        PROVE  Inv'
    BY <1>1, PollInv, ListensInv, GivesUpInv, LostInv, DialsInv, JoinsInv, AcceptsInv,
       HearsInv, PeerLostInv, FlushInv, ReadInv, WriteInv DEF Poll
  <1>2. ASSUME NEW k \in Conn,
               SynRefused(k) \/ SynAnswered(k) \/ Fin(k) \/ Rst(k) \/ Break(k)
        PROVE  Inv'
    BY <1>2, NetworkInv, AnsweredInv
  <1> QED
    BY <1>1, <1>2, StutterInv DEF Next

LEMMA InitInv == Init => Inv
  <1> SUFFICES ASSUME Init PROVE Inv
    OBVIOUS
  <1>1. /\ <<>> \in Seq(Byte) /\ <<>> \in Seq(Conn) /\ Len(<<>>) = 0 /\ 0 < RxSize
        /\ SeqMembers(<<>>) = {} /\ Injective(<<>>) /\ Out \in Out .. MaxPeers /\ Out <= 0
    BY EmptyIs, BoundsAssumption DEF Out
  <1>2. RestOK
    BY <1>1, BoundsAssumption DEF Init, RestOK
  <1>3. SocketsOK
    BY <1>1, FreeIs, BoundsAssumption DEF Init, SocketsOK, Sound
  <1>4. DrainsSettled
    BY <1>1 DEF Init, DrainsSettled
  <1>5. \A k \in Conn : net[k] = FreeConn /\ FreeConn.c = "closed" /\ FreeConn.s = "closed"
    BY DEF Init, FreeConn
  <1>6. /\ \A c \in Cabinet : state[c] = "IDLE" /\ peer[c] = <<>> /\ Tab(c) = {} /\ listener[c] = FALSE
        /\ \A p \in PC : backlog[p] = <<>> /\ port[p] = None
    BY <1>1 DEF Init, Tab
  <1>7. Shape
    BY <1>1, <1>5, <1>6
       DEF Shape, PeersMatchState, DialledIsPeer, QueuedIsServed, Once, SynUnserved, PortOwned,
           Calling, IsClient, Shut
  <1> QED
    BY <1>2, <1>3, <1>4, <1>7, InvIs

\* The invariant of every bus: where its sockets are, what a cabinet's state
\* says of its table, and whose mark the bytes on their way have.
THEOREM InvHolds == Spec => []Inv
  BY InitInv, NextInv, PTL DEF Spec

\* The table, the ring, the coalescing buffer and the queues keep their types
\* and never outgrow FUNLINK_MAX_PEERS, FUNLINK_RX_SIZE and FUNLINK_TX_SIZE.
THEOREM TypeSafe == Spec => []TypeOK
  <1>1. Inv => TypeOK
    BY DEF Inv
  <1> QED
    BY <1>1, InvHolds, PTL

\* However many cabinets: funlink_send_to_peers never repeats a byte up the
\* connection it came from.
THEOREM HorizonSplit == Spec => []SplitHorizon
  <1>1. Inv => SplitHorizon
    BY DEF Inv, MarkedBytes, Marked, SplitHorizon, SeqMembers
  <1> QED
    BY <1>1, InvHolds, PTL

-----------------------------------------------------------------------------
(* While no cabinet has more than two peers.                               *)

LEMMA TableStepKept ==
    ASSUME Inv, SocketsKept, NEW c \in Cabinet, TableStep(c), listener' = listener,
           at[c] <= Len(peer[c])
    PROVE  SocketsKept'
  <1>1. SocketsOK /\ Shape /\ at[c] \in Out .. MaxPeers /\ Len(peer[c]) \in Nat /\ MaxPeers \in Nat
    BY InvIs, TypeFacts, BoundsAssumption DEF Inv, TypeOK
  <1>2. \A d \in Cabinet : listener[d] \in BOOLEAN
    BY InvIs DEF RestOK
  <1>3. \A k \in Conn :
          \/ SameHolders(net[k], net'[k]) /\ (k \in Tab(c) => k \in Tab(c)')
          \/ ClosedBy(net[k], net'[k], c) /\ k \in Tab(c)
    BY <1>1 DEF TableStep, Drops, OnlyDrops, Tab, Out
  <1>4. \A d \in Cabinet : d # c => Tab(d)' = Tab(d)
    BY DEF TableStep, Drops, Tab
  <1>5. ASSUME NEW d \in Cabinet, NEW k \in Conn, Served(net'[k], d)
        PROVE  state[d] = "LISTENING" /\ k \in Tab(d)' \cup SeqMembers(backlog[Site[d]])
    <2>1. Served(net[k], d)
      BY <1>3, <1>5 DEF SameHolders, ClosedBy
    <2>2. state[d] = "LISTENING" /\ k \in Tab(d) \cup SeqMembers(backlog[Site[d]])
      BY <2>1 DEF SocketsKept
    <2>3. CASE d # c
      BY <1>4, <2>2, <2>3
    <2>4. CASE d = c
      <3>1. ~IsClient(net[k], c)
        BY <1>1, <2>2, <2>4 DEF Shape, DialledIsPeer, Calling
      <3> QED
        BY <1>3, <1>5, <2>2, <2>4, <3>1 DEF ClosedBy
    <2> QED
      BY <2>3, <2>4
  <1> QED
    BY <1>5 DEF SocketsKept, TableStep

LEMMA LeaveStepKept ==
    ASSUME Inv, SocketsKept, NEW c \in Cabinet, LeaveStep(c)
    PROVE  SocketsKept'
  <1> USE DEF Calling
  <1>1. RestOK /\ SocketsOK /\ Shape /\ TypeOK /\ MarkedBytes /\ Site[c] \in PC
    BY InvIs, TypeFacts DEF Inv
  <1>2. /\ state'[c] \in {"IDLE", "LISTENING"}
        /\ state'[c] = "LISTENING" => listener'[c] /\ ~listener[c]
        /\ \A d \in Cabinet : d # c => state'[d] = state[d] /\ listener'[d] = listener[d]
        /\ \A d \in Cabinet : d # c => Tab(d)' = Tab(d)
    BY <1>1 DEF LeaveStep, SocketsOK, Tab
  <1>3. \A k \in Conn : LeftBy(net[k], net'[k], c, k)
    BY <1>1, ClosedSocketsAre DEF LeaveStep
  <1>4. ASSUME NEW p \in PC
        PROVE  \/ port'[p] = port[p] /\ backlog'[p] = backlog[p] /\ ~(listener[c] /\ p = Site[c])
               \/ port'[p] = None /\ listener[c] /\ p = Site[c]
               \/ port'[p] = c /\ backlog'[p] = backlog[p] /\ state'[c] = "LISTENING"
    <2>1. CASE state'[c] = "IDLE" /\ ~listener'[c] /\ CloseListener(c) /\ listener[c]
      BY <1>1, <2>1 DEF CloseListener, SocketsOK
    <2>2. CASE state'[c] = "IDLE" /\ ~listener'[c] /\ CloseListener(c) /\ ~listener[c]
      BY <2>2 DEF CloseListener
    <2>3. CASE /\ state'[c] = "LISTENING"
               /\ port' = [port EXCEPT ![Site[c]] = c] /\ backlog' = backlog /\ ~listener[c]
      BY <1>1, <2>3 DEF SocketsOK
    <2> QED
      BY <2>1, <2>2, <2>3 DEF LeaveStep
  <1>5. \A d \in Cabinet : d # None /\ Site[d] \in PC
    BY RolesAssumption, TypeFacts, <1>1
  <1>6. ASSUME NEW d \in Cabinet, state'[d] = "LISTENING" PROVE listener'[d]
    BY <1>2, <1>6 DEF SocketsKept
  <1>7. ASSUME NEW d \in Cabinet, port'[Site[d]] = d PROVE listener'[d]
    <2>1. CASE d # c
      BY <1>2, <1>4, <1>5, <1>7, <2>1 DEF SocketsKept
    <2>2. CASE d = c
      BY <1>2, <1>4, <1>5, <1>7, <2>2 DEF SocketsKept
    <2> QED
      BY <2>1, <2>2
  <1>8. ASSUME NEW d \in Cabinet, NEW k \in Conn, Served(net'[k], d)
        PROVE  state'[d] = "LISTENING" /\ k \in Tab(d)' \cup SeqMembers(backlog'[Site[d]])
    <2>1. Served(net[k], d)
      BY <1>3, <1>8 DEF LeftBy
    <2>2. state[d] = "LISTENING" /\ k \in Tab(d) \cup SeqMembers(backlog[Site[d]]) /\ listener[d]
      BY <2>1 DEF SocketsKept
    <2>3. CASE d # c
      <3>1. port[Site[d]] = d
        BY <1>1, <2>2 DEF Shape, PortOwned
      <3>2. ~(listener[c] /\ Site[d] = Site[c])
        BY <1>1, <2>3, <3>1 DEF Shape, PortOwned
      <3>3. backlog'[Site[d]] = backlog[Site[d]]
        BY <1>4, <1>5, <3>2
      <3> QED
        BY <1>2, <2>2, <2>3, <3>3
    <2>4. CASE d = c
      BY <1>3, <1>8, <2>2, <2>4 DEF LeftBy, WaitsOn
    <2> QED
      BY <2>3, <2>4
  <1> QED
    BY <1>6, <1>7, <1>8 DEF SocketsKept

LEMMA WireKept ==
    ASSUME SocketsKept, UNCHANGED <<cabVars, port, backlog>>,
           \A k \in Conn : SameHolders(net[k], net'[k])
    PROVE  SocketsKept'
  <1>1. \A d \in Cabinet, k \in Conn : Served(net'[k], d) => Served(net[k], d)
    BY DEF SameHolders
  <1>2. /\ UNCHANGED <<state, listener, port, backlog>>
        /\ \A d \in Cabinet : Tab(d)' = Tab(d)
    BY DEF cabVars, Tab
  <1> QED
    BY <1>1, <1>2 DEF SocketsKept

LEMMA DialsKept ==
    ASSUME Inv, SocketsKept, NEW c \in Cabinet, PollDials(c)
    PROVE  SocketsKept'
  <1>1. RestOK /\ SocketsOK
    BY InvIs DEF Inv
  <1>2. PICK k \in Conn :
          /\ net[k] = FreeConn
          /\ net' = [net EXCEPT ![k] = [FreeConn EXCEPT !.cli = c, !.c = "syn"]]
          /\ peer' = [peer EXCEPT ![c] = <<k>>]
    BY DEF PollDials
  <1>3. \A d \in Cabinet, j \in Conn : Served(net'[j], d) => Served(net[j], d)
    <2>1. net'[k].s = "closed" /\ \A j \in Conn : j # k => net'[j] = net[j]
      BY <1>1, <1>2 DEF SocketsOK, FreeConn
    <2> QED
      BY <2>1 DEF Served, Shut
  <1>4. /\ state[c] = "IDLE" /\ state'[c] = "CONNECTING" /\ UNCHANGED <<listener, port, backlog>>
        /\ \A d \in Cabinet \ {c} : state'[d] = state[d] /\ Tab(d)' = Tab(d)
    BY <1>1, <1>2 DEF PollDials, RestOK, SocketsOK, Tab
  <1> QED
    BY <1>3, <1>4 DEF SocketsKept

LEMMA JoinsKept ==
    ASSUME Inv, SocketsKept, NEW c \in Cabinet, PollJoins(c)
    PROVE  SocketsKept'
  <1>1. RestOK
    BY InvIs
  <1>2. /\ state[c] = "CONNECTING" /\ state'[c] = "CLIENT"
        /\ UNCHANGED <<listener, port, backlog, net>>
        /\ \A d \in Cabinet : Tab(d)' = Tab(d)
        /\ \A d \in Cabinet \ {c} : state'[d] = state[d]
    BY <1>1 DEF PollJoins, RestOK, Tab, netVars
  <1> QED
    BY <1>2 DEF SocketsKept

LEMMA AcceptsKept ==
    ASSUME Inv, SocketsKept, NEW c \in Cabinet, PollAccepts(c)
    PROVE  /\ SocketsKept' /\ Tab(c) \subseteq Tab(c)'
           /\ \A d \in Cabinet : d # c => peer'[d] = peer[d]
  <1>1. SocketsOK /\ Shape /\ Site[c] \in PC /\ peer[c] \in Seq(Conn) /\ MaxPeers \in Nat
    BY InvIs, TypeFacts, BoundsAssumption DEF Inv
  <1> DEFINE queue == backlog[Site[c]]
             n == IF Len(queue) <= MaxPeers - Len(peer[c]) THEN Len(queue)
                  ELSE MaxPeers - Len(peer[c])
             front == SubSeq(queue, 1, n)
             rest == SubSeq(queue, n + 1, Len(queue))
  <1>2. state[c] = "LISTENING" /\ listener[c] /\ UNCHANGED <<state, listener, net, port>>
    BY DEF PollAccepts, SocketsKept
  <1>3. /\ peer' = [peer EXCEPT ![c] = @ \o front]
        /\ backlog' = [backlog EXCEPT ![Site[c]] = rest]
    BY <1>2 DEF PollAccepts
  <1>4. /\ queue \in Seq(Conn) /\ Len(queue) \in Nat /\ Len(peer[c]) \in Nat /\ Len(peer[c]) <= MaxPeers
        /\ DOMAIN queue = 1 .. Len(queue) /\ \A i \in 1 .. Len(queue) : queue[i] \in Conn
    BY <1>1, LenProperties DEF SocketsOK
  <1> HIDE DEF queue
  <1>5. n \in 0 .. Len(queue)
    <2>1. MaxPeers - Len(peer[c]) \in Nat
      BY <1>1, <1>4
    <2> QED
      BY <1>4, <2>1
  <1> HIDE DEF n
  <1>6. SeqMembers(queue) \subseteq SeqMembers(front) \cup SeqMembers(rest)
    <2>1. \A i \in 1 .. n : queue[i] \in Conn
      BY <1>4, <1>5
    <2>2. /\ front \in Seq(Conn) /\ Len(front) = IF 1 <= n THEN n - 1 + 1 ELSE 0
          /\ \A i \in 1 .. n - 1 + 1 : front[i] = queue[1 + i - 1]
      BY <1>5, <2>1, SubSeqProperties
    <2>3. \A i \in n + 1 .. Len(queue) : queue[i] \in Conn
      BY <1>4, <1>5
    <2>4. /\ rest \in Seq(Conn)
          /\ Len(rest) = IF n + 1 <= Len(queue) THEN Len(queue) - (n + 1) + 1 ELSE 0
          /\ \A i \in 1 .. Len(queue) - (n + 1) + 1 : rest[i] = queue[(n + 1) + i - 1]
      BY <1>4, <1>5, <2>3, SubSeqProperties
    <2> HIDE DEF front, rest
    <2>5. DOMAIN front = 1 .. n /\ DOMAIN rest = 1 .. Len(queue) - n
      <3>1. Len(front) = n
        BY <1>5, <2>2
      <3>2. Len(rest) = Len(queue) - n
        <4>1. CASE n + 1 <= Len(queue)
          <5>1. Len(queue) - (n + 1) + 1 = Len(queue) - n
            BY <1>4, <1>5
          <5> QED
            BY <2>4, <4>1, <5>1
        <4>2. CASE ~(n + 1 <= Len(queue))
          <5>1. Len(queue) \in Nat /\ n \in Nat /\ n <= Len(queue)
            BY <1>4, <1>5
          <5>2. n = Len(queue)
            BY <4>2, <5>1
          <5> QED
            BY <1>4, <2>4, <4>2, <5>2
        <4> QED
          BY <4>1, <4>2
      <3> QED
        BY <2>2, <2>4, <3>1, <3>2, LenProperties
    <2>6. ASSUME NEW i \in 1 .. Len(queue) PROVE queue[i] \in SeqMembers(front) \cup SeqMembers(rest)
      <3>1. CASE i <= n
        <4>1. i \in 1 .. n /\ i \in 1 .. n - 1 + 1 /\ 1 + i - 1 = i
          BY <1>5, <3>1
        <4>2. front[i] = queue[i]
          BY <2>2, <4>1
        <4> QED
          BY <2>5, <4>1, <4>2 DEF SeqMembers
      <3>2. CASE i > n
        <4>1. /\ i - n \in 1 .. Len(queue) - n /\ i - n \in 1 .. Len(queue) - (n + 1) + 1
              /\ (n + 1) + (i - n) - 1 = i
          BY <1>4, <1>5, <3>2
        <4>2. rest[i - n] = queue[i]
          BY <2>4, <4>1
        <4> QED
          BY <2>5, <4>1, <4>2 DEF SeqMembers
      <3> QED
        BY <1>4, <1>5, <3>1, <3>2
    <2> QED
      BY <1>4, <2>6 DEF SeqMembers
  <1>7. front \in Seq(Conn)
    BY <1>4, <1>5, SubSeqIs
  <1> HIDE DEF front, rest
  <1>8. SeqMembers(peer[c] \o front) = SeqMembers(peer[c]) \cup SeqMembers(front)
    BY <1>1, <1>7, ConcatIs
  <1>9. /\ Tab(c)' = Tab(c) \cup SeqMembers(front)
        /\ \A d \in Cabinet : d # c => peer'[d] = peer[d] /\ Tab(d)' = Tab(d)
    BY <1>1, <1>3, <1>8 DEF SocketsOK, Tab
  <1>10. backlog'[Site[c]] = rest /\ \A p \in PC : p # Site[c] => backlog'[p] = backlog[p]
    BY <1>1, <1>3 DEF SocketsOK
  <1>11. ASSUME NEW d \in Cabinet, NEW k \in Conn, Served(net[k], d)
         PROVE  state[d] = "LISTENING" /\ k \in Tab(d)' \cup SeqMembers(backlog'[Site[d]])
    <2>1. state[d] = "LISTENING" /\ k \in Tab(d) \cup SeqMembers(backlog[Site[d]]) /\ listener[d]
      BY <1>11 DEF SocketsKept
    <2>2. CASE d = c
      BY <1>6, <1>9, <1>10, <2>1, <2>2 DEF queue
    <2>3. CASE d # c
      <3>1. Site[d] # Site[c] /\ Site[d] \in PC
        BY <1>1, <1>2, <2>1, <2>3 DEF Shape, PortOwned, PC
      <3> QED
        BY <1>9, <1>10, <2>1, <2>3, <3>1
    <2> QED
      BY <2>2, <2>3
  <1>12. SocketsKept'
    BY <1>2, <1>11 DEF SocketsKept
  <1> QED
    BY <1>9, <1>12

LEMMA AnsweredKept ==
    ASSUME Inv, SocketsKept, NEW k \in Conn, SynAnswered(k)
    PROVE  SocketsKept'
  <1> DEFINE p == Dials[net[k].cli]
             o == port[p]
  <1>1. SocketsOK /\ Shape /\ TypeOK
    BY InvIs DEF Inv
  <1>2. net[k].c = "syn" /\ net[k].cli \in Cabinet /\ o # None
    BY <1>1 DEF SynAnswered, SynPending, Shape, SynUnserved
  <1>3. p \in PC /\ o \in Cabinet /\ p = Site[o]
    BY <1>1, <1>2, TypeFacts DEF Shape, PortOwned
  <1>4. /\ net' = [net EXCEPT ![k].c = "open", ![k].s = "open", ![k].srv = o]
        /\ backlog' = [backlog EXCEPT ![p] = Append(@, k)]
        /\ UNCHANGED <<state, listener, peer, port>>
    BY DEF SynAnswered, cabVars
  <1>5. net'[k].srv = o /\ \A j \in Conn : j # k => net'[j] = net[j]
    BY <1>1, <1>4 DEF SocketsOK, Connection
  <1> HIDE DEF o, p
  <1>6. backlog[p] \in Seq(Conn)
    BY <1>1, <1>3 DEF SocketsOK
  <1>7. /\ SeqMembers(backlog'[p]) = SeqMembers(backlog[p]) \cup {k}
        /\ \A q \in PC : q # p => backlog'[q] = backlog[q]
    BY <1>1, <1>3, <1>4, <1>6, AppendIs DEF SocketsOK
  <1>8. state[o] = "LISTENING"
    <2>1. listener[o]
      BY <1>3 DEF SocketsKept, o
    <2> QED
      BY <1>1, <1>3, <2>1 DEF Shape, PortOwned
  <1>9. ASSUME NEW d \in Cabinet, NEW j \in Conn, Served(net'[j], d)
        PROVE  state[d] = "LISTENING" /\ j \in Tab(d) \cup SeqMembers(backlog'[Site[d]])
    <2>1. CASE j = k
      <3>1. d = o
        BY <1>5, <1>9, <2>1 DEF Served
      <3> QED
        BY <1>3, <1>7, <1>8, <2>1, <3>1
    <2>2. CASE j # k
      <3>1. state[d] = "LISTENING" /\ j \in Tab(d) \cup SeqMembers(backlog[Site[d]])
        BY <1>5, <1>9, <2>2 DEF SocketsKept
      <3>2. Site[d] \in PC
        BY DEF PC
      <3> QED
        BY <1>7, <3>1, <3>2
    <2> QED
      BY <2>1, <2>2
  <1> QED
    BY <1>4, <1>9 DEF SocketsKept, Tab

\* A loop step moves at down and keeps a peer below it.
LEMMA LoopKept ==
    ASSUME Inv, LoopInTable, NEW c \in Cabinet,
           \A d \in Cabinet : d # c => peer'[d] = peer[d] /\ at'[d] = at[d],
           at'[c] > 0 => at'[c] <= Len(peer'[c])
    PROVE  LoopInTable'
  BY DEF LoopInTable

LEMMA SmallNext == SmallInv /\ SmallBus /\ [Next]_vars => SmallInv'
  <1> SUFFICES ASSUME SmallInv, SmallBus, [Next]_vars PROVE SmallInv'
    OBVIOUS
  <1>1. Inv /\ LoopInTable /\ SocketsKept /\ Inv' /\ RestOK /\ SocketsOK
    BY NextInv, InvIs DEF SmallInv
  <1>2. ASSUME NEW c \in Cabinet
        PROVE  /\ Len(peer[c]) \in Nat /\ Len(peer[c]) <= 2 /\ at[c] \in Out .. MaxPeers
               /\ MaxPeers \in Nat /\ (at[c] > 0 => at[c] <= Len(peer[c]))
    BY <1>1, TypeFacts, BoundsAssumption DEF Inv, RestOK, SmallBus, LoopInTable
  <1>3. ASSUME NEW c \in Cabinet PROVE at[c] <= Len(peer[c])
    BY <1>2 DEF Out
  <1>4. ASSUME NEW c \in Cabinet, TableStep(c), listener' = listener,
               at'[c] > 0 => at'[c] <= Len(peer'[c]),
               \A d \in Cabinet : d # c => at'[d] = at[d]
        PROVE  SocketsKept' /\ LoopInTable'
    <2>1. SocketsKept'
      BY <1>1, <1>3, <1>4, TableStepKept
    <2>2. \A d \in Cabinet : d # c => peer'[d] = peer[d]
      BY <1>4 DEF TableStep, Drops
    <2> QED
      BY <1>1, <1>4, <2>1, <2>2, LoopKept
  <1>5. ASSUME NEW c \in Cabinet, LeaveStep(c), ~(at'[c] > 0),
               \A d \in Cabinet : d # c => at'[d] = at[d]
        PROVE  SocketsKept' /\ LoopInTable'
    <2>1. \A d \in Cabinet : d # c => peer'[d] = peer[d]
      BY <1>1, <1>5 DEF LeaveStep, SocketsOK
    <2> QED
      BY <1>1, <1>5, <2>1, LeaveStepKept, LoopKept
  <1>6. ASSUME NEW c \in Cabinet,
               PollHeld(c) \/ PollTryFails(c) \/ PollClient(c) \/ HoldExpires(c) \/ DrainQuiet(c)
        PROVE  SocketsKept' /\ LoopInTable'
    <2>1. TableStep(c)
      BY <1>1, <1>6, PollInv
    <2>2. /\ listener' = listener /\ peer' = peer
          /\ \/ at' = at \/ at' = [at EXCEPT ![c] = 0] \/ at' = [at EXCEPT ![c] = Len(peer[c])]
             \/ at' = [at EXCEPT ![c] = @ - 1]
      BY <1>6 DEF PollHeld, PollTryFails, PollClient, HoldExpires, DrainQuiet, NextSlot
    <2>3. \A d \in Cabinet : d # c => at'[d] = at[d]
      BY <1>1, <2>2 DEF RestOK
    <2>4. at'[c] > 0 => at'[c] <= Len(peer'[c])
      <3>1. at'[c] \in {at[c], 0, Len(peer[c]), at[c] - 1} /\ peer'[c] = peer[c]
        BY <1>1, <2>2 DEF RestOK
      <3>2. at[c] \in Int /\ Len(peer[c]) \in Nat /\ at[c] <= Len(peer[c])
        BY <1>2, <1>3 DEF Out
      <3> QED
        BY <3>1, <3>2
    <2> QED
      BY <1>4, <2>1, <2>2, <2>3, <2>4
  <1>7. ASSUME NEW c \in Cabinet, PollHostListens(c) \/ PollListensInstead(c) \/ PollGivesUp(c)
                                  \/ DrainClientLost(c) \/ Restart(c)
        PROVE  SocketsKept' /\ LoopInTable'
    <2>1. LeaveStep(c)
      BY <1>1, <1>7, ListensInv, GivesUpInv, LostInv
    <2>2. at' = [at EXCEPT ![c] = 0] \/ (at' = at /\ at[c] = Out)
      BY <1>7 DEF PollHostListens, PollListensInstead, PollGivesUp, ConnectFailed,
                  DrainClientLost, Restart
    <2>3. ~(at'[c] > 0) /\ \A d \in Cabinet : d # c => at'[d] = at[d]
      BY <1>1, <2>2 DEF RestOK, Out
    <2> QED
      BY <1>5, <2>1, <2>3
  <1>8. ASSUME NEW c \in Cabinet, PollDials(c) PROVE SocketsKept' /\ LoopInTable'
    <2>1. /\ at' = at /\ at[c] = Out /\ \A d \in Cabinet : d # c => peer'[d] = peer[d]
      BY <1>1, <1>8 DEF PollDials, Polling, SocketsOK
    <2> QED
      BY <1>1, <1>8, <2>1, DialsKept, LoopKept DEF Out
  <1>9. ASSUME NEW c \in Cabinet, PollJoins(c) PROVE SocketsKept' /\ LoopInTable'
    <2>1. /\ at' = [at EXCEPT ![c] = 1] /\ peer' = peer /\ Len(peer[c]) = 1
      BY <1>1, <1>9 DEF PollJoins, Inv, Shape, PeersMatchState
    <2>2. at'[c] = 1 /\ \A d \in Cabinet : d # c => at'[d] = at[d]
      BY <1>1, <2>1 DEF RestOK
    <2> QED
      BY <1>1, <1>9, <2>1, <2>2, JoinsKept, LoopKept
  <1>10. ASSUME NEW c \in Cabinet, PollAccepts(c) PROVE SocketsKept' /\ LoopInTable'
    <2>1. SocketsKept' /\ \A d \in Cabinet : d # c => peer'[d] = peer[d]
      BY <1>1, <1>10, AcceptsKept
    <2>2. at' = [at EXCEPT ![c] = Len(peer'[c])]
      BY <1>10 DEF PollAccepts, DrainFrom
    <2>3. at'[c] = Len(peer'[c]) /\ \A d \in Cabinet : d # c => at'[d] = at[d]
      BY <1>1, <2>2 DEF RestOK
    <2>4. Len(peer'[c]) \in Nat
      BY <1>1, LenProperties DEF Inv, TypeOK
    <2> QED
      BY <1>1, <2>1, <2>3, <2>4, LoopKept
  \* The relay may drop the other peer: the one that was heard stays.
  <1>11. ASSUME NEW c \in Cabinet, DrainHears(c) PROVE SocketsKept' /\ LoopInTable'
    <2>1. /\ TableStep(c) /\ InSlot(c) \in SeqMembers(peer'[c])
          /\ state[c] = "CLIENT" => peer' = peer
      BY <1>1, <1>11, HearsInv, HearsDrops
    <2>2. /\ at[c] > 0 /\ at' = [at EXCEPT ![c] = at[c] - 1] /\ listener' = listener
      BY <1>11 DEF DrainHears, NextSlot
    <2>3. at'[c] = at[c] - 1 /\ \A d \in Cabinet : d # c => at'[d] = at[d]
      BY <1>1, <2>2 DEF RestOK
    <2>4. peer'[c] # <<>> /\ Len(peer'[c]) \in Nat /\ Len(peer'[c]) # 0
      <3>1. peer'[c] \in Seq(Conn)
        BY <1>1 DEF Inv, TypeOK
      <3> QED
        BY <2>1, <3>1, EmptyIs, MembersIs
    <2>5. at'[c] > 0 => at'[c] <= Len(peer'[c])
      BY <1>2, <2>2, <2>3, <2>4 DEF Out
    <2> QED
      BY <1>4, <2>1, <2>2, <2>3, <2>5
  <1>12. ASSUME NEW c \in Cabinet, DrainPeerLost(c) PROVE SocketsKept' /\ LoopInTable'
    <2>1. TableStep(c) /\ listener' = listener /\ Len(peer'[c]) = Len(peer[c]) - 1
      BY <1>1, <1>3, <1>12, PeerLostInv, LostDrops
    <2>2. at[c] > 0 /\ at' = [at EXCEPT ![c] = at[c] - 1]
      BY <1>12 DEF DrainPeerLost, PeerLost, NextSlot
    <2>3. at'[c] = at[c] - 1 /\ \A d \in Cabinet : d # c => at'[d] = at[d]
      BY <1>1, <2>2 DEF RestOK
    <2>4. at'[c] > 0 => at'[c] <= Len(peer'[c])
      BY <1>2, <2>1, <2>2, <2>3 DEF Out
    <2> QED
      BY <1>4, <2>1, <2>3, <2>4
  <1>13. ASSUME NEW c \in Cabinet, Flush(c) \/ Read(c) \/ Write(c) PROVE SocketsKept' /\ LoopInTable'
    <2>1. TableStep(c)
      BY <1>1, <1>13, FlushInv, ReadInv, WriteInv
    <2>2. listener' = listener /\ (at' = [at EXCEPT ![c] = Out] \/ (at' = at /\ at[c] = Out))
      BY <1>13 DEF Flush, Read, Write
    <2>3. at'[c] = Out /\ \A d \in Cabinet : d # c => at'[d] = at[d]
      BY <1>1, <2>2 DEF RestOK
    <2> QED
      BY <1>4, <2>1, <2>2, <2>3 DEF Out
  <1>14. ASSUME NEW k \in Conn,
                SynRefused(k) \/ Fin(k) \/ Rst(k) \/ Break(k)
         PROVE  SocketsKept' /\ LoopInTable'
    <2>1. \A j \in Conn : SameHolders(net[j], net'[j])
      BY <1>1, <1>14, NetworkInv
    <2>2. UNCHANGED <<cabVars, port, backlog>>
      BY <1>14 DEF SynRefused, Fin, Rst, Break
    <2> QED
      BY <1>1, <2>1, <2>2, WireKept DEF LoopInTable, cabVars
  <1>15. ASSUME NEW k \in Conn, SynAnswered(k) PROVE SocketsKept' /\ LoopInTable'
    BY <1>1, <1>15, AnsweredKept DEF LoopInTable, SynAnswered, cabVars
  <1>16. ASSUME UNCHANGED vars PROVE SocketsKept' /\ LoopInTable'
    <2>1. UNCHANGED <<state, listener, peer, at, net, port, backlog>>
      BY <1>16 DEF vars, cabVars, netVars
    <2>2. SocketsKept'
      BY <1>1, <2>1 DEF SocketsKept, Tab
    <2>3. LoopInTable'
      BY <1>1, <2>1 DEF LoopInTable
    <2> QED
      BY <2>2, <2>3
  <1>17. SocketsKept' /\ LoopInTable'
    <2>1. CASE \E c \in Cabinet :
                 \/ Poll(c) \/ DrainHears(c) \/ DrainQuiet(c) \/ DrainClientLost(c)
                 \/ DrainPeerLost(c) \/ Flush(c) \/ Read(c) \/ Write(c)
                 \/ HoldExpires(c) \/ Restart(c)
      BY <2>1, <1>6, <1>7, <1>8, <1>9, <1>10, <1>11, <1>12, <1>13, Zenon DEF Poll
    <2>2. CASE \E k \in Conn :
                 SynRefused(k) \/ SynAnswered(k) \/ Fin(k) \/ Rst(k) \/ Break(k)
      BY <2>2, <1>14, <1>15, Zenon
    <2> QED
      BY <1>16, <2>1, <2>2, Zenon DEF Next
  <1> QED
    BY <1>1, <1>17 DEF SmallInv

LEMMA SmallInit == Init => SmallInv
  <1> SUFFICES ASSUME Init PROVE SmallInv
    OBVIOUS
  <1>1. LoopInTable
    BY DEF Init, LoopInTable, Out
  <1>2. \A c \in Cabinet : c # None /\ Site[c] \in PC
    BY RolesAssumption DEF PC
  <1>3. SocketsKept
    BY <1>2 DEF Init, SocketsKept, Served, FreeConn, Shut
  <1> QED
    BY <1>1, <1>3, InitInv DEF SmallInv

\* While no cabinet has more than two peers the loop of funlink_poll never
\* looks past its table, and no listening socket is overwritten or forgotten.
THEOREM SmallInvHolds == Spec /\ []SmallBus => []SmallInv
  BY SmallInit, SmallNext, PTL DEF Spec

\* While no cabinet has more than two peers, dev->state, the listener and the
\* peer table never disagree, on however many cabinets and ports.
THEOREM StateExact == Spec /\ []SmallBus => []StateMatchesSockets
  <1>1. SmallInv => StateMatchesSockets
    <2> SUFFICES ASSUME SmallInv, NEW c \in Cabinet
                 PROVE  /\ state[c] = "LISTENING" <=> listener[c]
                        /\ listener[c] <=> port[Site[c]] = c
                        /\ state[c] = "IDLE" => peer[c] = <<>>
                        /\ state[c] = "CONNECTING" => Len(peer[c]) = 1
                        /\ state[c] = "CLIENT" => Len(peer[c]) <= 1
      BY DEF StateMatchesSockets
    <2>1. listener[c] \in BOOLEAN
      BY InvIs DEF SmallInv, RestOK
    <2>2. listener[c] => state[c] = "LISTENING" /\ port[Site[c]] = c
      BY DEF SmallInv, Inv, Shape, PortOwned
    <2>3. (state[c] = "LISTENING" => listener[c]) /\ (port[Site[c]] = c => listener[c])
      BY DEF SmallInv, SocketsKept
    <2>4. /\ state[c] = "IDLE" => peer[c] = <<>>
          /\ state[c] = "CONNECTING" => Len(peer[c]) = 1
          /\ state[c] = "CLIENT" => Len(peer[c]) <= 1
      BY DEF SmallInv, Inv, Shape, PeersMatchState
    <2> QED
      BY <2>1, <2>2, <2>3, <2>4
  <1> QED
    BY <1>1, SmallInvHolds, PTL

LEMMA InjectiveCount ==
    ASSUME NEW T, NEW s \in Seq(T), Injective(s)
    PROVE  Cardinality(SeqMembers(s)) = Len(s)
  <1> DEFINE n == Len(s)
             M == SeqMembers(s)
  <1>1. n \in Nat /\ DOMAIN s = 1 .. n
    BY LenProperties
  <1>2. s \in Bijection(1 .. n, M)
    <2>1. s \in [1 .. n -> M] /\ \A m \in M : \E i \in 1 .. n : s[i] = m
      BY <1>1, MembersIs DEF SeqMembers
    <2>2. \A i, j \in 1 .. n : s[i] = s[j] => i = j
      BY <1>1 DEF Injective
    <2> QED
      BY <2>1, <2>2, Fun_IsBij
  <1>3. IsFiniteSet(1 .. n) /\ Cardinality(1 .. n) = n
    BY <1>1, FS_Interval, SMTT(30)
  <1>4. IsFiniteSet(M) /\ Cardinality(M) = n
    BY <1>2, <1>3, FS_Bijection DEF ExistsBijection
  <1> QED
    BY <1>4

\* Nor is a socket leaked, or used after it is closed: those a cabinet holds are
\* the ones in its table, each once, and in its listen queue.
THEOREM TableSafe == Spec /\ []SmallBus => []TableIsExact
  <1>1. SmallInv => TableIsExact
    <2> SUFFICES ASSUME SmallInv, NEW c \in Cabinet
                 PROVE  LET queued == IF listener[c] THEN SeqMembers(backlog[Site[c]]) ELSE {}
                        IN  /\ {k \in Conn : Holds(c, k)} = SeqMembers(peer[c]) \cup queued
                            /\ SeqMembers(peer[c]) \cap queued = {}
                            /\ Cardinality(SeqMembers(peer[c])) = Len(peer[c])
      BY DEF TableIsExact
    <2> DEFINE queued == IF listener[c] THEN SeqMembers(backlog[Site[c]]) ELSE {}
    <2>1. /\ TypeOK /\ Shape /\ SocketsKept /\ Site[c] \in PC /\ listener[c] \in BOOLEAN
          /\ Tab(c) \subseteq Conn /\ SeqMembers(backlog[Site[c]]) \subseteq Conn
          /\ peer[c] \in Seq(Conn) /\ Injective(peer[c])
          /\ state[c] \in {"IDLE", "CONNECTING", "CLIENT", "LISTENING"}
      BY TypeFacts DEF SmallInv, Inv, Shape, Once, TypeOK
    <2>2. Cardinality(SeqMembers(peer[c])) = Len(peer[c])
      BY <2>1, InjectiveCount
    <2>3. listener[c] => state[c] = "LISTENING" /\ port[Site[c]] = c
      BY <2>1 DEF Shape, PortOwned
    <2>4. \A k \in queued : k \in Conn /\ listener[c] /\ Served(net[k], c)
      BY <2>1, <2>3 DEF Shape, QueuedIsServed
    <2>5. Tab(c) \cap queued = {}
      BY <2>1, <2>3 DEF Shape, Once
    <2>6. ASSUME NEW k \in Conn, Holds(c, k) PROVE k \in Tab(c) \cup queued
      <3>1. CASE IsClient(net[k], c)
        BY <2>1, <3>1 DEF Shape, DialledIsPeer
      <3>2. CASE Served(net[k], c)
        BY <2>1, <3>2 DEF SocketsKept
      <3> QED
        BY <2>6, <3>1, <3>2 DEF Holds, Served
    <2>7. ASSUME NEW k \in Tab(c) PROVE k \in Conn /\ Holds(c, k)
      <3>1. IsClient(net[k], c) \/ Served(net[k], c)
        BY <2>1, EmptyIs DEF Shape, PeersMatchState, Calling, Tab
      <3> QED
        BY <2>1, <3>1 DEF Holds, Served
    <2>8. {k \in Conn : Holds(c, k)} = Tab(c) \cup queued
      BY <2>4, <2>6, <2>7 DEF Holds, Served
    <2> QED
      BY <2>2, <2>5, <2>8 DEF Tab
  <1> QED
    BY <1>1, SmallInvHolds, PTL

\* What ListenerStays says of one cabinet in one step.
Stays(c) ==
    state[c] = "LISTENING" =>
      \/ /\ state'[c] = "LISTENING" /\ listener'[c] = listener[c]
         /\ \A k \in Tab(c) : net[k].s = "open" => k \in Tab(c)'
      \/ faults' = faults + 1

LEMMA TableStepStays ==
    ASSUME Inv, NEW c \in Cabinet, TableStep(c), listener' = listener, at[c] <= Len(peer[c]),
           NEW d \in Cabinet
    PROVE  Stays(d)
  <1> SUFFICES ASSUME state[d] = "LISTENING", NEW k \in Tab(d), net[k].s = "open"
               PROVE  k \in Tab(d)'
    BY DEF Stays, TableStep
  <1>1. CASE d # c
    BY <1>1 DEF TableStep, Drops, Tab
  <1>2. CASE d = c
    <2>1. k \in Conn
      BY TypeFacts DEF Inv
    <2>2. ~IsClient(net[k], c)
      BY <1>2, <2>1 DEF Inv, Shape, DialledIsPeer, Calling
    <2>3. EndOf(net[k], c) = "open"
      BY <2>2 DEF EndOf
    <2>4. ~(at[c] > Len(peer[c]))
      <3>1. at[c] \in Int /\ Len(peer[c]) \in Nat
        BY BoundsAssumption, TypeFacts DEF Inv, TypeOK, Out
      <3> QED
        BY <3>1
    <2>5. OnlyDrops(c, k, net'[k], peer'[c])
      BY <2>1 DEF TableStep, Drops
    <2> QED
      BY <1>2, <2>3, <2>4, <2>5 DEF OnlyDrops, Tab
  <1> QED
    BY <1>1, <1>2

\* A step that touches only the table of c leaves the other listeners alone, and
\* c too if it was none.
LEMMA OthersStay ==
    ASSUME NEW c \in Cabinet, state[c] # "LISTENING",
           \A d \in Cabinet : d # c =>
             state'[d] = state[d] /\ listener'[d] = listener[d] /\ peer'[d] = peer[d],
           NEW d \in Cabinet
    PROVE  Stays(d)
  BY DEF Stays, Tab

LEMMA StepStays == SmallInv /\ SmallBus /\ Next => \A d \in Cabinet : Stays(d)
  <1> SUFFICES ASSUME SmallInv, SmallBus, Next, NEW d \in Cabinet PROVE Stays(d)
    OBVIOUS
  <1>1. Inv /\ LoopInTable /\ SocketsKept /\ RestOK /\ SocketsOK
    BY InvIs DEF SmallInv
  <1>2. ASSUME NEW c \in Cabinet PROVE at[c] <= Len(peer[c])
    <2>1. Len(peer[c]) \in Nat /\ at[c] \in Out .. MaxPeers /\ MaxPeers \in Nat
          /\ (at[c] > 0 => at[c] <= Len(peer[c]))
      BY <1>1, TypeFacts, BoundsAssumption DEF Inv, RestOK, LoopInTable
    <2> QED
      BY <2>1 DEF Out
  <1>3. ASSUME NEW c \in Cabinet,
               \/ PollHeld(c) \/ PollTryFails(c) \/ PollClient(c) \/ HoldExpires(c)
               \/ DrainQuiet(c)
        PROVE  Stays(d)
    <2>1. state' = state /\ listener' = listener /\ peer' = peer
      BY <1>3 DEF PollHeld, PollTryFails, PollClient, HoldExpires, DrainQuiet
    <2> QED
      BY <2>1 DEF Stays, Tab
  <1>4. ASSUME NEW c \in Cabinet, PollHostListens(c) \/ PollListensInstead(c) \/ PollGivesUp(c)
                                  \/ DrainClientLost(c)
        PROVE  Stays(d)
    <2>1. LeaveStep(c)
      BY <1>1, <1>4, ListensInv, GivesUpInv, LostInv
    <2>2. state[c] # "LISTENING"
      BY <1>4 DEF PollHostListens, PollListensInstead, PollGivesUp, ConnectFailed, DrainClientLost
    <2>3. \A e \in Cabinet : e # c => peer'[e] = peer[e]
      BY <1>1, <2>1 DEF LeaveStep, SocketsOK
    <2> QED
      BY <2>1, <2>2, <2>3, OthersStay DEF LeaveStep
  <1>5. ASSUME NEW c \in Cabinet, Restart(c) PROVE Stays(d)
    BY <1>5 DEF Restart, Stays
  <1>6. ASSUME NEW c \in Cabinet, PollDials(c) PROVE Stays(d)
    <2>1. state[c] # "LISTENING" /\ listener' = listener
          /\ \A e \in Cabinet : e # c => state'[e] = state[e] /\ peer'[e] = peer[e]
      BY <1>1, <1>6 DEF PollDials, SocketsOK, Inv, TypeOK
    <2> QED
      BY <2>1, OthersStay
  <1>7. ASSUME NEW c \in Cabinet, PollJoins(c) PROVE Stays(d)
    <2>1. state[c] # "LISTENING" /\ listener' = listener /\ peer' = peer
          /\ \A e \in Cabinet : e # c => state'[e] = state[e]
      BY <1>1, <1>7 DEF PollJoins, Inv, TypeOK
    <2> QED
      BY <2>1, OthersStay
  <1>8. ASSUME NEW c \in Cabinet, PollAccepts(c) PROVE Stays(d)
    <2>1. Tab(c) \subseteq Tab(c)' /\ \A e \in Cabinet : e # c => peer'[e] = peer[e]
      BY <1>1, <1>8, AcceptsKept
    <2>2. state' = state /\ listener' = listener
      BY <1>8 DEF PollAccepts
    <2> QED
      BY <2>1, <2>2 DEF Stays, Tab
  <1>9. ASSUME NEW c \in Cabinet, DrainHears(c) PROVE Stays(d)
    <2>1. TableStep(c) /\ listener' = listener
      BY <1>1, <1>9, HearsInv DEF DrainHears
    <2> QED
      BY <1>1, <1>2, <2>1, TableStepStays
  <1>10. ASSUME NEW c \in Cabinet, DrainPeerLost(c) PROVE Stays(d)
    <2>1. TableStep(c) /\ listener' = listener
      BY <1>1, <1>2, <1>10, PeerLostInv, LostDrops
    <2> QED
      BY <1>1, <1>2, <2>1, TableStepStays
  <1>11. ASSUME NEW c \in Cabinet, Flush(c) \/ Read(c) \/ Write(c) PROVE Stays(d)
    <2>1. TableStep(c)
      BY <1>1, <1>11, FlushInv, ReadInv, WriteInv
    <2>2. listener' = listener
      BY <1>11 DEF Flush, Read, Write
    <2> QED
      BY <1>1, <1>2, <2>1, <2>2, TableStepStays
  <1>12. ASSUME NEW k \in Conn,
                SynRefused(k) \/ SynAnswered(k) \/ Fin(k) \/ Rst(k) \/ Break(k)
         PROVE  Stays(d)
    <2>1. UNCHANGED cabVars
      BY <1>12 DEF SynRefused, SynAnswered, Fin, Rst, Break
    <2> QED
      BY <2>1 DEF cabVars, Stays, Tab
  <1>13. CASE \E c \in Cabinet :
                 \/ Poll(c) \/ DrainHears(c) \/ DrainQuiet(c) \/ DrainClientLost(c)
                 \/ DrainPeerLost(c) \/ Flush(c) \/ Read(c) \/ Write(c)
                 \/ HoldExpires(c) \/ Restart(c)
    BY <1>13, <1>3, <1>4, <1>5, <1>6, <1>7, <1>8, <1>9, <1>10, <1>11, Zenon DEF Poll
  <1>14. CASE \E k \in Conn :
                 SynRefused(k) \/ SynAnswered(k) \/ Fin(k) \/ Rst(k) \/ Break(k)
    BY <1>12, <1>14, Zenon
  <1> QED
    BY <1>13, <1>14, Zenon DEF Next

\* "A listener that lost a peer keeps waiting for it to come back": only a reset
\* of its machine stops a listener, and it drops no peer whose connection is alive.
THEOREM ListenersStay == Spec /\ []SmallBus => ListenerStays
  <1>1. SmallInv /\ SmallBus /\ [Next]_vars =>
          [\A c \in Cabinet :
             state[c] = "LISTENING" =>
               \/ state'[c] = "LISTENING" /\ listener'[c] = listener[c]
                    /\ \A k \in SeqMembers(peer[c]) :
                         net[k].s = "open" => k \in SeqMembers(peer'[c])
               \/ faults' = faults + 1]_vars
    BY StepStays DEF Stays, Tab
  <1> QED
    BY <1>1, SmallInvHolds, PTL DEF Spec, ListenerStays

-----------------------------------------------------------------------------
(* The order of what a cabinet hears.                                      *)

\* Of one sender and one connection, x was sent before y.
Below(x, y) == x.from = y.from /\ x.via = y.via => x.n < y.n
Before(S, T) == \A x \in S, y \in T : Below(x, y)
Sorted(s) == \A i, j \in DOMAIN s : i < j => Below(s[i], s[j])

\* What the guest of d has read, and with it what it will read.
Heard(d) == {b \in Byte : \E i \in DOMAIN heard[d][b.from] :
                            heard[d][b.from][i] = [n |-> b.n, via |-> b.via]}
Told(d) == SeqMembers(rx[d]) \cup Heard(d)

\* A byte has passed when its sender has sent it, and before all it buffers.
Passed(b) == b.n <= sent[b.from] /\ \A x \in SeqMembers(tx[b.from]) : b.n < x.n
Echoed(d, b) == b.from = d /\ b.via = None /\ b.n <= sent[d]

\* The coalescing buffers.
BuffersInOrder ==
    \A c \in Cabinet :
      /\ Sorted(tx[c])
      /\ \A b \in SeqMembers(tx[c]) : b.from = c /\ b.via = None /\ b.n <= sent[c]

\* The guests and their rings.
Mark == [n : 1 .. MaxBytes, via : Conn \cup {None}]
GuestsInOrder ==
    /\ heard \in [Cabinet -> [Cabinet -> Seq(Mark)]]
    /\ \A d, o \in Cabinet : \A i, j \in DOMAIN heard[d][o] :
         i < j /\ heard[d][o][i].via = heard[d][o][j].via => heard[d][o][i].n < heard[d][o][j].n
    /\ \A d \in Cabinet : Sorted(rx[d]) /\ Before(Heard(d), SeqMembers(rx[d]))
    /\ \A d \in Cabinet : \A b \in Told(d) : Passed(b) \/ Echoed(d, b)

\* The wires nt: what goes up to a listener is after all that anybody has of it,
\* what comes down to a client is after all that client has of it.
WiresInOrder(nt) ==
    /\ \A k \in Conn : Sorted(nt[k].up) /\ Sorted(nt[k].dn)
    /\ \A j, k \in Conn : Before(SeqMembers(nt[j].dn), SeqMembers(nt[k].up))
    /\ \A d \in Cabinet, k \in Conn : Before(Told(d), SeqMembers(nt[k].up))
    /\ \A d \in Cabinet, k \in Conn : IsClient(nt[k], d) => Before(Told(d), SeqMembers(nt[k].dn))
    /\ \A k \in Conn : \A b \in SeqMembers(nt[k].dn) : b.via = None => b.from # nt[k].cli
WiresPassed ==
    \A k \in Conn : \A b \in SeqMembers(net[k].up) \cup SeqMembers(net[k].dn) : Passed(b)
Ordered == BuffersInOrder /\ GuestsInOrder /\ WiresInOrder(net) /\ WiresPassed

-----------------------------------------------------------------------------
(* Sequences in order.                                                     *)

LEMMA PartsInOrder ==
    ASSUME NEW s \in Seq(Byte), Sorted(s), NEW m \in 0 .. Len(s)
    PROVE  /\ SubSeq(s, 1, m) \in Seq(Byte) /\ SubSeq(s, m + 1, Len(s)) \in Seq(Byte)
           /\ Sorted(SubSeq(s, 1, m)) /\ Sorted(SubSeq(s, m + 1, Len(s)))
           /\ SeqMembers(SubSeq(s, 1, m)) \subseteq SeqMembers(s)
           /\ SeqMembers(SubSeq(s, m + 1, Len(s))) \subseteq SeqMembers(s)
           /\ Before(SeqMembers(SubSeq(s, 1, m)), SeqMembers(SubSeq(s, m + 1, Len(s))))
  <1> DEFINE n == Len(s)
             f == SubSeq(s, 1, m)
             r == SubSeq(s, m + 1, n)
  <1>1. n \in Nat /\ DOMAIN s = 1 .. n /\ (\A i \in 1 .. n : s[i] \in Byte) /\ m \in Nat /\ m <= n
    BY LenProperties
  <1>2. /\ f \in Seq(Byte) /\ Len(f) = m /\ \A i \in 1 .. m : f[i] = s[i]
    <2>1. 1 \in Int /\ m \in Int /\ \A i \in 1 .. m : s[i] \in Byte
      BY <1>1
    <2>2. /\ f \in Seq(Byte) /\ Len(f) = IF 1 <= m THEN m - 1 + 1 ELSE 0
          /\ \A i \in 1 .. m - 1 + 1 : f[i] = s[1 + i - 1]
      BY <2>1, SubSeqProperties
    <2> HIDE DEF f
    <2> QED
      BY <1>1, <2>2
  <1>3. /\ r \in Seq(Byte) /\ Len(r) = n - m /\ \A i \in 1 .. n - m : r[i] = s[m + i]
    <2>1. m + 1 \in Int /\ n \in Int /\ \A i \in m + 1 .. n : s[i] \in Byte
      BY <1>1
    <2>2. /\ r \in Seq(Byte) /\ Len(r) = IF m + 1 <= n THEN n - (m + 1) + 1 ELSE 0
          /\ \A i \in 1 .. n - (m + 1) + 1 : r[i] = s[m + 1 + i - 1]
      BY <2>1, SubSeqProperties
    <2> HIDE DEF r, n
    <2>3. Len(r) = n - m
      BY <1>1, <2>2
    <2>4. \A i \in 1 .. n - m : i \in 1 .. n - (m + 1) + 1 /\ m + 1 + i - 1 = m + i
      BY <1>1
    <2> QED
      BY <2>2, <2>3, <2>4
  <1> HIDE DEF f, r, n
  <1>4. DOMAIN f = 1 .. m /\ DOMAIN r = 1 .. n - m
    BY <1>2, <1>3, LenProperties
  <1>5. \A i \in 1 .. m : i \in 1 .. n /\ f[i] = s[i]
    BY <1>1, <1>2
  <1>6. \A i \in 1 .. n - m : m + i \in 1 .. n /\ i \in Nat /\ r[i] = s[m + i]
    BY <1>1, <1>3
  <1>7. \A i, j \in 1 .. n : i < j => Below(s[i], s[j])
    BY <1>1 DEF Sorted
  <1>8. Sorted(f)
    BY <1>4, <1>5, <1>7 DEF Sorted
  <1>9. Sorted(r)
    <2> SUFFICES ASSUME NEW i \in 1 .. n - m, NEW j \in 1 .. n - m, i < j
                 PROVE  Below(r[i], r[j])
      BY <1>4 DEF Sorted
    <2>1. m + i < m + j
      BY <1>1
    <2> QED
      BY <1>6, <1>7, <2>1
  <1>10. SeqMembers(f) \subseteq SeqMembers(s)
    BY <1>1, <1>4, <1>5 DEF SeqMembers
  <1>11. SeqMembers(r) \subseteq SeqMembers(s)
    BY <1>1, <1>4, <1>6 DEF SeqMembers
  <1>12. Before(SeqMembers(f), SeqMembers(r))
    <2> SUFFICES ASSUME NEW i \in 1 .. m, NEW j \in 1 .. n - m PROVE Below(f[i], r[j])
      BY <1>4 DEF SeqMembers, Before
    <2>1. i < m + j
      BY <1>1
    <2> QED
      BY <1>5, <1>6, <1>7, <2>1
  <1> QED
    BY <1>2, <1>3, <1>8, <1>9, <1>10, <1>11, <1>12 DEF f, r, n

LEMMA ConcatInOrder ==
    ASSUME NEW s \in Seq(Byte), NEW q \in Seq(Byte), Sorted(s), Sorted(q),
           Before(SeqMembers(s), SeqMembers(q))
    PROVE  Sorted(s \o q)
  <1> DEFINE a == s \o q
             m == Len(s)
             n == Len(q)
  <1>1. /\ a \in Seq(Byte) /\ Len(a) = m + n
        /\ \A i \in 1 .. m + n : a[i] = IF i <= m THEN s[i] ELSE q[i - m]
    BY ConcatProperties
  <1>2. m \in Nat /\ DOMAIN s = 1 .. m /\ n \in Nat /\ DOMAIN q = 1 .. n
    BY LenProperties
  <1>3. DOMAIN a = 1 .. m + n
    BY <1>1, LenProperties
  <1> HIDE DEF a, m, n
  <1>4. \A i \in 1 .. m + n : \/ i \in 1 .. m /\ a[i] = s[i]
                              \/ i > m /\ i - m \in 1 .. n /\ a[i] = q[i - m]
    BY <1>1, <1>2
  <1>5. /\ \A i, j \in 1 .. m : i < j => Below(s[i], s[j])
        /\ \A i, j \in 1 .. n : i < j => Below(q[i], q[j])
        /\ \A i \in 1 .. m, j \in 1 .. n : Below(s[i], q[j])
    BY <1>2 DEF Sorted, Before, SeqMembers
  <1> SUFFICES ASSUME NEW i \in 1 .. m + n, NEW j \in 1 .. m + n, i < j
               PROVE  Below(a[i], a[j])
    BY <1>3 DEF Sorted, a
  <1>6. CASE i \in 1 .. m /\ a[i] = s[i]
    BY <1>4, <1>5, <1>6
  <1>7. CASE i > m /\ i - m \in 1 .. n /\ a[i] = q[i - m]
    <2>1. j - m \in 1 .. n /\ a[j] = q[j - m] /\ i - m < j - m
      BY <1>2, <1>4, <1>7
    <2> QED
      BY <1>5, <1>7, <2>1
  <1> QED
    BY <1>4, <1>6, <1>7

\* As much as fits of data behind what waits.
LEMMA FitsInOrder ==
    ASSUME NEW q \in Seq(Byte), NEW data \in Seq(Byte), Sorted(q), Sorted(data),
           Before(SeqMembers(q), SeqMembers(data)), NEW m \in 0 .. Len(data)
    PROVE  Sorted(q \o SubSeq(data, 1, m))
  <1> DEFINE f == SubSeq(data, 1, m)
  <1>1. f \in Seq(Byte) /\ Sorted(f) /\ SeqMembers(f) \subseteq SeqMembers(data)
    BY PartsInOrder
  <1> HIDE DEF f
  <1>2. Before(SeqMembers(q), SeqMembers(f))
    BY <1>1 DEF Before
  <1>3. Sorted(q \o f)
    BY <1>1, <1>2, ConcatInOrder
  <1> QED
    BY <1>3 DEF f

LEMMA FittingInOrder ==
    ASSUME NEW q \in Seq(Byte), NEW data \in Seq(Byte), Len(q) <= SockCap,
           Sorted(q), Sorted(data), Before(SeqMembers(q), SeqMembers(data))
    PROVE  Sorted(Fitting(q, data))
  <1> DEFINE m == IF Len(data) <= SockCap - Len(q) THEN Len(data) ELSE SockCap - Len(q)
  <1>1. Len(q) \in Nat /\ Len(data) \in Nat /\ SockCap \in Nat
    BY LenProperties, BoundsAssumption
  <1>2. m \in 0 .. Len(data)
    BY <1>1
  <1>3. Fitting(q, data) = q \o SubSeq(data, 1, m)
    BY DEF Fitting
  <1> HIDE DEF m
  <1> QED
    BY <1>2, <1>3, FitsInOrder

LEMMA PushInOrder ==
    ASSUME NEW ring \in Seq(Byte), NEW data \in Seq(Byte), Len(ring) < RxSize,
           Sorted(ring), Sorted(data), Before(SeqMembers(ring), SeqMembers(data))
    PROVE  /\ Sorted(RxPush(ring, data))
           /\ SeqMembers(RxPush(ring, data)) \subseteq SeqMembers(ring) \cup SeqMembers(data)
  <1> DEFINE room == RxSize - 1 - Len(ring)
             m == IF Len(data) <= room THEN Len(data) ELSE room
  <1>1. Len(ring) \in Nat /\ Len(data) \in Nat /\ RxSize \in Nat
    BY LenProperties, BoundsAssumption
  <1>2. m \in 0 .. Len(data)
    BY <1>1
  <1>3. RxPush(ring, data) = ring \o SubSeq(data, 1, m)
    BY DEF RxPush
  <1> HIDE DEF m
  <1>4. SubSeq(data, 1, m) \in Seq(Byte) /\ SeqMembers(SubSeq(data, 1, m)) \subseteq SeqMembers(data)
    BY <1>2, PartsInOrder
  <1>5. SeqMembers(ring \o SubSeq(data, 1, m)) = SeqMembers(ring) \cup SeqMembers(SubSeq(data, 1, m))
    BY <1>4, ConcatIs, ZenonT(40)
  <1> QED
    BY <1>2, <1>3, <1>4, <1>5, FitsInOrder

LEMMA OneInOrder ==
    ASSUME NEW b \in Byte
    PROVE  <<b>> \in Seq(Byte) /\ Sorted(<<b>>) /\ SeqMembers(<<b>>) = {b}
  <1>1. <<b>> \in Seq(Byte) /\ DOMAIN <<b>> = 1 .. 1 /\ <<b>>[1] = b
    OBVIOUS
  <1> QED
    BY <1>1 DEF Sorted, SeqMembers

LEMMA TailInOrder ==
    ASSUME NEW s \in Seq(Byte), Sorted(s), s # <<>>
    PROVE  /\ Sorted(Tail(s)) /\ Tail(s) \in Seq(Byte) /\ Head(s) \in Byte
           /\ SeqMembers(s) = {Head(s)} \cup SeqMembers(Tail(s))
           /\ Before({Head(s)}, SeqMembers(Tail(s)))
  <1> DEFINE n == Len(s)
             t == Tail(s)
  <1>1. n \in Nat /\ DOMAIN s = 1 .. n /\ n # 0 /\ Head(s) = s[1] /\ s[1] \in Byte
    BY LenProperties, EmptySeq
  <1>2. t \in Seq(Byte) /\ Len(t) = n - 1 /\ \A i \in 1 .. n - 1 : t[i] = s[i + 1]
    BY HeadTailProperties
  <1> HIDE DEF n, t
  <1>3. DOMAIN t = 1 .. n - 1
    BY <1>2, LenProperties
  <1>4. \A i \in 1 .. n - 1 : i + 1 \in 1 .. n /\ 1 < i + 1 /\ t[i] = s[i + 1]
    BY <1>1, <1>2
  <1>5. \A i \in 1 .. n : i = 1 \/ (i - 1 \in 1 .. n - 1 /\ t[i - 1] = s[i])
    <2>1. \A i \in 1 .. n : i = 1 \/ (i - 1 \in 1 .. n - 1 /\ i - 1 + 1 = i)
      BY <1>1
    <2> QED
      BY <1>2, <2>1
  <1>6. \A i, j \in 1 .. n : i < j => Below(s[i], s[j])
    BY <1>1 DEF Sorted
  <1>7. 1 \in 1 .. n
    BY <1>1
  <1>8. SeqMembers(s) = {Head(s)} \cup SeqMembers(t)
    <2>1. SeqMembers(s) = {s[i] : i \in 1 .. n} /\ SeqMembers(t) = {t[i] : i \in 1 .. n - 1}
      BY <1>1, <1>3 DEF SeqMembers
    <2>2. \A i \in 1 .. n : s[i] = Head(s) \/ s[i] \in {t[j] : j \in 1 .. n - 1}
      BY <1>1, <1>5
    <2>3. \A i \in 1 .. n - 1 : t[i] \in {s[j] : j \in 1 .. n}
      BY <1>4
    <2>4. Head(s) \in {s[j] : j \in 1 .. n}
      BY <1>1, <1>7
    <2> QED
      BY <2>1, <2>2, <2>3, <2>4
  <1>9. Sorted(t)
    <2> SUFFICES ASSUME NEW i \in 1 .. n - 1, NEW j \in 1 .. n - 1, i < j
                 PROVE  Below(t[i], t[j])
      BY <1>3 DEF Sorted
    <2>1. i + 1 < j + 1
      OBVIOUS
    <2> QED
      BY <1>4, <1>6, <2>1
  <1>10. Before({Head(s)}, SeqMembers(t))
    BY <1>1, <1>3, <1>4, <1>6, <1>7 DEF Before, SeqMembers
  <1> QED
    BY <1>1, <1>2, <1>8, <1>9, <1>10 DEF t

LEMMA KeptInOrder ==
    ASSUME NEW s \in Seq(Byte), NEW S, Sorted(s)
    PROVE  Sorted(Kept(s, S))
  <1> DEFINE keep == CHOOSE f : f = [i \in 0 .. Len(s) |->
                       IF i = 0 THEN <<>>
                       ELSE IF s[i] \in S THEN Append(f[i - 1], s[i]) ELSE f[i - 1]]
             n == Len(s)
  <1>1. n \in Nat /\ DOMAIN s = 1 .. n /\ \A i \in 1 .. n : s[i] \in Byte
    BY LenProperties
  <1>2. PICK f \in [0 .. n -> Seq(Byte)] : KeepBy(s, S, n, f)
    BY KeepExists
  <1>3. f = [i \in 0 .. n |-> IF i = 0 THEN <<>>
                              ELSE IF s[i] \in S THEN Append(f[i - 1], s[i]) ELSE f[i - 1]]
    BY <1>2 DEF KeepBy
  <1>4. keep = [i \in 0 .. n |-> IF i = 0 THEN <<>>
                                 ELSE IF s[i] \in S THEN Append(keep[i - 1], s[i]) ELSE keep[i - 1]]
    BY <1>3
  <1>5. Kept(s, S) = keep[n]
    BY DEF Kept
  <1> HIDE DEF keep
  <1> DEFINE B == {i \in 0 .. n : /\ keep[i] \in Seq(Byte) /\ Sorted(keep[i])
                                  /\ SeqMembers(keep[i]) \subseteq {s[j] : j \in 1 .. i}}
  <1>6. 0 \in B
    <2>1. keep[0] = <<>>
      BY <1>1, <1>4
    <2>2. keep[0] \in Seq(Byte) /\ SeqMembers(keep[0]) = {} /\ Sorted(keep[0])
      BY <2>1, EmptySeq DEF SeqMembers, Sorted
    <2> QED
      BY <1>1, <2>2
  <1>7. ASSUME NEW i \in 0 .. n - 1, i \in B PROVE i + 1 \in B
    <2>1. /\ keep[i] \in Seq(Byte) /\ Sorted(keep[i])
          /\ SeqMembers(keep[i]) \subseteq {s[j] : j \in 1 .. i}
      BY <1>7
    <2>2. i + 1 \in 1 .. n /\ i \in Nat /\ s[i + 1] \in Byte /\ i + 1 \in 0 .. n /\ i + 1 # 0 /\ i + 1 - 1 = i
      BY <1>1
    <2>3. keep[i + 1] = IF s[i + 1] \in S THEN Append(keep[i], s[i + 1]) ELSE keep[i]
      <3>1. \A j \in 0 .. n : j # 0 =>
              keep[j] = IF s[j] \in S THEN Append(keep[j - 1], s[j]) ELSE keep[j - 1]
        BY <1>4
      <3> QED
        BY <2>2, <3>1
    <2>4. {s[j] : j \in 1 .. i + 1} = {s[j] : j \in 1 .. i} \cup {s[i + 1]}
      <3>1. /\ \A j \in 1 .. i + 1 : j \in 1 .. i \/ j = i + 1
            /\ \A j \in 1 .. i : j \in 1 .. i + 1
            /\ i + 1 \in 1 .. i + 1
        BY <2>2
      <3> QED
        BY <3>1, Zenon
    <2>5. Before({s[j] : j \in 1 .. i}, {s[i + 1]})
      BY <1>1, <2>2 DEF Before, Sorted
    <2>6. CASE s[i + 1] \notin S
      BY <2>1, <2>2, <2>3, <2>4, <2>6
    <2>7. CASE s[i + 1] \in S
      <3>1. /\ Append(keep[i], s[i + 1]) = keep[i] \o <<s[i + 1]>>
            /\ Append(keep[i], s[i + 1]) \in Seq(Byte)
            /\ SeqMembers(Append(keep[i], s[i + 1])) = SeqMembers(keep[i]) \cup {s[i + 1]}
        <4> DEFINE a == keep[i]
                   x == s[i + 1]
        <4>1. a \in Seq(Byte) /\ x \in Byte
          BY <2>1, <2>2
        <4> HIDE DEF a, x
        <4>2. Append(a, x) \in Seq(Byte) /\ SeqMembers(Append(a, x)) = SeqMembers(a) \cup {x}
          BY <4>1, AppendIs, ZenonT(40)
        <4>3. Append(a, x) = a \o <<x>>
          BY <4>1, AppendIsConcat, ZenonT(40)
        <4> QED
          BY <4>2, <4>3 DEF a, x
      <3>2. Before(SeqMembers(keep[i]), SeqMembers(<<s[i + 1]>>))
        BY <2>1, <2>2, <2>5, OneInOrder DEF Before
      <3>3. Sorted(keep[i] \o <<s[i + 1]>>)
        BY <2>1, <2>2, <3>2, OneInOrder, ConcatInOrder
      <3> QED
        BY <2>1, <2>2, <2>3, <2>4, <2>7, <3>1, <3>3
    <2> QED
      BY <2>6, <2>7
  <1> HIDE DEF B
  <1>8. 0 .. n \subseteq B
    BY <1>1, <1>6, <1>7, IntervalInduction
  <1>9. n \in B
    BY <1>1, <1>8
  <1> QED
    BY <1>5, <1>9 DEF B

-----------------------------------------------------------------------------
(* Steps that send nothing and hear nothing.                               *)

Shrunk(r, s) ==
    /\ s.up = r.up \/ s.up = <<>>
    /\ \/ s.dn = <<>>
       \/ s.dn = r.dn /\ s.cli = r.cli /\ (s.c \notin Shut => r.c \notin Shut)

LEMMA CloseEndShrinks ==
    ASSUME NEW r \in Connection, NEW c \in Cabinet
    PROVE  Shrunk(r, CloseEnd(r, c))
  <1> DEFINE s == CloseEnd(r, c)
  <1>1. FreeConn.up = <<>> /\ FreeConn.dn = <<>>
    BY DEF FreeConn
  <1>2. CASE IsClient(r, c)
    <2> DEFINE t == [r EXCEPT !.c = Closing(r.c), !.dn = <<>>]
    <2>1. t.up = r.up /\ t.dn = <<>>
      BY DEF Connection
    <2>2. s = FreeConn \/ s = t
      BY <1>2 DEF CloseEnd, Reclaim
    <2> HIDE DEF t, s
    <2> QED
      BY <1>1, <2>1, <2>2 DEF Shrunk, s
  <1>3. CASE ~IsClient(r, c)
    <2> DEFINE t == [r EXCEPT !.s = Closing(r.s), !.up = <<>>]
    <2>1. t.up = <<>> /\ t.dn = r.dn /\ t.cli = r.cli /\ t.c = r.c
      BY DEF Connection
    <2>2. s = FreeConn \/ s = t
      BY <1>3 DEF CloseEnd, Reclaim
    <2> HIDE DEF t, s
    <2> QED
      BY <1>1, <2>1, <2>2 DEF Shrunk, s
  <1> QED
    BY <1>2, <1>3

LEMMA HungUpShrinks ==
    ASSUME NEW r \in Connection,
           NEW s, s = Reclaim([r EXCEPT !.s = "gone", !.up = <<>>,
                                        !.c = IF r.c \in Shut THEN r.c ELSE "dead"])
    PROVE  Shrunk(r, s)
  <1> DEFINE t == [r EXCEPT !.s = "gone", !.up = <<>>,
                            !.c = IF r.c \in Shut THEN r.c ELSE "dead"]
  <1>1. FreeConn.up = <<>> /\ FreeConn.dn = <<>>
    BY DEF FreeConn
  <1>2. t.up = <<>> /\ t.dn = r.dn /\ t.cli = r.cli /\ t.c = (IF r.c \in Shut THEN r.c ELSE "dead")
    BY DEF Connection
  <1>3. s = FreeConn \/ s = t
    BY DEF Reclaim
  <1> HIDE DEF t
  <1> QED
    BY <1>1, <1>2, <1>3 DEF Shrunk

LEMMA ClosedSocketsShrink ==
    ASSUME TypeOK, NEW c \in Cabinet, NEW k \in Conn
    PROVE  Shrunk(net[k], ClosedSockets(c)[k])
  <1>1. net[k] \in Connection
    BY DEF TypeOK
  <1>2. ClosedSockets(c)[k] = IF k \in Tab(c) THEN CloseEnd(net[k], c)
                 ELSE IF WaitsOn(c, k)
                 THEN Reclaim([net[k] EXCEPT !.s = "gone", !.up = <<>>,
                                 !.c = IF net[k].c \in Shut THEN net[k].c ELSE "dead"])
                 ELSE net[k]
    BY DEF ClosedSockets, Tab, WaitsOn
  <1>3. CASE k \in Tab(c)
    BY <1>1, <1>2, <1>3, CloseEndShrinks
  <1>4. CASE k \notin Tab(c) /\ WaitsOn(c, k)
    BY <1>1, <1>2, <1>4, HungUpShrinks
  <1>5. CASE k \notin Tab(c) /\ ~WaitsOn(c, k)
    BY <1>2, <1>5 DEF Shrunk
  <1> QED
    BY <1>3, <1>4, <1>5

\* What is there after such a step was there before it.
LEMMA ShrunkFacts ==
    ASSUME NEW r, NEW s, Shrunk(r, s)
    PROVE  /\ SeqMembers(s.up) \subseteq SeqMembers(r.up) /\ SeqMembers(s.dn) \subseteq SeqMembers(r.dn)
           /\ Sorted(r.up) => Sorted(s.up)
           /\ Sorted(r.dn) => Sorted(s.dn)
           /\ \A b \in SeqMembers(s.dn) :
                s.cli = r.cli /\ \A d : IsClient(s, d) => IsClient(r, d)
  <1>1. SeqMembers(<<>>) = {} /\ Sorted(<<>>)
    BY EmptyIs DEF Sorted
  <1> QED
    BY <1>1, Zenon DEF Shrunk, IsClient

\* Every guest and ring, every buffer and wire has what it had, or nothing.
Quiet ==
    /\ sent' = sent
    /\ \A k \in Conn : Shrunk(net[k], net'[k])
    /\ \A c \in Cabinet : /\ tx'[c] = tx[c] \/ tx'[c] = <<>>
                          /\ rx'[c] = rx[c] \/ rx'[c] = <<>>
                          /\ heard'[c] = heard[c] \/ heard'[c] = [o \in Cabinet |-> <<>>]

LEMMA QuietGuests ==
    ASSUME TypeOK, GuestsInOrder, Quiet, heard' = [c \in Cabinet |-> heard'[c]],
           NEW d \in Cabinet
    PROVE  /\ heard'[d] \in [Cabinet -> Seq(Mark)]
           /\ Heard(d)' \subseteq Heard(d) /\ Told(d)' \subseteq Told(d)
           /\ SeqMembers(rx'[d]) \subseteq SeqMembers(rx[d]) /\ Sorted(rx'[d])
           /\ \A o \in Cabinet : heard'[d][o] = heard[d][o] \/ heard'[d][o] = <<>>
  <1>1. SeqMembers(<<>>) = {} /\ Sorted(<<>>) /\ <<>> \in Seq(Mark) /\ DOMAIN <<>> = {}
    BY EmptyIs, EmptySeq DEF Sorted
  <1>2. heard[d] \in [Cabinet -> Seq(Mark)] /\ Sorted(rx[d])
    BY DEF GuestsInOrder
  <1>3. rx'[d] = rx[d] \/ rx'[d] = <<>>
    BY DEF Quiet
  <1>4. SeqMembers(rx'[d]) \subseteq SeqMembers(rx[d]) /\ Sorted(rx'[d])
    BY <1>1, <1>2, <1>3
  <1>5. /\ heard'[d] \in [Cabinet -> Seq(Mark)]
        /\ \A o \in Cabinet : heard'[d][o] = heard[d][o] \/ heard'[d][o] = <<>>
    BY <1>1, <1>2 DEF Quiet
  <1>6. \A b \in Byte : b.from \in Cabinet
    BY DEF Byte
  <1>7. Heard(d)' \subseteq Heard(d)
    BY <1>1, <1>5, <1>6 DEF Heard
  <1> QED
    BY <1>4, <1>5, <1>7 DEF Told

LEMMA QuietOrder ==
    ASSUME TypeOK, Ordered, Quiet, heard' = [c \in Cabinet |-> heard'[c]]
    PROVE  Ordered'
  <1>1. \A d \in Cabinet :
          /\ heard'[d] \in [Cabinet -> Seq(Mark)]
          /\ Heard(d)' \subseteq Heard(d) /\ Told(d)' \subseteq Told(d)
          /\ SeqMembers(rx'[d]) \subseteq SeqMembers(rx[d]) /\ Sorted(rx'[d])
          /\ \A o \in Cabinet : heard'[d][o] = heard[d][o] \/ heard'[d][o] = <<>>
    BY QuietGuests DEF Ordered
  <1>2. \A k \in Conn :
          /\ SeqMembers(net'[k].up) \subseteq SeqMembers(net[k].up)
          /\ SeqMembers(net'[k].dn) \subseteq SeqMembers(net[k].dn)
          /\ Sorted(net[k].up) => Sorted(net'[k].up)
          /\ Sorted(net[k].dn) => Sorted(net'[k].dn)
          /\ \A b \in SeqMembers(net'[k].dn) :
               net'[k].cli = net[k].cli /\ \A d : IsClient(net'[k], d) => IsClient(net[k], d)
    BY ShrunkFacts DEF Quiet
  <1>3. \A c \in Cabinet : SeqMembers(tx'[c]) \subseteq SeqMembers(tx[c]) /\ (Sorted(tx[c]) => Sorted(tx'[c]))
    <2>1. SeqMembers(<<>>) = {} /\ Sorted(<<>>)
      BY EmptyIs DEF Sorted
    <2> QED
      BY <2>1 DEF Quiet
  <1>4. sent' = sent
    BY DEF Quiet
  <1>5. \A b \in Byte : Passed(b) => Passed(b)'
    <2>1. \A b \in Byte : b.from \in Cabinet
      BY DEF Byte
    <2> QED
      BY <1>3, <1>4, <2>1 DEF Passed
  <1>6. BuffersInOrder'
    BY <1>3, <1>4 DEF Ordered, BuffersInOrder
  <1>7. GuestsInOrder'
    <2>1. heard' \in [Cabinet -> [Cabinet -> Seq(Mark)]]
      BY <1>1
    <2>2. ASSUME NEW d \in Cabinet, NEW o \in Cabinet,
                 NEW i \in DOMAIN heard'[d][o], NEW j \in DOMAIN heard'[d][o],
                 i < j /\ heard'[d][o][i].via = heard'[d][o][j].via
          PROVE  heard'[d][o][i].n < heard'[d][o][j].n
      <3>1. DOMAIN <<>> = {}
        BY EmptySeq
      <3>2. heard'[d][o] = heard[d][o]
        BY <1>1, <2>2, <3>1
      <3> QED
        BY <2>2, <3>2 DEF Ordered, GuestsInOrder
    <2>3. \A d \in Cabinet : Before(Heard(d)', SeqMembers(rx'[d]))
      BY <1>1 DEF Ordered, GuestsInOrder, Before
    <2>4. \A d \in Cabinet : \A b \in Told(d)' : Passed(b)' \/ Echoed(d, b)'
      <3>1. \A d \in Cabinet : Told(d) \subseteq Byte
        BY MembersIs DEF Told, Heard, TypeOK
      <3> QED
        BY <1>1, <1>4, <1>5, <3>1 DEF Ordered, GuestsInOrder, Echoed
    <2> QED
      BY <1>1, <2>1, <2>2, <2>3, <2>4 DEF GuestsInOrder
  <1>8. WiresInOrder(net)'
    <2>1. \A k \in Conn : Sorted(net'[k].up) /\ Sorted(net'[k].dn)
      BY <1>2 DEF Ordered, WiresInOrder
    <2>2. \A j, k \in Conn : Before(SeqMembers(net'[j].dn), SeqMembers(net'[k].up))
      BY <1>2 DEF Ordered, WiresInOrder, Before
    <2>3. \A d \in Cabinet, k \in Conn : Before(Told(d)', SeqMembers(net'[k].up))
      BY <1>1, <1>2 DEF Ordered, WiresInOrder, Before
    <2>4. \A d \in Cabinet, k \in Conn :
            IsClient(net'[k], d) => Before(Told(d)', SeqMembers(net'[k].dn))
      BY <1>1, <1>2 DEF Ordered, WiresInOrder, Before
    <2>5. \A k \in Conn : \A b \in SeqMembers(net'[k].dn) : b.via = None => b.from # net'[k].cli
      BY <1>2 DEF Ordered, WiresInOrder
    <2> QED
      BY <2>1, <2>2, <2>3, <2>4, <2>5 DEF WiresInOrder
  <1>9. WiresPassed'
    <2>1. \A k \in Conn : SeqMembers(net[k].up) \subseteq Byte /\ SeqMembers(net[k].dn) \subseteq Byte
      BY MembersIs, ConnectionIs DEF TypeOK
    <2> QED
      BY <1>2, <1>5, <2>1 DEF Ordered, WiresPassed
  <1> QED
    BY <1>6, <1>7, <1>8, <1>9 DEF Ordered

LEMMA StaysShrunk ==
    ASSUME TypeOK
    PROVE  /\ \A r : Shrunk(r, r)
           /\ net' = net => \A k \in Conn : Shrunk(net[k], net'[k])
           /\ \A k \in Conn : \A r : (net' = [net EXCEPT ![k] = r]) /\ Shrunk(net[k], r) =>
                \A j \in Conn : Shrunk(net[j], net'[j])
  <1>1. \A r : Shrunk(r, r)
    BY DEF Shrunk
  <1>2. DOMAIN net = Conn
    BY DEF TypeOK
  <1> QED
    BY <1>1, <1>2

\* The steps of a cabinet that leave the bytes on their way alone.
LEMMA StillQuiet ==
    ASSUME Inv, Ordered, NEW c \in Cabinet,
           \/ PollHeld(c) \/ PollHostListens(c) \/ PollTryFails(c) \/ PollJoins(c)
           \/ PollAccepts(c) \/ PollClient(c) \/ DrainQuiet(c) \/ HoldExpires(c)
    PROVE  Ordered'
  <1>1. net' = net /\ tx' = tx /\ rx' = rx /\ heard' = heard /\ sent' = sent
    BY DEF PollHeld, PollHostListens, PollTryFails, PollJoins, PollAccepts, PollClient, DrainQuiet,
           HoldExpires, netVars, ghostVars
  <1>2. TypeOK /\ heard' = [d \in Cabinet |-> heard'[d]]
    BY <1>1 DEF Inv, Ordered, GuestsInOrder
  <1>3. Quiet
    BY <1>1, <1>2, StaysShrunk DEF Quiet
  <1> QED
    BY <1>2, <1>3, QuietOrder

LEMMA DialsQuiet ==
    ASSUME Inv, Ordered, NEW c \in Cabinet, PollDials(c)
    PROVE  Ordered'
  <1>1. tx' = tx /\ rx' = rx /\ heard' = heard /\ sent' = sent
    BY DEF PollDials, ghostVars
  <1>2. TypeOK /\ heard' = [d \in Cabinet |-> heard'[d]]
    BY <1>1 DEF Inv, Ordered, GuestsInOrder
  <1>3. PICK k \in Conn : net' = [net EXCEPT ![k] = [FreeConn EXCEPT !.cli = c, !.c = "syn"]]
    BY DEF PollDials
  <1>4. Shrunk(net[k], [FreeConn EXCEPT !.cli = c, !.c = "syn"])
    BY DEF Shrunk, FreeConn
  <1>5. Quiet
    BY <1>1, <1>2, <1>3, <1>4, StaysShrunk DEF Quiet
  <1> QED
    BY <1>2, <1>5, QuietOrder

\* A cabinet closes its sockets: it forgets what it buffered, and a reset what
\* its guest had heard.
LEMMA LeavesQuiet ==
    ASSUME Inv, Ordered, NEW c \in Cabinet,
           PollListensInstead(c) \/ PollGivesUp(c) \/ DrainClientLost(c) \/ Restart(c)
    PROVE  Ordered'
  <1>1. /\ net' = ClosedSockets(c) /\ tx' = [tx EXCEPT ![c] = <<>>] /\ sent' = sent
        /\ rx' = rx \/ rx' = [rx EXCEPT ![c] = <<>>]
        /\ heard' = heard \/ heard' = [heard EXCEPT ![c] = [o \in Cabinet |-> <<>>]]
    BY DEF PollListensInstead, PollGivesUp, ConnectFailed, DrainClientLost, Restart, ghostVars
  <1>2. /\ TypeOK /\ DOMAIN tx = Cabinet /\ DOMAIN rx = Cabinet /\ DOMAIN heard = Cabinet
        /\ heard = [d \in Cabinet |-> heard[d]]
    BY DEF Inv, TypeOK, Ordered, GuestsInOrder
  <1>3. heard' = [d \in Cabinet |-> heard'[d]]
    BY <1>1, <1>2
  <1>4. \A k \in Conn : Shrunk(net[k], net'[k])
    BY <1>1, <1>2, ClosedSocketsShrink
  <1>5. \A d \in Cabinet : /\ tx'[d] = tx[d] \/ tx'[d] = <<>>
                           /\ rx'[d] = rx[d] \/ rx'[d] = <<>>
                           /\ heard'[d] = heard[d] \/ heard'[d] = [o \in Cabinet |-> <<>>]
    BY <1>1, <1>2
  <1>6. Quiet
    BY <1>1, <1>4, <1>5, Zenon DEF Quiet
  <1> QED
    BY <1>2, <1>3, <1>6, QuietOrder

LEMMA PeerLostQuiet ==
    ASSUME Inv, Ordered, NEW c \in Cabinet, DrainPeerLost(c)
    PROVE  Ordered'
  <1>1. tx' = tx /\ rx' = rx /\ heard' = heard /\ sent' = sent
    BY DEF DrainPeerLost, ghostVars
  <1>2. TypeOK /\ heard' = [d \in Cabinet |-> heard'[d]]
    BY <1>1 DEF Inv, Ordered, GuestsInOrder
  <1>3. \A k \in Conn : Shrunk(net[k], net'[k])
    <2>1. CASE InSlot(c) = None
      BY <1>2, <2>1, StaysShrunk DEF DrainPeerLost
    <2>2. CASE InSlot(c) # None
      <3>1. net' = [net EXCEPT ![InSlot(c)] = CloseEnd(net[InSlot(c)], c)] /\ at[c] > 0
        BY <2>2 DEF DrainPeerLost, PeerLost
      <3>2. InSlot(c) \in Conn
        BY <2>2, <3>1, InSlotIs
      <3>3. Shrunk(net[InSlot(c)], CloseEnd(net[InSlot(c)], c))
        BY <1>2, <3>2, CloseEndShrinks DEF TypeOK
      <3> QED
        BY <1>2, <3>1, <3>2, <3>3, StaysShrunk
    <2> QED
      BY <2>1, <2>2
  <1>4. Quiet
    BY <1>1, <1>3, Zenon DEF Quiet
  <1> QED
    BY <1>2, <1>4, QuietOrder

LEMMA NetworkQuiet ==
    ASSUME Inv, Ordered, NEW k \in Conn,
           SynRefused(k) \/ SynAnswered(k) \/ Fin(k) \/ Rst(k) \/ Break(k)
    PROVE  Ordered'
  <1>1. tx' = tx /\ rx' = rx /\ heard' = heard /\ sent' = sent
    BY DEF SynRefused, SynAnswered, Fin, Rst, Break, cabVars, ghostVars
  <1>2. TypeOK /\ heard' = [d \in Cabinet |-> heard'[d]] /\ net[k] \in Connection
    BY <1>1 DEF Inv, TypeOK, Ordered, GuestsInOrder
  <1>3. \E r : (net' = [net EXCEPT ![k] = r]) /\ Shrunk(net[k], r)
    <2> DEFINE n == net[k]
    <2>1. CASE SynRefused(k)
      <3>1. net' = [net EXCEPT ![k] = [n EXCEPT !.c = "dead"]] /\ n.c = "syn"
        BY <2>1 DEF SynRefused, SynPending
      <3>2. Shrunk(n, [n EXCEPT !.c = "dead"])
        BY <1>2, <3>1 DEF Shrunk, Connection, Shut
      <3> QED
        BY <3>1, <3>2
    <2>2. CASE SynAnswered(k)
      <3> DEFINE m == [n EXCEPT !.c = "open", !.s = "open", !.srv = port[Dials[n.cli]]]
      <3>1. net' = [net EXCEPT ![k] = m] /\ n.c = "syn"
        BY <2>2 DEF SynAnswered, SynPending
      <3>2. Shrunk(n, m)
        BY <1>2, <3>1 DEF Shrunk, Connection, Shut
      <3> QED
        BY <3>1, <3>2
    <2>3. CASE Fin(k)
      <3>1. CASE n.c = "closed" /\ n.s = "open" /\ net' = [net EXCEPT ![k] = [n EXCEPT !.s = "eof"]]
        <4>1. Shrunk(n, [n EXCEPT !.s = "eof"])
          BY <1>2 DEF Shrunk, Connection
        <4> QED
          BY <3>1, <4>1
      <3>2. CASE n.c = "open" /\ net' = [net EXCEPT ![k] = [n EXCEPT !.c = "eof"]]
        <4>1. Shrunk(n, [n EXCEPT !.c = "eof"])
          BY <1>2, <3>2 DEF Shrunk, Connection, Shut
        <4> QED
          BY <3>2, <4>1
      <3> QED
        BY <2>3, <3>1, <3>2 DEF Fin
    <2>4. CASE Rst(k) \/ Break(k)
      <3>1. \/ net' = [net EXCEPT ![k] = [n EXCEPT !.s = "dead", !.up = <<>>]]
            \/ net' = [net EXCEPT ![k] = [n EXCEPT !.c = "dead", !.dn = <<>>]]
            \/ net' = [net EXCEPT ![k] = [n EXCEPT !.c = "dead", !.dn = <<>>, !.s = "dead", !.up = <<>>]]
        BY <2>4 DEF Rst, Break
      <3>2. /\ Shrunk(n, [n EXCEPT !.s = "dead", !.up = <<>>])
            /\ Shrunk(n, [n EXCEPT !.c = "dead", !.dn = <<>>])
            /\ Shrunk(n, [n EXCEPT !.c = "dead", !.dn = <<>>, !.s = "dead", !.up = <<>>])
        BY <1>2 DEF Shrunk, Connection
      <3> QED
        BY <3>1, <3>2, Zenon
    <2> QED
      BY <2>1, <2>2, <2>3, <2>4
  <1>4. \A j \in Conn : Shrunk(net[j], net'[j])
    BY <1>2, <1>3, StaysShrunk
  <1>5. Quiet
    BY <1>1, <1>4, Zenon DEF Quiet
  <1> QED
    BY <1>2, <1>5, QuietOrder

LEMMA StutterOrder ==
    ASSUME Inv, Ordered, UNCHANGED vars
    PROVE  Ordered'
  <1>1. net' = net /\ tx' = tx /\ rx' = rx /\ heard' = heard /\ sent' = sent
    BY DEF vars, cabVars, netVars, ghostVars
  <1>2. TypeOK /\ heard' = [d \in Cabinet |-> heard'[d]]
    BY <1>1 DEF Inv, Ordered, GuestsInOrder
  <1>3. Quiet
    BY <1>1, <1>2, StaysShrunk DEF Quiet
  <1> QED
    BY <1>2, <1>3, QuietOrder

-----------------------------------------------------------------------------
(* The guest reads.                                                        *)

LEMMA BytesAre ==
    ASSUME TypeOK
    PROVE  /\ \A d \in Cabinet : Heard(d) \subseteq Byte /\ SeqMembers(rx[d]) \subseteq Byte
                                 /\ Told(d) \subseteq Byte /\ rx[d] \in Seq(Byte)
           /\ \A c \in Cabinet : tx[c] \in Seq(Byte) /\ SeqMembers(tx[c]) \subseteq Byte
                                 /\ sent[c] \in Nat
           /\ \A k \in Conn : SeqMembers(net[k].up) \subseteq Byte /\ SeqMembers(net[k].dn) \subseteq Byte
           /\ \A b \in Byte : b.from \in Cabinet /\ b.n \in Nat /\ b.via \in Conn \cup {None}
           /\ None \notin Conn /\ None \notin Cabinet
  <1>1. \A d \in Cabinet : rx[d] \in Seq(Byte) /\ tx[d] \in Seq(Byte) /\ sent[d] \in Nat
    BY BoundsAssumption DEF TypeOK
  <1>2. \A d \in Cabinet : SeqMembers(rx[d]) \subseteq Byte /\ SeqMembers(tx[d]) \subseteq Byte
    BY <1>1, MembersIs
  <1>3. \A k \in Conn : SeqMembers(net[k].up) \subseteq Byte /\ SeqMembers(net[k].dn) \subseteq Byte
    BY MembersIs, ConnectionIs DEF TypeOK
  <1>4. \A b \in Byte : b.from \in Cabinet /\ b.n \in Nat /\ b.via \in Conn \cup {None}
    BY BoundsAssumption DEF Byte
  <1> QED
    BY <1>1, <1>2, <1>3, <1>4, RolesAssumption DEF Heard, Told

LEMMA ReadOrder ==
    ASSUME Inv, Ordered, NEW c \in Cabinet, Read(c)
    PROVE  Ordered'
  <1> DEFINE b == Head(rx[c])
             m == [n |-> b.n, via |-> b.via]
             h == heard[c][b.from]
  <1>1. /\ rx[c] # <<>> /\ rx' = [rx EXCEPT ![c] = Tail(rx[c])]
        /\ heard' = [heard EXCEPT ![c] = [heard[c] EXCEPT ![b.from] = Append(h, m)]]
        /\ net' = net /\ tx' = tx /\ sent' = sent
    BY DEF Read, netVars
  <1>2. /\ TypeOK /\ GuestsInOrder /\ rx \in [Cabinet -> Seq(Byte)] /\ rx[c] \in Seq(Byte)
        /\ heard \in [Cabinet -> [Cabinet -> Seq(Mark)]]
    BY DEF Inv, TypeOK, Ordered, GuestsInOrder
  <1>3. /\ Sorted(Tail(rx[c])) /\ Tail(rx[c]) \in Seq(Byte) /\ b \in Byte
        /\ SeqMembers(rx[c]) = {b} \cup SeqMembers(Tail(rx[c]))
        /\ Before({b}, SeqMembers(Tail(rx[c])))
    BY <1>1, <1>2, TailInOrder DEF GuestsInOrder
  <1> HIDE DEF b
  <1>4. m \in Mark /\ b.from \in Cabinet /\ b = [from |-> b.from, n |-> m.n, via |-> m.via]
    BY <1>3 DEF Byte, Mark
  <1>5. h \in Seq(Mark) /\ Append(h, m) \in Seq(Mark)
    BY <1>2, <1>4
  <1> HIDE DEF m
  <1>6. /\ heard' \in [Cabinet -> [Cabinet -> Seq(Mark)]] /\ heard'[c][b.from] = Append(h, m)
        /\ \A d, o \in Cabinet : d # c \/ o # b.from => heard'[d][o] = heard[d][o]
    BY <1>1, <1>2, <1>4, <1>5
  <1>7. rx'[c] = Tail(rx[c]) /\ \A d \in Cabinet : d # c => rx'[d] = rx[d]
    BY <1>1, <1>2
  <1>8. /\ Len(h) \in Nat /\ DOMAIN h = 1 .. Len(h) /\ DOMAIN Append(h, m) = 1 .. Len(h) + 1
        /\ \A i \in 1 .. Len(h) : Append(h, m)[i] = h[i] /\ h[i] \in Mark
        /\ Append(h, m)[Len(h) + 1] = m
    BY <1>4, <1>5, AppendProperties, LenProperties
  <1> HIDE DEF h
  <1>9. \A d \in Cabinet : d # c => Heard(d)' = Heard(d) /\ Told(d)' = Told(d)
    <2>1. \A y \in Byte : y.from \in Cabinet
      BY DEF Byte
    <2> QED
      BY <1>6, <1>7, <2>1, ZenonT(40) DEF Heard, Told
  <1>10. Heard(c)' \subseteq Heard(c) \cup {b}
    <2> SUFFICES ASSUME NEW y \in Byte,
                        NEW i \in DOMAIN heard'[c][y.from], heard'[c][y.from][i] = [n |-> y.n, via |-> y.via]
                 PROVE  y \in Heard(c) \/ y = b
      BY DEF Heard
    <2>1. y.from \in Cabinet
      BY DEF Byte
    <2>2. CASE y.from # b.from
      BY <1>6, <2>1, <2>2 DEF Heard
    <2>3. CASE y.from = b.from
      <3>1. i \in 1 .. Len(h) + 1 /\ heard'[c][y.from] = Append(h, m)
        BY <1>6, <1>8, <2>3
      <3>2. CASE i = Len(h) + 1
        <4>1. m = [n |-> y.n, via |-> y.via]
          BY <1>8, <3>1, <3>2
        <4>2. y = [from |-> y.from, n |-> m.n, via |-> m.via]
          BY <4>1 DEF Byte
        <4> QED
          BY <1>4, <2>3, <4>2
      <3>3. CASE i # Len(h) + 1
        <4>1. i \in 1 .. Len(h)
          BY <1>8, <3>1, <3>3
        <4>2. heard[c][y.from] = h
          BY <2>3 DEF h
        <4>3. h[i] = [n |-> y.n, via |-> y.via] /\ i \in DOMAIN h
          BY <1>8, <3>1, <4>1
        <4> QED
          BY <4>2, <4>3 DEF Heard
      <3> QED
        BY <3>2, <3>3
    <2> QED
      BY <2>2, <2>3
  <1>11. \A d \in Cabinet : Told(d)' \subseteq Told(d)
    BY <1>3, <1>7, <1>9, <1>10 DEF Told
  <1>12. \A y : /\ Passed(y)' <=> Passed(y)
                /\ \A d : Echoed(d, y)' <=> Echoed(d, y)
    BY <1>1 DEF Passed, Echoed
  <1>13. Before(Heard(c), SeqMembers(rx[c])) /\ b \in SeqMembers(rx[c])
    BY <1>2, <1>3 DEF GuestsInOrder
  <1>14. GuestsInOrder'
    <2>1. ASSUME NEW d \in Cabinet, NEW o \in Cabinet,
                 NEW i \in DOMAIN heard'[d][o], NEW j \in DOMAIN heard'[d][o],
                 i < j /\ heard'[d][o][i].via = heard'[d][o][j].via
          PROVE  heard'[d][o][i].n < heard'[d][o][j].n
      <3>1. CASE d # c \/ o # b.from
        BY <1>2, <1>6, <2>1, <3>1, ZenonT(40) DEF GuestsInOrder
      <3>2. CASE d = c /\ o = b.from
        <4>1. /\ heard'[d][o] = Append(h, m) /\ heard[d][o] = h
              /\ i \in 1 .. Len(h) + 1 /\ j \in 1 .. Len(h) + 1 /\ i \in 1 .. Len(h)
          <5>1. heard'[d][o] = Append(h, m) /\ heard[d][o] = h
            BY <1>6, <3>2 DEF h
          <5>2. i \in 1 .. Len(h) + 1 /\ j \in 1 .. Len(h) + 1
            BY <1>8, <5>1
          <5>3. i \in 1 .. Len(h)
            BY <1>8, <2>1, <5>2
          <5> QED
            BY <5>1, <5>2, <5>3
        <4>2. CASE j # Len(h) + 1
          <5>1. j \in 1 .. Len(h)
            BY <1>8, <4>1, <4>2
          <5>2. h[i].via = h[j].via /\ i < j /\ i \in DOMAIN h /\ j \in DOMAIN h
            BY <1>8, <2>1, <4>1, <5>1
          <5>3. h[i].n < h[j].n
            BY <1>2, <4>1, <5>2 DEF GuestsInOrder
          <5> QED
            BY <1>8, <4>1, <5>1, <5>3
        <4>3. CASE j = Len(h) + 1
          <5> DEFINE y == [from |-> o, n |-> h[i].n, via |-> h[i].via]
          <5>1. h[i] \in Mark /\ Append(h, m)[i] = h[i] /\ Append(h, m)[j] = m
            BY <1>8, <4>1, <4>3
          <5>2. y \in Byte /\ y.from = o /\ y.n = h[i].n /\ y.via = h[i].via /\ h[i] = [n |-> y.n, via |-> y.via]
            BY <5>1 DEF Byte, Mark
          <5> HIDE DEF y
          <5>3. y \in Heard(c)
            BY <1>8, <3>2, <4>1, <5>2 DEF Heard
          <5>4. Below(y, b)
            BY <1>13, <5>3 DEF Before
          <5>5. b.n = m.n /\ b.via = m.via
            BY <1>4
          <5> QED
            BY <2>1, <3>2, <4>1, <5>1, <5>2, <5>4, <5>5 DEF Below
        <4> QED
          BY <4>2, <4>3
      <3> QED
        BY <3>1, <3>2
    <2>2. Before(Heard(c)', SeqMembers(rx'[c]))
      BY <1>3, <1>7, <1>10, <1>13 DEF Before
    <2>3. \A d \in Cabinet : Sorted(rx'[d]) /\ Before(Heard(d)', SeqMembers(rx'[d]))
      BY <1>2, <1>3, <1>7, <1>9, <2>2 DEF GuestsInOrder
    <2>4. \A d \in Cabinet : \A y \in Told(d)' : Passed(y)' \/ Echoed(d, y)'
      BY <1>2, <1>11, <1>12 DEF GuestsInOrder
    <2> QED
      BY <1>6, <2>1, <2>3, <2>4 DEF GuestsInOrder
  <1>15. BuffersInOrder' /\ WiresPassed'
    BY <1>1, <1>12 DEF Ordered, BuffersInOrder, WiresPassed
  <1>16. WiresInOrder(net)'
    <2>1. /\ \A d \in Cabinet, k \in Conn : Before(Told(d)', SeqMembers(net'[k].up))
          /\ \A d \in Cabinet, k \in Conn :
               IsClient(net'[k], d) => Before(Told(d)', SeqMembers(net'[k].dn))
      BY <1>1, <1>11 DEF Ordered, WiresInOrder, Before
    <2> QED
      BY <1>1, <2>1 DEF Ordered, WiresInOrder
  <1> QED
    BY <1>14, <1>15, <1>16 DEF Ordered

-----------------------------------------------------------------------------
(* Sending.                                                                *)

\* From r to s cabinet c has sent some of the bytes D.
Gets(c, r, s, D) ==
    /\ Sorted(s.up) /\ Sorted(s.dn)
    /\ \A b \in SeqMembers(s.up) : b \in SeqMembers(r.up) \/ (b \in D /\ IsClient(r, c))
    /\ \A b \in SeqMembers(s.dn) :
         /\ b \in SeqMembers(r.dn) \/ (b \in D /\ ~IsClient(r, c) /\ r.cli # c)
         /\ s.cli = r.cli /\ \A d : IsClient(s, d) => IsClient(r, d)

LEMMA SendOnGets ==
    ASSUME NEW r \in Connection, Len(r.up) <= SockCap, Len(r.dn) <= SockCap, NEW c \in Cabinet,
           NEW data \in Seq(Byte), Sorted(r.up), Sorted(r.dn), Sorted(data),
           IF IsClient(r, c) THEN Before(SeqMembers(r.up), SeqMembers(data))
                             ELSE Before(SeqMembers(r.dn), SeqMembers(data))
    PROVE  Gets(c, r, SendOn(r, c, data), SeqMembers(data))
  <1> DEFINE s == SendOn(r, c, data)
             fu == Fitting(r.up, data)
             fd == Fitting(r.dn, data)
  <1>1. r.up \in Seq(Byte) /\ r.dn \in Seq(Byte)
    BY ConnectionIs
  <1>2. /\ SeqMembers(fu) \subseteq SeqMembers(r.up) \cup SeqMembers(data)
        /\ IsClient(r, c) => Sorted(fu)
    BY <1>1, FittingIs, FittingInOrder
  <1>3. /\ SeqMembers(fd) \subseteq SeqMembers(r.dn) \cup SeqMembers(data)
        /\ ~IsClient(r, c) => Sorted(fd)
    BY <1>1, FittingIs, FittingInOrder
  <1>4. CASE IsClient(r, c) /\ r.s \notin Shut
    <2>1. s = [r EXCEPT !.up = fu]
      BY <1>4 DEF SendOn
    <2> HIDE DEF fu, fd, s
    <2>2. s.up = fu /\ s.dn = r.dn /\ s.cli = r.cli /\ s.c = r.c
      BY <2>1 DEF Connection
    <2> QED
      BY <1>2, <1>4, <2>2 DEF Gets, IsClient, s
  <1>5. CASE ~IsClient(r, c) /\ r.c \notin Shut
    <2>1. s = [r EXCEPT !.dn = fd]
      BY <1>5 DEF SendOn
    <2> HIDE DEF fu, fd, s
    <2>2. s.up = r.up /\ s.dn = fd /\ s.cli = r.cli /\ s.c = r.c
      BY <2>1 DEF Connection
    <2>3. r.cli # c
      BY <1>5 DEF IsClient
    <2> QED
      BY <1>3, <1>5, <2>2, <2>3 DEF Gets, IsClient, s
  <1>6. CASE ~(IsClient(r, c) /\ r.s \notin Shut) /\ ~(~IsClient(r, c) /\ r.c \notin Shut)
    <2>1. s = r
      BY <1>6 DEF SendOn
    <2> HIDE DEF s
    <2> QED
      BY <2>1 DEF Gets, s
  <1> QED
    BY <1>4, <1>5, <1>6

\* A connection that only lost bytes has got none.
LEMMA ShrunkGets ==
    ASSUME NEW c, NEW r, NEW s, NEW D, Shrunk(r, s), Sorted(r.up), Sorted(r.dn)
    PROVE  Gets(c, r, s, D)
  BY ShrunkFacts DEF Gets

LEMMA SentGets ==
    ASSUME NEW c \in Cabinet, NEW nt, NEW data \in Seq(Byte), NEW except, Sorted(data),
           \A k \in Conn : Sound(k, nt[k]) /\ Sorted(nt[k].up) /\ Sorted(nt[k].dn),
           \A k \in Tab(c) : k # except =>
             IF IsClient(nt[k], c) THEN Before(SeqMembers(nt[k].up), SeqMembers(data))
                                   ELSE Before(SeqMembers(nt[k].dn), SeqMembers(data)),
           NEW k \in Conn
    PROVE  /\ Gets(c, nt[k], SentNet(c, nt, data, except)[k], SeqMembers(data))
           /\ k = except \/ k \notin Tab(c) => SentNet(c, nt, data, except)[k] = nt[k]
  <1> DEFINE s == SentNet(c, nt, data, except)[k]
  <1>1. s = IF k = except \/ k \notin Tab(c) THEN nt[k]
            ELSE IF Dead(c, k) THEN CloseEnd(nt[k], c) ELSE SendOn(nt[k], c, data)
    BY DEF SentNet, Tab
  <1> HIDE DEF s
  <1>2. nt[k] \in Connection /\ Len(nt[k].up) <= SockCap /\ Len(nt[k].dn) <= SockCap
    BY DEF Sound
  <1>3. CASE k = except \/ k \notin Tab(c)
    BY <1>1, <1>3, ShrunkGets DEF s, Shrunk
  <1>4. CASE ~(k = except \/ k \notin Tab(c)) /\ Dead(c, k)
    BY <1>1, <1>2, <1>4, CloseEndShrinks, ShrunkGets DEF s
  <1>5. CASE ~(k = except \/ k \notin Tab(c)) /\ ~Dead(c, k)
    BY <1>1, <1>2, <1>5, SendOnGets DEF s
  <1> QED
    BY <1>3, <1>4, <1>5

\* What leaves a cabinet's buffer was its own, and after all that has passed.
LEMMA StampedInOrder ==
    ASSUME Inv, BuffersInOrder, NEW c \in Cabinet
    PROVE  /\ Sorted(Stamped(c))
           /\ \A b \in SeqMembers(Stamped(c)) :
                /\ b.from = c /\ b.n <= sent[c]
                /\ \A y : Passed(y) => Below(y, b)
  <1> DEFINE v == IF state[c] = "CLIENT" /\ peer[c] # <<>> THEN peer[c][1] ELSE None
             s == Stamped(c)
             n == Len(tx[c])
  <1>1. tx[c] \in Seq(Byte) /\ n \in Nat /\ DOMAIN tx[c] = 1 .. n /\ \A i \in 1 .. n : tx[c][i] \in Byte
    BY LenProperties DEF Inv, TypeOK
  <1>2. s = [i \in 1 .. n |-> [tx[c][i] EXCEPT !.via = v]]
    BY <1>1 DEF Stamped
  <1> HIDE DEF v, s
  <1>3. \A i \in 1 .. n : /\ tx[c][i].from = c /\ tx[c][i].via = None /\ tx[c][i].n <= sent[c]
                          /\ tx[c][i] \in SeqMembers(tx[c])
    BY <1>1 DEF BuffersInOrder, SeqMembers
  <1>4. \A i \in 1 .. n : s[i].from = c /\ s[i].n = tx[c][i].n
    BY <1>1, <1>2, <1>3 DEF Byte
  <1>5. DOMAIN s = 1 .. n
    BY <1>2
  <1>6. Sorted(s)
    <2> SUFFICES ASSUME NEW i \in 1 .. n, NEW j \in 1 .. n, i < j PROVE Below(s[i], s[j])
      BY <1>5 DEF Sorted
    <2>1. Below(tx[c][i], tx[c][j])
      BY <1>1 DEF BuffersInOrder, Sorted
    <2>2. tx[c][i].n < tx[c][j].n
      BY <1>3, <2>1 DEF Below
    <2> QED
      BY <1>4, <2>2 DEF Below
  <1>7. ASSUME NEW b \in SeqMembers(s)
        PROVE  b.from = c /\ b.n <= sent[c] /\ \A y : Passed(y) => Below(y, b)
    <2>1. PICK i \in 1 .. n : b = s[i]
      BY <1>5 DEF SeqMembers
    <2>2. b.from = c /\ b.n = tx[c][i].n
      BY <1>4, <2>1
    <2> QED
      BY <1>3, <2>1, <2>2 DEF Passed, Below
  <1> QED
    BY <1>6, <1>7 DEF s

\* funlink_flush_tx.  Below all that is new from c is what c has sent before.
LEMMA FlushOrder ==
    ASSUME Inv, Ordered, NEW c \in Cabinet, FlushSockets(c)
    PROVE  /\ WiresInOrder(net')
           /\ \A k \in Conn : \A b \in SeqMembers(net'[k].up) \cup SeqMembers(net'[k].dn) :
                Passed(b) \/ (b.from = c /\ b.n <= sent[c])
  <1>1. TypeOK /\ Shape /\ MarkedBytes /\ BuffersInOrder /\ GuestsInOrder /\ WiresInOrder(net) /\ WiresPassed
    BY DEF Inv, Ordered
  <1>2. CASE ~(tx[c] # <<>> /\ state[c] \in {"CLIENT", "LISTENING"})
    BY <1>1, <1>2 DEF FlushSockets, WiresPassed
  <1>3. CASE tx[c] # <<>> /\ state[c] \in {"CLIENT", "LISTENING"}
    <2> DEFINE data == Stamped(c)
               D == SeqMembers(data)
               v == IF state[c] = "CLIENT" /\ peer[c] # <<>> THEN peer[c][1] ELSE None
    <2>1. net' = SentNet(c, net, data, None)
      BY <1>3 DEF FlushSockets
    <2>2. data \in Seq(Byte) /\ Sorted(data) /\ \A b \in D : b.via = v
      BY <1>1, StampedIs, StampedInOrder
    <2>3. \A b \in D : b.from = c /\ b.n <= sent[c] /\ \A y : Passed(y) => Below(y, b)
      BY <1>1, StampedInOrder
    <2> HIDE DEF data, D
    <2>4. \A k \in Conn : Sound(k, net[k]) /\ Sorted(net[k].up) /\ Sorted(net[k].dn)
      BY <1>1, InvIs DEF SocketsOK, WiresInOrder
    <2>5. \A k \in Conn : Before(SeqMembers(net[k].up), D) /\ Before(SeqMembers(net[k].dn), D)
      BY <1>1, <2>3 DEF WiresPassed, Before
    <2>6. Tab(c) \subseteq Conn /\ None \notin Conn /\ peer[c] \in Seq(Conn)
      BY <1>1, TypeFacts, RolesAssumption
    <2>7. \A k \in Conn : Gets(c, net[k], net'[k], D) /\ (k \notin Tab(c) => net'[k] = net[k])
      <3>1. \A k \in Tab(c) : k # None =>
              IF IsClient(net[k], c) THEN Before(SeqMembers(net[k].up), SeqMembers(data))
                                     ELSE Before(SeqMembers(net[k].dn), SeqMembers(data))
        BY <2>5, <2>6 DEF D
      <3> QED
        BY <2>1, <2>2, <2>4, <3>1, SentGets DEF D
    <2>8. state[c] = "LISTENING" => v = None /\ \A k \in Conn : ~IsClient(net[k], c)
      BY <1>1 DEF Shape, DialledIsPeer, Calling
    <2>9. state[c] = "CLIENT" => \A k \in Tab(c) : IsClient(net[k], c) /\ v = k
      <3> SUFFICES ASSUME state[c] = "CLIENT", NEW k \in Tab(c) PROVE IsClient(net[k], c) /\ v = k
        OBVIOUS
      <3>1. IsClient(net[k], c) /\ Len(peer[c]) <= 1
        BY <1>1 DEF Shape, PeersMatchState, Calling
      <3>2. PICK i \in 1 .. Len(peer[c]) : peer[c][i] = k
        BY <2>6, MembersIs DEF Tab
      <3>3. Len(peer[c]) \in Nat /\ (peer[c] = <<>> => Len(peer[c]) = 0)
        BY <2>6, LenProperties, EmptySeq
      <3> QED
        BY <3>1, <3>2, <3>3
    <2> HIDE DEF v
    <2>10. ASSUME NEW k \in Conn, NEW b \in SeqMembers(net'[k].up)
           PROVE  b \in SeqMembers(net[k].up) \/ (b \in D /\ b.via = k /\ v = k)
      BY <1>3, <2>2, <2>7, <2>8, <2>9, <2>10 DEF Gets
    <2>11. ASSUME NEW k \in Conn, NEW b \in SeqMembers(net'[k].dn)
           PROVE  /\ \/ b \in SeqMembers(net[k].dn)
                     \/ b \in D /\ b.via = None /\ v = None /\ net[k].cli # c
                  /\ net'[k].cli = net[k].cli /\ \A d : IsClient(net'[k], d) => IsClient(net[k], d)
      <3>1. CASE k \in Tab(c)
        BY <1>3, <2>2, <2>7, <2>8, <2>9, <2>11, <3>1 DEF Gets
      <3>2. CASE k \notin Tab(c)
        BY <2>7, <2>11, <3>2
      <3> QED
        BY <3>1, <3>2
    <2>12. /\ \A k \in Conn : \A b \in SeqMembers(net[k].up) : b.via = k /\ Passed(b)
           /\ \A k \in Conn : \A b \in SeqMembers(net[k].dn) : Passed(b)
      BY <1>1 DEF MarkedBytes, Marked, WiresPassed
    <2>13. \A d \in Cabinet : \A b \in Told(d) : Passed(b) \/ (b.from = d /\ b.via = None)
      BY <1>1 DEF GuestsInOrder, Echoed
    <2>14. ASSUME NEW j \in Conn, NEW k \in Conn PROVE Before(SeqMembers(net'[j].dn), SeqMembers(net'[k].up))
      <3> SUFFICES ASSUME NEW b \in SeqMembers(net'[j].dn), NEW x \in SeqMembers(net'[k].up)
                   PROVE  Below(b, x)
        BY DEF Before
      <3>1. CASE x \in SeqMembers(net[k].up)
        <4>1. CASE b \in SeqMembers(net[j].dn)
          BY <1>1, <3>1, <4>1 DEF WiresInOrder, Before
        <4>2. CASE b.via = None
          <5>1. x.via = k /\ k # None
            BY <2>6, <2>12, <3>1
          <5> QED
            BY <4>2, <5>1 DEF Below
        <4> QED
          BY <2>11, <4>1, <4>2
      <3>2. CASE x \in D /\ v = k
        <4>1. b \in SeqMembers(net[j].dn)
          BY <2>6, <2>11, <3>2
        <4> QED
          BY <2>3, <2>12, <3>2, <4>1
      <3> QED
        BY <2>10, <3>1, <3>2
    <2>15. ASSUME NEW d \in Cabinet, NEW k \in Conn PROVE Before(Told(d), SeqMembers(net'[k].up))
      <3> SUFFICES ASSUME NEW b \in Told(d), NEW x \in SeqMembers(net'[k].up) PROVE Below(b, x)
        BY DEF Before
      <3>1. CASE x \in SeqMembers(net[k].up)
        BY <1>1, <3>1 DEF WiresInOrder, Before
      <3>2. CASE x \in D /\ x.via = k
        <4>1. b.via = None => b.via # x.via
          BY <2>6, <3>2
        <4> QED
          BY <2>3, <2>13, <3>2, <4>1 DEF Below
      <3> QED
        BY <2>10, <3>1, <3>2
    <2>16. ASSUME NEW d \in Cabinet, NEW k \in Conn, IsClient(net'[k], d)
           PROVE  Before(Told(d), SeqMembers(net'[k].dn))
      <3> SUFFICES ASSUME NEW b \in Told(d), NEW x \in SeqMembers(net'[k].dn) PROVE Below(b, x)
        BY DEF Before
      <3>1. IsClient(net[k], d)
        BY <2>11, <2>16
      <3>2. CASE x \in SeqMembers(net[k].dn)
        BY <1>1, <3>1, <3>2 DEF WiresInOrder, Before
      <3>3. CASE x \in D /\ net[k].cli # c
        <4>1. d # c /\ x.from = c
          BY <2>3, <3>1, <3>3 DEF IsClient
        <4> QED
          BY <2>3, <2>13, <3>3, <4>1 DEF Below
      <3> QED
        BY <2>11, <3>2, <3>3
    <2>17. ASSUME NEW k \in Conn, NEW b \in SeqMembers(net'[k].dn), b.via = None
           PROVE  b.from # net'[k].cli
      BY <1>1, <2>3, <2>11, <2>17 DEF WiresInOrder
    <2>18. \A k \in Conn : Sorted(net'[k].up) /\ Sorted(net'[k].dn)
      BY <2>7 DEF Gets
    <2>19. WiresInOrder(net')
      BY <2>14, <2>15, <2>16, <2>17, <2>18 DEF WiresInOrder
    <2>20. ASSUME NEW k \in Conn, NEW b \in SeqMembers(net'[k].up) \cup SeqMembers(net'[k].dn)
           PROVE  Passed(b) \/ (b.from = c /\ b.n <= sent[c])
      BY <2>3, <2>10, <2>11, <2>12, <2>20
    <2> QED
      BY <2>19, <2>20
  <1> QED
    BY <1>2, <1>3

LEMMA FlushStepOrder ==
    ASSUME Inv, Ordered, NEW c \in Cabinet, Flush(c)
    PROVE  Ordered'
  <1>1. /\ FlushSockets(c) /\ tx' = [tx EXCEPT ![c] = <<>>]
        /\ rx' = rx /\ heard' = heard /\ sent' = sent
    BY DEF Flush, ghostVars
  <1>2. TypeOK /\ BuffersInOrder /\ GuestsInOrder /\ DOMAIN tx = Cabinet
    BY DEF Inv, Ordered, TypeOK
  <1>3. /\ WiresInOrder(net')
        /\ \A k \in Conn : \A b \in SeqMembers(net'[k].up) \cup SeqMembers(net'[k].dn) :
             Passed(b) \/ (b.from = c /\ b.n <= sent[c])
    BY <1>1, FlushOrder
  <1>4. SeqMembers(<<>>) = {} /\ Sorted(<<>>)
    BY EmptyIs DEF Sorted
  <1>5. SeqMembers(tx'[c]) = {} /\ Sorted(tx'[c]) /\ \A d \in Cabinet : d # c => tx'[d] = tx[d]
    BY <1>1, <1>2, <1>4
  <1>6. BuffersInOrder'
    BY <1>1, <1>2, <1>5 DEF BuffersInOrder
  <1>7. ASSUME NEW b, b.from \in Cabinet, Passed(b) \/ (b.from = c /\ b.n <= sent[c]) PROVE Passed(b)'
    BY <1>1, <1>5, <1>7 DEF Passed
  <1>8. \A d \in Cabinet : Told(d)' = Told(d) /\ Heard(d)' = Heard(d) /\ Told(d) \subseteq Byte
    BY <1>1, <1>2, BytesAre DEF Told, Heard
  <1>9. \A b \in Byte : b.from \in Cabinet
    BY DEF Byte
  <1>10. GuestsInOrder'
    <2>1. \A d \in Cabinet : \A b \in Told(d)' : Passed(b)' \/ Echoed(d, b)'
      BY <1>1, <1>2, <1>7, <1>8, <1>9 DEF GuestsInOrder, Echoed
    <2> QED
      BY <1>1, <1>2, <1>8, <2>1 DEF GuestsInOrder
  <1>11. WiresInOrder(net)'
    BY <1>3, <1>8 DEF WiresInOrder
  <1>12. WiresPassed'
    <2>1. \A k \in Conn : SeqMembers(net'[k].up) \subseteq Byte /\ SeqMembers(net'[k].dn) \subseteq Byte
      <3>1. TypeOK'
        BY FlushInv DEF Inv
      <3> QED
        BY <3>1, MembersIs, ConnectionIs DEF TypeOK
    <2> QED
      BY <1>3, <1>7, <1>9, <2>1 DEF WiresPassed
  <1> QED
    BY <1>6, <1>10, <1>11, <1>12 DEF Ordered

\* A byte c writes is above all of its own that anybody has.
LEMMA WriteOrder ==
    ASSUME Inv, Ordered, NEW c \in Cabinet, Write(c)
    PROVE  Ordered'
  <1> DEFINE b == [from |-> c, n |-> sent[c] + 1, via |-> None]
  <1>1. /\ sent[c] < MaxBytes
        /\ \/ FlushSockets(c) /\ tx' = [tx EXCEPT ![c] = <<b>>]
           \/ tx' = [tx EXCEPT ![c] = Append(@, b)] /\ net' = net
        /\ rx' = rx \/ rx' = [rx EXCEPT ![c] = RxPush(rx[c], <<b>>)]
        /\ sent' = [sent EXCEPT ![c] = sent[c] + 1] /\ heard' = heard
    BY DEF Write
  <1>2. /\ TypeOK /\ BuffersInOrder /\ GuestsInOrder /\ WiresInOrder(net) /\ WiresPassed
        /\ DOMAIN tx = Cabinet /\ DOMAIN rx = Cabinet /\ DOMAIN sent = Cabinet
        /\ tx[c] \in Seq(Byte) /\ rx[c] \in Seq(Byte) /\ Len(rx[c]) < RxSize
        /\ \A d \in Cabinet : sent[d] \in Nat
    BY BoundsAssumption, SMTT(30) DEF Inv, Ordered, TypeOK
  <1>3. TypeOK' /\ MarkedBytes'
    BY WriteInv DEF Inv
  <1>4. b \in Byte
    BY <1>1, <1>2, BoundsAssumption DEF Byte
  <1>5. b.from = c /\ b.n = sent[c] + 1 /\ b.via = None
    OBVIOUS
  <1> HIDE DEF b
  <1>6. <<b>> \in Seq(Byte) /\ Sorted(<<b>>) /\ SeqMembers(<<b>>) = {b}
    BY <1>4, OneInOrder
  <1>7. sent'[c] = sent[c] + 1 /\ \A d \in Cabinet : d # c => sent'[d] = sent[d]
    BY <1>1, <1>2
  <1>8. /\ SeqMembers(tx'[c]) \subseteq SeqMembers(tx[c]) \cup {b} /\ Sorted(tx'[c])
        /\ \A d \in Cabinet : d # c => tx'[d] = tx[d]
    <2>1. CASE tx' = [tx EXCEPT ![c] = <<b>>]
      BY <1>2, <1>6, <2>1
    <2>2. CASE tx' = [tx EXCEPT ![c] = Append(@, b)]
      <3>1. tx'[c] = tx[c] \o <<b>> /\ \A d \in Cabinet : d # c => tx'[d] = tx[d]
        BY <1>2, <1>4, <2>2, AppendIsConcat
      <3>2. Before(SeqMembers(tx[c]), SeqMembers(<<b>>))
        <4>1. \A x \in SeqMembers(tx[c]) : x \in Byte /\ x.n <= sent[c]
          BY <1>2, BytesAre DEF BuffersInOrder
        <4>2. \A x \in SeqMembers(tx[c]) : x.n < b.n
          BY <1>2, <1>5, <4>1, BytesAre
        <4> QED
          BY <1>6, <4>2 DEF Before, Below
      <3>3. Sorted(tx[c]) /\ Sorted(tx[c] \o <<b>>)
        BY <1>2, <1>6, <3>2, ConcatInOrder DEF BuffersInOrder
      <3>4. SeqMembers(tx[c] \o <<b>>) = SeqMembers(tx[c]) \cup {b}
        <4> DEFINE q == <<b>>
        <4>1. tx[c] \in Seq(Byte) /\ q \in Seq(Byte) /\ SeqMembers(q) = {b}
          BY <1>2, <1>6
        <4> HIDE DEF q
        <4>2. SeqMembers(tx[c] \o q) = SeqMembers(tx[c]) \cup SeqMembers(q)
          BY <4>1, ConcatIs
        <4> QED
          BY <4>1, <4>2 DEF q
      <3> QED
        BY <3>1, <3>3, <3>4
    <2> QED
      BY <1>1, <2>1, <2>2
  <1>9. BuffersInOrder'
    <2>1. \A d \in Cabinet : Sorted(tx'[d])
      BY <1>2, <1>8 DEF BuffersInOrder
    <2>2. ASSUME NEW d \in Cabinet, NEW x \in SeqMembers(tx'[d])
          PROVE  x.from = d /\ x.via = None /\ x.n <= sent'[d]
      <3>1. CASE x = b /\ d = c
        BY <1>2, <1>5, <1>7, <3>1
      <3>2. CASE x \in SeqMembers(tx[d])
        <4>1. x.from = d /\ x.via = None /\ x.n <= sent[d] /\ x.n \in Nat
          BY <1>2, <3>2, BytesAre DEF BuffersInOrder
        <4> QED
          BY <1>2, <1>7, <4>1
      <3> QED
        BY <1>8, <2>2, <3>1, <3>2
    <2> QED
      BY <2>1, <2>2 DEF BuffersInOrder
  \* What had passed has still passed, and what was echoed is still an echo.
  <1>10. ASSUME NEW y \in Byte, Passed(y) PROVE Passed(y)'
    <2>1. y.n <= sent[y.from] /\ y.from \in Cabinet /\ y.n \in Nat /\ sent[y.from] \in Nat
      BY <1>2, <1>10, BytesAre DEF Passed
    <2>2. CASE y.from # c
      BY <1>7, <1>8, <1>10, <2>1, <2>2 DEF Passed
    <2>3. CASE y.from = c
      BY <1>5, <1>7, <1>8, <1>10, <2>1, <2>3 DEF Passed
    <2> QED
      BY <2>2, <2>3
  <1>11. ASSUME NEW y \in Byte, NEW d \in Cabinet, Echoed(d, y) PROVE Echoed(d, y)'
    BY <1>2, <1>7, <1>11, BytesAre, SMTT(30) DEF Echoed
  <1>12. ASSUME NEW y \in Told(c) PROVE Below(y, b)
    <2>1. y \in Byte /\ (y.from = c => y.n <= sent[c])
      BY <1>2, BytesAre DEF GuestsInOrder, Passed, Echoed
    <2> QED
      BY <1>2, <1>5, <2>1, BytesAre DEF Below
  <1>13. \A d \in Cabinet : Heard(d)' = Heard(d)
    BY <1>1 DEF Heard
  <1>14. /\ Sorted(rx'[c]) /\ SeqMembers(rx'[c]) \subseteq SeqMembers(rx[c]) \cup {b}
         /\ \A d \in Cabinet : d # c => rx'[d] = rx[d]
    <2>1. CASE rx' = rx
      BY <1>2, <2>1 DEF GuestsInOrder
    <2>2. CASE rx' = [rx EXCEPT ![c] = RxPush(rx[c], <<b>>)]
      <3>1. Before(SeqMembers(rx[c]), SeqMembers(<<b>>))
        BY <1>6, <1>12 DEF Told, Before
      <3>2. Sorted(RxPush(rx[c], <<b>>))
            /\ SeqMembers(RxPush(rx[c], <<b>>)) \subseteq SeqMembers(rx[c]) \cup SeqMembers(<<b>>)
        BY <1>2, <1>6, <3>1, PushInOrder DEF GuestsInOrder
      <3> QED
        BY <1>2, <1>6, <2>2, <3>2
    <2> QED
      BY <1>1, <2>1, <2>2
  <1>15. \A d \in Cabinet : \A y \in Told(d)' : y \in Told(d) \/ (d = c /\ y = b)
    BY <1>13, <1>14 DEF Told
  <1>16. GuestsInOrder'
    <2>1. \A d \in Cabinet : Sorted(rx'[d]) /\ Before(Heard(d)', SeqMembers(rx'[d]))
      <3>1. Before(Heard(c)', SeqMembers(rx'[c]))
        BY <1>2, <1>12, <1>13, <1>14 DEF GuestsInOrder, Told, Before
      <3> QED
        BY <1>2, <1>13, <1>14, <3>1 DEF GuestsInOrder
    <2>2. ASSUME NEW d \in Cabinet, NEW y \in Told(d)' PROVE Passed(y)' \/ Echoed(d, y)'
      <3>1. CASE y \in Told(d)
        BY <1>2, <1>10, <1>11, <3>1, BytesAre DEF GuestsInOrder
      <3>2. CASE d = c /\ y = b
        BY <1>2, <1>5, <1>7, <3>2 DEF Echoed
      <3> QED
        BY <1>15, <2>2, <3>1, <3>2
    <2> QED
      BY <1>1, <1>2, <2>1, <2>2 DEF GuestsInOrder
  <1>17. /\ WiresInOrder(net')
         /\ \A k \in Conn : \A x \in SeqMembers(net'[k].up) \cup SeqMembers(net'[k].dn) : Passed(x)'
    <2>1. \A k \in Conn : SeqMembers(net'[k].up) \subseteq Byte /\ SeqMembers(net'[k].dn) \subseteq Byte
      BY <1>3, MembersIs, ConnectionIs DEF TypeOK
    <2>2. CASE FlushSockets(c) /\ tx' = [tx EXCEPT ![c] = <<b>>]
      <3>1. /\ WiresInOrder(net')
            /\ \A k \in Conn : \A x \in SeqMembers(net'[k].up) \cup SeqMembers(net'[k].dn) :
                 Passed(x) \/ (x.from = c /\ x.n <= sent[c])
        BY <2>2, FlushOrder
      <3>2. SeqMembers(tx'[c]) = {b}
        BY <1>2, <1>6, <2>2
      <3>3. ASSUME NEW x \in Byte, x.from = c, x.n <= sent[c] PROVE Passed(x)'
        <4>1. x.n \in Nat /\ sent[c] \in Nat
          BY <1>2, BytesAre
        <4> QED
          BY <1>5, <1>7, <3>2, <3>3, <4>1 DEF Passed
      <3> QED
        BY <1>10, <2>1, <3>1, <3>3
    <2>3. CASE net' = net
      BY <1>2, <1>10, <2>1, <2>3 DEF WiresPassed
    <2> QED
      BY <1>1, <2>2, <2>3
  <1>18. WiresInOrder(net)'
    <2>1. None \notin Conn
      BY RolesAssumption
    <2>2. \A k \in Conn : \A x \in SeqMembers(net'[k].up) : Below(b, x)
      BY <1>3, <1>5, <2>1 DEF MarkedBytes, Marked, Below
    <2>3. \A k \in Conn : IsClient(net'[k], c) => \A x \in SeqMembers(net'[k].dn) : Below(b, x)
      BY <1>5, <1>17 DEF WiresInOrder, IsClient, Below
    <2>4. \A d \in Cabinet, k \in Conn : Before(Told(d)', SeqMembers(net'[k].up))
      BY <1>15, <1>17, <2>2 DEF WiresInOrder, Before
    <2>5. \A d \in Cabinet, k \in Conn : IsClient(net'[k], d) => Before(Told(d)', SeqMembers(net'[k].dn))
      BY <1>15, <1>17, <2>3 DEF WiresInOrder, Before
    <2> QED
      BY <1>17, <2>4, <2>5 DEF WiresInOrder
  <1>19. WiresPassed'
    BY <1>17 DEF WiresPassed
  <1> QED
    BY <1>9, <1>16, <1>18, <1>19 DEF Ordered

-----------------------------------------------------------------------------
(* Hearing.                                                                *)

\* c takes data off connection k, which leaves the wires nt.
Hears(c, k, nt, data) ==
    /\ state[c] \in {"CLIENT", "LISTENING"} /\ k \in Tab(c)
    /\ UNCHANGED <<tx, heard, sent>> /\ rx' = [rx EXCEPT ![c] = RxPush(rx[c], data)]
    /\ net' = IF state[c] = "LISTENING" THEN SentNet(c, nt, data, k) ELSE nt
    /\ \A j \in Conn : /\ Sound(j, nt[j]) /\ SameEnds(net[j], nt[j])
                       /\ Sorted(nt[j].up) /\ Sorted(nt[j].dn)
                       /\ j # k => nt[j] = net[j]
    /\ Sorted(data)
    /\ IF IsClient(net[k], c)
       THEN /\ nt[k].up = net[k].up
            /\ SeqMembers(data) \cup SeqMembers(nt[k].dn) \subseteq SeqMembers(net[k].dn)
            /\ Before(SeqMembers(data), SeqMembers(nt[k].dn))
       ELSE /\ nt[k].dn = net[k].dn
            /\ SeqMembers(data) \cup SeqMembers(nt[k].up) \subseteq SeqMembers(net[k].up)
            /\ Before(SeqMembers(data), SeqMembers(nt[k].up))

LEMMA HearsTakes ==
    ASSUME Inv, Ordered, NEW c \in Cabinet, DrainHears(c)
    PROVE  \E k \in Conn, data \in Seq(Byte) : \E nt : Hears(c, k, nt, data)
  <1> DEFINE k == InSlot(c)
             q == Inbound(net[k], c)
             n == Len(q)
             r(m) == IF IsClient(net[k], c) THEN [net[k] EXCEPT !.dn = SubSeq(q, m + 1, n)]
                                            ELSE [net[k] EXCEPT !.up = SubSeq(q, m + 1, n)]
  <1>1. /\ SocketsOK /\ TypeOK /\ WiresInOrder(net)
        /\ at[c] > 0 /\ k # None /\ UNCHANGED <<tx, heard, sent>>
    BY InvIs DEF Inv, Ordered, DrainHears, ghostVars
  <1>2. k \in Conn /\ k \in Tab(c) /\ state[c] \in {"CLIENT", "LISTENING"}
    BY <1>1, InSlotIs
  <1> HIDE DEF k
  <1>3. PICK m \in 1 .. Len(q) :
          /\ rx' = [rx EXCEPT ![c] = RxPush(@, SubSeq(q, 1, m))]
          /\ IF state[c] = "LISTENING"
             THEN net' = SentNet(c, [net EXCEPT ![k] = r(m)], SubSeq(q, 1, m), k)
             ELSE net' = [net EXCEPT ![k] = r(m)]
    BY DEF DrainHears, k
  <1> DEFINE data == SubSeq(q, 1, m)
             rest == SubSeq(q, m + 1, n)
             nt == [net EXCEPT ![k] = r(m)]
  <1>4. \A j \in Conn : Sound(j, net[j]) /\ Sorted(net[j].up) /\ Sorted(net[j].dn)
    BY <1>1 DEF SocketsOK, WiresInOrder
  <1>5. Sound(k, r(m)) /\ SameEnds(net[k], r(m))
    BY <1>2, <1>4, TakenIs, SMTT(30)
  <1>6. /\ net[k] \in Connection /\ net[k].up \in Seq(Byte) /\ net[k].dn \in Seq(Byte)
        /\ q = IF IsClient(net[k], c) THEN net[k].dn ELSE net[k].up
    BY <1>2, <1>4, ConnectionIs DEF Sound, Inbound
  <1>7. q \in Seq(Byte) /\ Sorted(q) /\ n \in Nat /\ m \in 0 .. n
    BY <1>2, <1>4, <1>6, LenProperties
  <1>8. /\ data \in Seq(Byte) /\ Sorted(data) /\ Sorted(rest)
        /\ SeqMembers(data) \subseteq SeqMembers(q) /\ SeqMembers(rest) \subseteq SeqMembers(q)
        /\ Before(SeqMembers(data), SeqMembers(rest))
    BY <1>7, PartsInOrder
  <1>9. r(m) = IF IsClient(net[k], c) THEN [net[k] EXCEPT !.dn = rest] ELSE [net[k] EXCEPT !.up = rest]
    OBVIOUS
  <1>10. nt[k] = r(m) /\ \A j \in Conn : j # k => nt[j] = net[j]
    BY <1>1, <1>2 DEF SocketsOK
  <1>11. rx' = [rx EXCEPT ![c] = RxPush(rx[c], data)]
         /\ net' = IF state[c] = "LISTENING" THEN SentNet(c, nt, data, k) ELSE nt
    BY <1>3
  <1> HIDE DEF nt, r, data, rest, q, n
  <1>12. IF IsClient(net[k], c) THEN nt[k].dn = rest /\ nt[k].up = net[k].up
                                ELSE nt[k].up = rest /\ nt[k].dn = net[k].dn
    BY <1>6, <1>9, <1>10 DEF Connection
  <1>13. \A j \in Conn : Sound(j, nt[j]) /\ SameEnds(net[j], nt[j]) /\ Sorted(nt[j].up) /\ Sorted(nt[j].dn)
    <2>1. Sorted(nt[k].up) /\ Sorted(nt[k].dn)
      BY <1>2, <1>4, <1>8, <1>12
    <2> QED
      BY <1>4, <1>5, <1>10, <2>1 DEF SameEnds
  <1>14. IF IsClient(net[k], c)
         THEN /\ nt[k].up = net[k].up
              /\ SeqMembers(data) \cup SeqMembers(nt[k].dn) \subseteq SeqMembers(net[k].dn)
              /\ Before(SeqMembers(data), SeqMembers(nt[k].dn))
         ELSE /\ nt[k].dn = net[k].dn
              /\ SeqMembers(data) \cup SeqMembers(nt[k].up) \subseteq SeqMembers(net[k].up)
              /\ Before(SeqMembers(data), SeqMembers(nt[k].up))
    BY <1>6, <1>8, <1>12
  <1>15. Hears(c, k, nt, data)
    BY <1>1, <1>2, <1>8, <1>10, <1>11, <1>13, <1>14 DEF Hears
  <1> QED
    BY <1>2, <1>8, <1>15

\* The guest's ring takes what is after all it has.
LEMMA HearsGuests ==
    ASSUME Inv, Ordered, NEW c \in Cabinet, NEW data \in Seq(Byte),
           UNCHANGED <<tx, heard, sent>>, rx' = [rx EXCEPT ![c] = RxPush(rx[c], data)],
           Sorted(data), Before(Told(c), SeqMembers(data)), \A b \in SeqMembers(data) : Passed(b)
    PROVE  /\ BuffersInOrder' /\ GuestsInOrder'
           /\ Told(c)' \subseteq Told(c) \cup SeqMembers(data)
           /\ \A d \in Cabinet : d # c => Told(d)' = Told(d)
           /\ \A b : Passed(b)' <=> Passed(b)
  <1>1. /\ BuffersInOrder /\ GuestsInOrder /\ DOMAIN rx = Cabinet
        /\ rx[c] \in Seq(Byte) /\ Len(rx[c]) < RxSize
    BY DEF Inv, Ordered, TypeOK
  <1>2. \A b : /\ Passed(b)' <=> Passed(b)
               /\ \A d : Echoed(d, b)' <=> Echoed(d, b)
    BY DEF Passed, Echoed
  <1>3. Before(SeqMembers(rx[c]), SeqMembers(data)) /\ Before(Heard(c), SeqMembers(data))
    BY DEF Told, Before
  <1>4. /\ Sorted(RxPush(rx[c], data))
        /\ SeqMembers(RxPush(rx[c], data)) \subseteq SeqMembers(rx[c]) \cup SeqMembers(data)
    BY <1>1, <1>3, PushInOrder DEF GuestsInOrder
  <1>5. /\ Sorted(rx'[c]) /\ SeqMembers(rx'[c]) \subseteq SeqMembers(rx[c]) \cup SeqMembers(data)
        /\ \A d \in Cabinet : d # c => rx'[d] = rx[d]
    BY <1>1, <1>4
  <1>6. \A d \in Cabinet : Heard(d)' = Heard(d)
    BY DEF Heard
  <1>7. Told(c)' \subseteq Told(c) \cup SeqMembers(data) /\ \A d \in Cabinet : d # c => Told(d)' = Told(d)
    BY <1>5, <1>6 DEF Told
  <1>8. GuestsInOrder'
    <2>1. Before(Heard(c)', SeqMembers(rx'[c]))
      BY <1>1, <1>3, <1>5, <1>6 DEF GuestsInOrder, Before
    <2>2. \A d \in Cabinet : Sorted(rx'[d]) /\ Before(Heard(d)', SeqMembers(rx'[d]))
      BY <1>1, <1>5, <1>6, <2>1 DEF GuestsInOrder
    <2>3. \A d \in Cabinet : \A b \in Told(d)' : Passed(b)' \/ Echoed(d, b)'
      BY <1>1, <1>2, <1>7 DEF GuestsInOrder
    <2> QED
      BY <1>1, <2>2, <2>3 DEF GuestsInOrder
  <1>9. BuffersInOrder'
    BY <1>1 DEF BuffersInOrder
  <1> QED
    BY <1>2, <1>7, <1>8, <1>9

LEMMA ClientHears ==
    ASSUME Inv, Ordered, NEW c \in Cabinet, state[c] = "CLIENT",
           NEW k \in Conn, NEW data \in Seq(Byte), NEW nt, Hears(c, k, nt, data)
    PROVE  Ordered'
  <1> DEFINE D == SeqMembers(data)
  <1>1. TypeOK /\ Shape /\ WiresInOrder(net) /\ WiresPassed
    BY DEF Inv, Ordered
  <1>2. /\ k \in Tab(c) /\ UNCHANGED <<tx, heard, sent>> /\ rx' = [rx EXCEPT ![c] = RxPush(rx[c], data)]
        /\ net' = nt /\ Sorted(data)
        /\ \A j \in Conn : SameEnds(net[j], nt[j]) /\ Sorted(nt[j].up) /\ Sorted(nt[j].dn)
                           /\ (j # k => nt[j] = net[j])
    BY DEF Hears
  \* A client has one connection.
  <1>3. IsClient(net[k], c) /\ \A j \in Conn : IsClient(net[j], c) => j = k
    <2>1. IsClient(net[k], c) /\ Len(peer[c]) <= 1 /\ peer[c] \in Seq(Conn)
      BY <1>1, <1>2, TypeFacts DEF Shape, PeersMatchState, Calling
    <2>2. \A j \in Conn : IsClient(net[j], c) => j \in Tab(c)
      BY <1>1 DEF Shape, DialledIsPeer
    <2>3. \A j \in Tab(c) : j = peer[c][1]
      <3>1. Len(peer[c]) \in Nat /\ \A j \in Tab(c) : \E i \in 1 .. Len(peer[c]) : peer[c][i] = j
        BY <2>1, MembersIs DEF Tab
      <3>2. \A i \in 1 .. Len(peer[c]) : i = 1
        BY <2>1, <3>1
      <3> QED
        BY <3>1, <3>2
    <2> QED
      BY <1>2, <2>1, <2>2, <2>3
  <1>4. /\ nt[k].up = net[k].up /\ D \cup SeqMembers(nt[k].dn) \subseteq SeqMembers(net[k].dn)
        /\ Before(D, SeqMembers(nt[k].dn))
    BY <1>3 DEF Hears
  <1>5. Before(Told(c), D) /\ \A b \in D : Passed(b)
    BY <1>1, <1>3, <1>4 DEF WiresInOrder, WiresPassed, Before
  <1> HIDE DEF D
  <1>6. /\ BuffersInOrder' /\ GuestsInOrder'
        /\ Told(c)' \subseteq Told(c) \cup D /\ \A d \in Cabinet : d # c => Told(d)' = Told(d)
        /\ \A b : Passed(b)' <=> Passed(b)
    BY <1>2, <1>5, HearsGuests DEF D
  <1>7. \A j \in Conn : /\ net'[j].up = net[j].up
                        /\ SeqMembers(net'[j].dn) \subseteq SeqMembers(net[j].dn)
                        /\ net'[j].cli = net[j].cli
                        /\ \A d : IsClient(net'[j], d) <=> IsClient(net[j], d)
    BY <1>2, <1>4 DEF SameEnds, IsClient
  <1>8. WiresInOrder(net)'
    <2>1. \A j \in Conn : Sorted(net'[j].up) /\ Sorted(net'[j].dn)
      BY <1>2
    <2>2. \A i, j \in Conn : Before(SeqMembers(net'[i].dn), SeqMembers(net'[j].up))
      BY <1>1, <1>7 DEF WiresInOrder, Before
    <2>3. \A d \in Cabinet, j \in Conn : Before(Told(d)', SeqMembers(net'[j].up))
      BY <1>1, <1>4, <1>6, <1>7 DEF WiresInOrder, Before
    <2>4. ASSUME NEW d \in Cabinet, NEW j \in Conn, IsClient(net'[j], d)
          PROVE  Before(Told(d)', SeqMembers(net'[j].dn))
      <3>1. Before(Told(d), SeqMembers(net'[j].dn))
        BY <1>1, <1>7, <2>4 DEF WiresInOrder, Before
      <3>2. CASE d = c
        <4>1. j = k
          BY <1>3, <1>7, <2>4, <3>2
        <4> QED
          BY <1>2, <1>4, <1>6, <3>1, <3>2, <4>1 DEF Before
      <3>3. CASE d # c
        BY <1>6, <3>1, <3>3
      <3> QED
        BY <3>2, <3>3
    <2>5. \A j \in Conn : \A b \in SeqMembers(net'[j].dn) : b.via = None => b.from # net'[j].cli
      BY <1>1, <1>7 DEF WiresInOrder
    <2> QED
      BY <2>1, <2>2, <2>3, <2>4, <2>5 DEF WiresInOrder
  <1>9. WiresPassed'
    BY <1>1, <1>6, <1>7 DEF WiresPassed
  <1> QED
    BY <1>6, <1>8, <1>9 DEF Ordered

LEMMA ListenerHears ==
    ASSUME Inv, Ordered, NEW c \in Cabinet, state[c] = "LISTENING",
           NEW k \in Conn, NEW data \in Seq(Byte), NEW nt, Hears(c, k, nt, data)
    PROVE  Ordered'
  <1> DEFINE D == SeqMembers(data)
  <1>1. TypeOK /\ Shape /\ MarkedBytes /\ WiresInOrder(net) /\ WiresPassed /\ None \notin Conn
    BY RolesAssumption DEF Inv, Ordered
  <1>2. /\ k \in Tab(c) /\ UNCHANGED <<tx, heard, sent>> /\ rx' = [rx EXCEPT ![c] = RxPush(rx[c], data)]
        /\ net' = SentNet(c, nt, data, k) /\ Sorted(data)
        /\ \A j \in Conn : /\ Sound(j, nt[j]) /\ SameEnds(net[j], nt[j])
                           /\ Sorted(nt[j].up) /\ Sorted(nt[j].dn)
                           /\ j # k => nt[j] = net[j]
    BY DEF Hears
  <1>3. \A j \in Conn : ~IsClient(net[j], c) /\ ~IsClient(nt[j], c)
    <2>1. \A j \in Conn : ~IsClient(net[j], c)
      BY <1>1 DEF Shape, DialledIsPeer, Calling
    <2> QED
      BY <1>2, <2>1 DEF SameEnds, IsClient
  <1>4. /\ nt[k].dn = net[k].dn /\ D \cup SeqMembers(nt[k].up) \subseteq SeqMembers(net[k].up)
        /\ Before(D, SeqMembers(nt[k].up))
    BY <1>3 DEF Hears
  <1>5. /\ \A b \in D : b.via = k /\ Passed(b)
        /\ \A d \in Cabinet : Before(Told(d), D)
        /\ \A j \in Conn : Before(SeqMembers(net[j].dn), D)
    <2>1. \A b \in D : b.via = k /\ Passed(b)
      BY <1>1, <1>4 DEF MarkedBytes, Marked, WiresPassed
    <2>2. \A d \in Cabinet : Before(Told(d), D)
      BY <1>1, <1>4 DEF WiresInOrder, Before
    <2>3. \A j \in Conn : Before(SeqMembers(net[j].dn), D)
      BY <1>1, <1>4 DEF WiresInOrder, Before
    <2> QED
      BY <2>1, <2>2, <2>3
  <1> HIDE DEF D
  <1>6. /\ BuffersInOrder' /\ GuestsInOrder'
        /\ Told(c)' \subseteq Told(c) \cup D /\ \A d \in Cabinet : d # c => Told(d)' = Told(d)
        /\ \A b : Passed(b)' <=> Passed(b)
    BY <1>2, <1>5, HearsGuests DEF D
  <1>7. \A j \in Conn : Gets(c, nt[j], net'[j], D) /\ (j = k => net'[j] = nt[j])
    <2>1. Tab(c) \subseteq Conn
      BY <1>1, TypeFacts
    <2>2. \A j \in Tab(c) : j # k =>
            IF IsClient(nt[j], c) THEN Before(SeqMembers(nt[j].up), D) ELSE Before(SeqMembers(nt[j].dn), D)
      BY <1>2, <1>3, <1>5, <2>1
    <2>3. ASSUME NEW j \in Conn
          PROVE  /\ Gets(c, nt[j], SentNet(c, nt, data, k)[j], SeqMembers(data))
                 /\ j = k \/ j \notin Tab(c) => SentNet(c, nt, data, k)[j] = nt[j]
      BY <1>2, <2>2, SentGets DEF D
    <2> QED
      BY <1>2, <2>3 DEF D
  <1>8. \A j \in Conn : /\ Sorted(net'[j].up) /\ Sorted(net'[j].dn)
                        /\ SeqMembers(net'[j].up) \subseteq SeqMembers(nt[j].up)
    BY <1>3, <1>7 DEF Gets
  <1>9. \A j \in Conn : SeqMembers(net'[j].up) \subseteq SeqMembers(net[j].up)
    BY <1>2, <1>4, <1>8
  <1>10. ASSUME NEW j \in Conn, NEW b \in SeqMembers(net'[j].dn)
         PROVE  /\ b \in SeqMembers(net[j].dn) \/ b \in D
                /\ net'[j].cli = net[j].cli /\ \A d : IsClient(net'[j], d) => IsClient(net[j], d)
    <2>1. /\ b \in SeqMembers(nt[j].dn) \/ b \in D
          /\ net'[j].cli = nt[j].cli /\ \A d : IsClient(net'[j], d) => IsClient(nt[j], d)
      BY <1>7, <1>10 DEF Gets
    <2>2. nt[j].dn = net[j].dn /\ nt[j].cli = net[j].cli /\ \A d : IsClient(nt[j], d) => IsClient(net[j], d)
      BY <1>2, <1>4 DEF SameEnds, IsClient
    <2> QED
      BY <2>1, <2>2
  \* What is relayed is before what waits on its connection, and of another
  \* connection than what waits on the others.
  <1>11. \A j \in Conn : Before(D, SeqMembers(net'[j].up))
    <2> SUFFICES ASSUME NEW j \in Conn, NEW b \in D, NEW x \in SeqMembers(net'[j].up) PROVE Below(b, x)
      BY DEF Before
    <2>1. CASE j = k
      BY <1>4, <1>8, <2>1 DEF Before
    <2>2. CASE j # k
      <3>1. x.via = j /\ b.via = k
        BY <1>1, <1>5, <1>9 DEF MarkedBytes, Marked
      <3> QED
        BY <2>2, <3>1 DEF Below
    <2> QED
      BY <2>1, <2>2
  <1>12. WiresInOrder(net)'
    <2>1. \A i, j \in Conn : Before(SeqMembers(net'[i].dn), SeqMembers(net'[j].up))
      BY <1>1, <1>9, <1>10, <1>11 DEF WiresInOrder, Before
    <2>2. \A d \in Cabinet, j \in Conn : Before(Told(d)', SeqMembers(net'[j].up))
      BY <1>1, <1>6, <1>9, <1>11 DEF WiresInOrder, Before
    <2>3. ASSUME NEW d \in Cabinet, NEW j \in Conn, IsClient(net'[j], d)
          PROVE  Before(Told(d)', SeqMembers(net'[j].dn))
      <3> SUFFICES ASSUME NEW b \in Told(d)', NEW x \in SeqMembers(net'[j].dn) PROVE Below(b, x)
        BY DEF Before
      <3>1. IsClient(net[j], d) /\ (x \in SeqMembers(net[j].dn) \/ x \in D)
        BY <1>10, <2>3
      <3>2. b \in Told(d)
        BY <1>3, <1>6, <3>1
      <3> QED
        BY <1>1, <1>5, <3>1, <3>2 DEF WiresInOrder, Before
    <2>4. \A j \in Conn : \A b \in SeqMembers(net'[j].dn) : b.via = None => b.from # net'[j].cli
      BY <1>1, <1>5, <1>10 DEF WiresInOrder
    <2> QED
      BY <1>8, <2>1, <2>2, <2>3, <2>4 DEF WiresInOrder
  <1>13. WiresPassed'
    BY <1>1, <1>5, <1>6, <1>9, <1>10 DEF WiresPassed
  <1> QED
    BY <1>6, <1>12, <1>13 DEF Ordered

LEMMA HearsOrder ==
    ASSUME Inv, Ordered, NEW c \in Cabinet, DrainHears(c)
    PROVE  Ordered'
  <1>1. PICK k \in Conn, data \in Seq(Byte) : \E nt : Hears(c, k, nt, data)
    BY HearsTakes
  <1>2. PICK nt : Hears(c, k, nt, data)
    BY <1>1
  <1>3. state[c] \in {"CLIENT", "LISTENING"}
    BY <1>2 DEF Hears
  <1> QED
    BY <1>2, <1>3, ClientHears, ListenerHears

-----------------------------------------------------------------------------
(* Every step keeps the order.                                             *)

LEMMA NextOrder == Inv /\ Ordered /\ [Next]_vars => Ordered'
  <1> SUFFICES ASSUME Inv, Ordered, [Next]_vars PROVE Ordered'
    OBVIOUS
  <1>1. ASSUME NEW c \in Cabinet,
               \/ Poll(c) \/ DrainHears(c) \/ DrainQuiet(c) \/ DrainClientLost(c)
               \/ DrainPeerLost(c) \/ Flush(c) \/ Read(c) \/ Write(c)
               \/ HoldExpires(c) \/ Restart(c)
        PROVE  Ordered'
    <2>1. CASE Poll(c) \/ DrainQuiet(c) \/ HoldExpires(c) \/ DrainClientLost(c) \/ Restart(c)
      BY <2>1, StillQuiet, DialsQuiet, LeavesQuiet DEF Poll
    <2>2. CASE DrainHears(c) \/ DrainPeerLost(c) \/ Flush(c) \/ Read(c) \/ Write(c)
      BY <2>2, HearsOrder, PeerLostQuiet, FlushStepOrder, ReadOrder, WriteOrder
    <2> QED
      BY <1>1, <2>1, <2>2
  <1>2. ASSUME NEW k \in Conn,
               SynRefused(k) \/ SynAnswered(k) \/ Fin(k) \/ Rst(k) \/ Break(k)
        PROVE  Ordered'
    BY <1>2, NetworkQuiet
  <1> QED
    BY <1>1, <1>2, StutterOrder DEF Next

LEMMA InitOrder == Init => Ordered
  <1> SUFFICES ASSUME Init PROVE Ordered
    OBVIOUS
  <1>1. /\ \A c \in Cabinet : rx[c] = <<>> /\ tx[c] = <<>> /\ heard[c] = [o \in Cabinet |-> <<>>]
        /\ \A k \in Conn : net[k].up = <<>> /\ net[k].dn = <<>>
        /\ heard = [c \in Cabinet |-> [o \in Cabinet |-> <<>>]]
    BY DEF Init, FreeConn
  <1>2. SeqMembers(<<>>) = {} /\ Sorted(<<>>) /\ <<>> \in Seq(Mark) /\ DOMAIN <<>> = {}
    BY EmptyIs, EmptySeq DEF Sorted
  <1>3. \A c \in Cabinet : Heard(c) = {} /\ Told(c) = {}
    <2>1. \A b \in Byte : b.from \in Cabinet
      BY DEF Byte
    <2> QED
      BY <1>1, <1>2, <2>1 DEF Heard, Told
  <1>4. BuffersInOrder /\ WiresPassed
    BY <1>1, <1>2 DEF BuffersInOrder, WiresPassed
  <1>5. GuestsInOrder
    BY <1>1, <1>2, <1>3 DEF GuestsInOrder, Before
  <1>6. WiresInOrder(net)
    BY <1>1, <1>2 DEF WiresInOrder, Before
  <1> QED
    BY <1>4, <1>5, <1>6 DEF Ordered

LEMMA OrderedHears == Inv /\ Ordered => HearsInOrder
  <1> SUFFICES ASSUME Inv, Ordered, NEW c \in Cabinet, NEW o \in Cabinet
               PROVE  \A i, j \in DOMAIN HeardOf(c, o) :
                        i < j /\ HeardOf(c, o)[i].via = HeardOf(c, o)[j].via
                          => HeardOf(c, o)[i].n < HeardOf(c, o)[j].n
    BY DEF HearsInOrder
  <1> DEFINE g == heard[c][o]
             S == {b \in Byte : b.from = o}
             mine == Kept(rx[c], S)
             mk == [i \in DOMAIN mine |-> [n |-> mine[i].n, via |-> mine[i].via]]
             h == HeardOf(c, o)
  <1>1. rx[c] \in Seq(Byte) /\ Sorted(rx[c]) /\ g \in Seq(Mark) /\ Before(Heard(c), SeqMembers(rx[c]))
    BY DEF Inv, TypeOK, Ordered, GuestsInOrder
  <1>2. mine \in Seq(Byte) /\ Sorted(mine) /\ SeqMembers(mine) = SeqMembers(rx[c]) \cap S
    BY <1>1, KeptIs, KeptInOrder
  <1>3. h = g \o mk
    BY DEF HeardOf
  <1> HIDE DEF mine, h
  <1>4. /\ Len(mine) \in Nat /\ DOMAIN mine = 1 .. Len(mine)
        /\ \A i \in 1 .. Len(mine) : mine[i] \in Byte /\ mine[i].from = o /\ mine[i] \in SeqMembers(rx[c])
    <2>1. Len(mine) \in Nat /\ DOMAIN mine = 1 .. Len(mine) /\ \A i \in 1 .. Len(mine) : mine[i] \in SeqMembers(mine)
      BY <1>2, MembersIs
    <2> QED
      BY <1>2, <2>1
  <1>5. /\ mk \in Seq(Mark) /\ Len(mk) = Len(mine)
        /\ \A i \in 1 .. Len(mine) : mk[i].n = mine[i].n /\ mk[i].via = mine[i].via
    <2>1. \A i \in 1 .. Len(mine) : [n |-> mine[i].n, via |-> mine[i].via] \in Mark
      BY <1>4 DEF Byte, Mark
    <2>2. mk \in [1 .. Len(mine) -> Mark]
      BY <1>4, <2>1
    <2>3. mk \in Seq(Mark) /\ DOMAIN mk = 1 .. Len(mine)
      BY <1>4, <2>2, SeqDef
    <2>4. Len(mk) = Len(mine)
      BY <1>4, <2>3, LenProperties
    <2> QED
      BY <1>4, <2>3, <2>4
  <1> HIDE DEF mk
  <1>6. Len(g) \in Nat /\ DOMAIN g = 1 .. Len(g) /\ \A i \in 1 .. Len(g) : g[i] \in Mark
    BY <1>1, LenProperties
  <1>7. /\ DOMAIN h = 1 .. Len(g) + Len(mine)
        /\ \A i \in 1 .. Len(g) + Len(mine) : h[i] = IF i <= Len(g) THEN g[i] ELSE mk[i - Len(g)]
    <2>1. g \in Seq(Mark) /\ mk \in Seq(Mark)
      BY <1>1, <1>5
    <2> HIDE DEF g
    <2>2. /\ g \o mk \in Seq(Mark) /\ Len(g \o mk) = Len(g) + Len(mk)
          /\ \A i \in 1 .. Len(g) + Len(mk) :
               (g \o mk)[i] = IF i <= Len(g) THEN g[i] ELSE mk[i - Len(g)]
      BY <2>1, ConcatProperties
    <2>3. DOMAIN (g \o mk) = 1 .. Len(g) + Len(mk)
      BY <2>2, LenProperties
    <2> QED
      BY <1>3, <1>5, <2>2, <2>3
  <1>8. \A i \in 1 .. Len(g) + Len(mine) :
          \/ i \in 1 .. Len(g) /\ h[i] = g[i]
          \/ i > Len(g) /\ i - Len(g) \in 1 .. Len(mine) /\ h[i] = mk[i - Len(g)]
    BY <1>4, <1>6, <1>7
  \* What the guest has read is below what is in its ring.
  <1>9. \A i \in 1 .. Len(g), j \in 1 .. Len(mine) : g[i].via = mine[j].via => g[i].n < mine[j].n
    <2> SUFFICES ASSUME NEW i \in 1 .. Len(g), NEW j \in 1 .. Len(mine), g[i].via = mine[j].via
                 PROVE  g[i].n < mine[j].n
      OBVIOUS
    <2> DEFINE y == [from |-> o, n |-> g[i].n, via |-> g[i].via]
    <2>1. y \in Byte /\ y.from = o /\ y.n = g[i].n /\ y.via = g[i].via /\ g[i] = [n |-> y.n, via |-> y.via]
      BY <1>6 DEF Byte, Mark
    <2> HIDE DEF y
    <2>2. i \in DOMAIN heard[c][y.from] /\ heard[c][y.from][i] = [n |-> y.n, via |-> y.via]
      BY <1>6, <2>1
    <2>3. y \in Heard(c)
      BY <2>1, <2>2 DEF Heard
    <2> QED
      BY <1>1, <1>4, <2>1, <2>3 DEF Before, Below
  <1>10. \A i, j \in 1 .. Len(g) : i < j /\ g[i].via = g[j].via => g[i].n < g[j].n
    BY <1>6 DEF Ordered, GuestsInOrder
  <1>11. \A i, j \in 1 .. Len(mine) : i < j /\ mine[i].via = mine[j].via => mine[i].n < mine[j].n
    BY <1>2, <1>4 DEF Sorted, Below
  <1> HIDE DEF g
  <1>12. ASSUME NEW i \in 1 .. Len(g) + Len(mine), NEW j \in 1 .. Len(g) + Len(mine),
                i < j /\ h[i].via = h[j].via
         PROVE  h[i].n < h[j].n
    <2>1. CASE i \in 1 .. Len(g) /\ h[i] = g[i]
      BY <1>5, <1>8, <1>9, <1>10, <1>12, <2>1
    <2>2. CASE i > Len(g) /\ i - Len(g) \in 1 .. Len(mine) /\ h[i] = mk[i - Len(g)]
      <3>1. j - Len(g) \in 1 .. Len(mine) /\ h[j] = mk[j - Len(g)] /\ i - Len(g) < j - Len(g)
        BY <1>6, <1>8, <1>12, <2>2
      <3> QED
        BY <1>5, <1>11, <1>12, <2>2, <3>1
    <2> QED
      BY <1>8, <2>1, <2>2
  <1> QED
    BY <1>7, <1>12 DEF h

\* However many cabinets, peers, breaks and resets: what a guest reads and will
\* read of one sender's bytes that came by one connection is in the order they
\* were sent and has none of them twice, through the sender's buffer, the
\* wires, the listener's relay and the guest's ring.
THEOREM HearsSafe == Spec => []HearsInOrder
  <1>1. Init => Inv /\ Ordered
    BY InitInv, InitOrder
  <1>2. Inv /\ Ordered /\ [Next]_vars => (Inv /\ Ordered)'
    BY NextInv, NextOrder
  <1>3. Inv /\ Ordered => HearsInOrder
    BY OrderedHears
  <1> QED
    BY <1>1, <1>2, <1>3, PTL DEF Spec
=============================================================================
