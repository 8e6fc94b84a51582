----------------------------- MODULE TimerProof ------------------------------
(***************************************************************************)
(* What holds of the timer list for any number of timers, any delays and   *)
(* periods, and any calls of their callbacks.                              *)
(***************************************************************************)
EXTENDS Timer, FiniteSetTheorems, FunctionTheorems, Induction, TLAPS

-----------------------------------------------------------------------------
(* The list as a sequence s of n timers: the enabled ones of A, in which   *)
(* next and prev step forward and back.                                    *)

Linked(l, A, n, s) ==
    /\ \A i, j \in 1 .. n : s[i] = s[j] => i = j
    /\ \A t \in A : l.enabled[t] <=> \E i \in 1 .. n : s[i] = t
    /\ l.head = IF n = 0 THEN NoTimer ELSE s[1]
    /\ \A i \in 1 .. n : l.next[s[i]] = IF i = n THEN NoTimer ELSE s[i + 1]
    /\ \A i \in 1 .. n : l.prev[s[i]] = IF i = 1 THEN NoTimer ELSE s[i - 1]
    /\ \A t \in A : ~l.enabled[t] => l.next[t] = NoTimer /\ l.prev[t] = NoTimer
\* Soonest first, but for the timers in X.
InOrder(l, n, s, X) ==
    \A i, j \in 1 .. n :
      i < j /\ s[i] \notin X /\ s[j] \notin X => l.ts[s[i]] <= l.ts[s[j]]
Listed(l, A, X) ==
    \E n \in Nat : \E s \in [1 .. n -> A] : Linked(l, A, n, s) /\ InOrder(l, n, s, X)

\* What a change of the list leaves alone.
SameTimes(l, k) ==
    /\ k.tsc = l.tsc /\ k.inited = l.inited /\ k.ts = l.ts
    /\ k.split = l.split /\ k.period = l.period

LEMMA DisableIs ==
    ASSUME NEW A, A \subseteq Timers, NEW l \in List, l.inited, NEW t \in A, Listed(l, A, {t})
    PROVE  /\ Disable(l, t) \in List /\ SameTimes(l, Disable(l, t))
           /\ Disable(l, t).target = l.target
           /\ Disable(l, t).enabled = [l.enabled EXCEPT ![t] = FALSE]
           /\ \A u \in Timers : Disable(l, t).inCallback[u] => l.inCallback[u]
           /\ Listed(Disable(l, t), A, {})
  <1> DEFINE k == Disable(l, t)
  <1>1. /\ l.enabled \in [Timers -> BOOLEAN] /\ l.inCallback \in [Timers -> BOOLEAN]
        /\ l.next \in [Timers -> Link] /\ l.prev \in [Timers -> Link]
        /\ t \in Timers /\ NoTimer \notin Timers /\ l.ts \in [Timers -> Int]
    BY TimerAssumption DEF List
  <1>n. PICK n \in Nat :
          \E s \in [1 .. n -> A] : Linked(l, A, n, s) /\ InOrder(l, n, s, {t})
    BY DEF Listed
  <1>2. PICK s \in [1 .. n -> A] : Linked(l, A, n, s) /\ InOrder(l, n, s, {t})
    BY <1>n
  <1>3. CASE ~l.enabled[t]
    <2>1. k = l
      BY <1>3 DEF Disable
    <2>2. \A i \in 1 .. n : s[i] # t
      BY <1>2, <1>3 DEF Linked
    <2>3. InOrder(l, n, s, {})
      BY <1>2, <2>2 DEF InOrder
    <2>4. Listed(l, A, {}) /\ SameTimes(l, l)
      BY <1>2, <2>3 DEF Listed, SameTimes
    <2>5. l.enabled = [l.enabled EXCEPT ![t] = FALSE]
      BY <1>1, <1>3
    <2> QED
      BY <2>1, <2>4, <2>5
  <1>4. CASE l.enabled[t]
    <2>1. k = [l EXCEPT
            !.enabled[t] = FALSE, !.inCallback[t] = FALSE,
            !.head = IF l.prev[t] = NoTimer THEN l.next[t] ELSE @,
            !.next = [u \in Timers |->
                        IF u = t THEN NoTimer
                        ELSE IF u = l.prev[t] THEN l.next[t] ELSE @[u]],
            !.prev = [u \in Timers |->
                        IF u = t THEN NoTimer
                        ELSE IF u = l.next[t] THEN l.prev[t] ELSE @[u]]]
      BY <1>4 DEF Disable
    <2>2. /\ k.enabled = [l.enabled EXCEPT ![t] = FALSE]
          /\ k.inCallback = [l.inCallback EXCEPT ![t] = FALSE]
          /\ k.head = IF l.prev[t] = NoTimer THEN l.next[t] ELSE l.head
          /\ k.next = [u \in Timers |-> IF u = t THEN NoTimer
                                        ELSE IF u = l.prev[t] THEN l.next[t] ELSE l.next[u]]
          /\ k.prev = [u \in Timers |-> IF u = t THEN NoTimer
                                        ELSE IF u = l.next[t] THEN l.prev[t] ELSE l.prev[u]]
          /\ SameTimes(l, k) /\ k.target = l.target
      BY <2>1 DEF List, SameTimes
    <2>3. k \in List
      <3>1. /\ k.enabled \in [Timers -> BOOLEAN] /\ k.inCallback \in [Timers -> BOOLEAN]
            /\ k.head \in Link /\ k.next \in [Timers -> Link] /\ k.prev \in [Timers -> Link]
        <4>1. l.head \in Link /\ l.next[t] \in Link /\ l.prev[t] \in Link /\ NoTimer \in Link
          BY <1>1 DEF List, Link
        <4> QED
          BY <1>1, <2>2, <4>1
      <3>2. k = [l EXCEPT !.enabled = k.enabled, !.inCallback = k.inCallback, !.head = k.head,
                          !.next = k.next, !.prev = k.prev]
        BY <2>1 DEF List
      <3> HIDE DEF k
      <3> QED
        BY <3>1, <3>2 DEF List
    <2> HIDE DEF k
    <2>4. PICK m \in 1 .. n : s[m] = t
      BY <1>2, <1>4 DEF Linked
    <2> DEFINE r == [i \in 1 .. n - 1 |-> IF i < m THEN s[i] ELSE s[i + 1]]
               old(i) == IF i < m THEN i ELSE i + 1
    <2>5. /\ n - 1 \in Nat /\ r \in [1 .. n - 1 -> A]
          /\ \A i \in 1 .. n - 1 : old(i) \in 1 .. n /\ old(i) # m /\ r[i] = s[old(i)]
      BY <2>4
    <2>6. \A i \in 1 .. n : s[i] \in A /\ s[i] \in Timers /\ (s[i] = t <=> i = m)
      BY <1>2, <2>4 DEF Linked
    <2>7. \A i \in 1 .. n - 1 : r[i] # t /\ r[i] \in Timers
      BY <2>5, <2>6
    <2>8. /\ l.prev[t] = IF m = 1 THEN NoTimer ELSE s[m - 1]
          /\ l.next[t] = IF m = n THEN NoTimer ELSE s[m + 1]
      BY <1>2, <2>4 DEF Linked
    <2> HIDE DEF r
    <2>9. \A i, j \in 1 .. n - 1 : r[i] = r[j] => i = j
      <3> SUFFICES ASSUME NEW i \in 1 .. n - 1, NEW j \in 1 .. n - 1, r[i] = r[j] PROVE i = j
        OBVIOUS
      <3>1. old(i) = old(j)
        BY <1>2, <2>5 DEF Linked
      <3> QED
        BY <2>4, <3>1
    <2>10. ASSUME NEW u \in A PROVE k.enabled[u] <=> \E i \in 1 .. n - 1 : r[i] = u
      <3>1. CASE u = t
        BY <1>1, <2>2, <2>7, <3>1
      <3>2. CASE u # t
        <4>1. k.enabled[u] <=> l.enabled[u]
          BY <1>1, <2>2, <3>2
        <4>2. ASSUME NEW i \in 1 .. n, s[i] = u PROVE \E j \in 1 .. n - 1 : r[j] = u
          <5>1. i # m
            BY <2>6, <3>2, <4>2
          <5>2. CASE i < m
            <6>1. i \in 1 .. n - 1 /\ r[i] = u
              BY <2>4, <2>5, <4>2, <5>2
            <6> QED
              BY <6>1
          <5>3. CASE i > m
            <6>1. i - 1 \in 1 .. n - 1 /\ r[i - 1] = u
              BY <2>4, <2>5, <4>2, <5>3
            <6> QED
              BY <6>1
          <5> QED
            BY <2>4, <5>1, <5>2, <5>3
        <4>3. ASSUME NEW j \in 1 .. n - 1, r[j] = u PROVE \E i \in 1 .. n : s[i] = u
          BY <2>5, <4>3
        <4> QED
          BY <1>2, <4>1, <4>2, <4>3 DEF Linked
      <3> QED
        BY <3>1, <3>2
    <2>11. k.head = IF n - 1 = 0 THEN NoTimer ELSE r[1]
      <3>1. CASE m = 1
        <4>1. k.head = IF n = 1 THEN NoTimer ELSE s[2]
          BY <2>2, <2>8, <3>1
        <4> QED
          BY <2>5, <3>1, <4>1
      <3>2. CASE m # 1
        <4>1. s[m - 1] \in Timers /\ n # 1 /\ n # 0
          BY <2>4, <2>6, <3>2
        <4>2. k.head = s[1]
          BY <1>1, <1>2, <2>2, <2>8, <3>2, <4>1 DEF Linked
        <4> QED
          BY <2>4, <2>5, <3>2, <4>1, <4>2
      <3> QED
        BY <3>1, <3>2
    <2>12. ASSUME NEW i \in 1 .. n - 1
           PROVE  k.next[r[i]] = IF i = n - 1 THEN NoTimer ELSE r[i + 1]
      <3>1. r[i] # t /\ r[i] \in Timers /\ r[i] = s[old(i)] /\ old(i) \in 1 .. n
        BY <2>5, <2>7
      <3>2. l.next[r[i]] = IF old(i) = n THEN NoTimer ELSE s[old(i) + 1]
        BY <1>2, <3>1 DEF Linked
      <3>3. CASE i = m - 1
        <4>1. r[i] = l.prev[t] /\ i < m /\ m # 1
          BY <2>4, <2>8, <3>1, <3>3
        <4>2. k.next[r[i]] = l.next[t]
          BY <2>2, <3>1, <4>1
        <4> QED
          BY <2>4, <2>5, <2>8, <3>3, <4>2
      <3>4. CASE i # m - 1
        <4>1. r[i] # l.prev[t]
          <5>1. CASE m = 1
            BY <1>1, <2>8, <3>1, <5>1
          <5>2. CASE m # 1
            <6>1. m - 1 \in 1 .. n /\ old(i) # m - 1
              BY <2>4, <3>4, <5>2
            <6> QED
              BY <1>2, <2>8, <3>1, <5>2, <6>1 DEF Linked
          <5> QED
            BY <5>1, <5>2
        <4>2. k.next[r[i]] = l.next[r[i]]
          BY <2>2, <3>1, <4>1
        <4>3. CASE i = n - 1
          <5>1. old(i) = n
            BY <2>4, <3>4, <4>3
          <5> QED
            BY <3>2, <4>2, <4>3, <5>1
        <4>4. CASE i # n - 1
          <5>1. old(i) # n /\ i + 1 \in 1 .. n - 1 /\ old(i + 1) = old(i) + 1
            BY <2>4, <3>4, <4>4
          <5> QED
            BY <2>5, <3>2, <4>2, <4>4, <5>1
        <4> QED
          BY <4>3, <4>4
      <3> QED
        BY <3>3, <3>4
    <2>13. ASSUME NEW i \in 1 .. n - 1
           PROVE  k.prev[r[i]] = IF i = 1 THEN NoTimer ELSE r[i - 1]
      <3>1. r[i] # t /\ r[i] \in Timers /\ r[i] = s[old(i)] /\ old(i) \in 1 .. n
        BY <2>5, <2>7
      <3>2. l.prev[r[i]] = IF old(i) = 1 THEN NoTimer ELSE s[old(i) - 1]
        BY <1>2, <3>1 DEF Linked
      <3>3. CASE i = m
        <4>1. r[i] = l.next[t] /\ m # n
          BY <2>4, <2>8, <3>1, <3>3
        <4>2. k.prev[r[i]] = l.prev[t]
          BY <2>2, <3>1, <4>1
        <4> QED
          BY <2>4, <2>5, <2>8, <3>3, <4>2
      <3>4. CASE i # m
        <4>1. r[i] # l.next[t]
          <5>1. CASE m = n
            BY <1>1, <2>8, <3>1, <5>1
          <5>2. CASE m # n
            <6>1. m + 1 \in 1 .. n /\ old(i) # m + 1
              BY <2>4, <3>4, <5>2
            <6> QED
              BY <1>2, <2>8, <3>1, <5>2, <6>1 DEF Linked
          <5> QED
            BY <5>1, <5>2
        <4>2. k.prev[r[i]] = l.prev[r[i]]
          BY <2>2, <3>1, <4>1
        <4>3. CASE i = 1
          <5>1. old(i) = 1
            BY <2>4, <3>4, <4>3
          <5> QED
            BY <3>2, <4>2, <4>3, <5>1
        <4>4. CASE i # 1
          <5>1. old(i) # 1 /\ i - 1 \in 1 .. n - 1 /\ old(i - 1) = old(i) - 1
            BY <2>4, <3>4, <4>4
          <5> QED
            BY <2>5, <3>2, <4>2, <4>4, <5>1
        <4> QED
          BY <4>3, <4>4
      <3> QED
        BY <3>3, <3>4
    <2>14. ASSUME NEW u \in A, ~k.enabled[u] PROVE k.next[u] = NoTimer /\ k.prev[u] = NoTimer
      <3>1. CASE u = t
        BY <1>1, <2>2, <3>1
      <3>2. CASE u # t
        <4>1. ~l.enabled[u] /\ u \in Timers
          BY <1>1, <2>2, <2>14, <3>2
        <4>2. u # l.prev[t] /\ u # l.next[t]
          <5>1. \A i \in 1 .. n : s[i] # u
            BY <1>2, <4>1 DEF Linked
          <5>2. (m # 1 => m - 1 \in 1 .. n) /\ (m # n => m + 1 \in 1 .. n)
            BY <2>4
          <5> QED
            BY <1>1, <2>8, <4>1, <5>1, <5>2
        <4> QED
          BY <1>2, <2>2, <4>1, <4>2 DEF Linked
      <3> QED
        BY <3>1, <3>2
    <2>15. Linked(k, A, n - 1, r)
      BY <2>9, <2>10, <2>11, <2>12, <2>13, <2>14 DEF Linked
    <2>16. InOrder(k, n - 1, r, {})
      <3> SUFFICES ASSUME NEW i \in 1 .. n - 1, NEW j \in 1 .. n - 1, i < j
                   PROVE  l.ts[r[i]] <= l.ts[r[j]]
        BY <2>2 DEF InOrder, SameTimes
      <3>1. old(i) < old(j)
        BY <2>4
      <3>2. old(i) \in 1 .. n /\ old(j) \in 1 .. n /\ s[old(i)] # t /\ s[old(j)] # t
        BY <2>5, <2>7
      <3> HIDE DEF old
      <3>3. l.ts[s[old(i)]] <= l.ts[s[old(j)]]
        BY <1>2, <3>1, <3>2 DEF InOrder
      <3> QED
        BY <2>5, <3>3
    <2>17. Listed(k, A, {})
      BY <2>5, <2>15, <2>16 DEF Listed
    <2>18. \A u \in Timers : k.inCallback[u] => l.inCallback[u]
      BY <1>1, <2>2
    <2> QED
      BY <2>2, <2>3, <2>17, <2>18 DEF k
  <1> QED
    BY <1>3, <1>4

Listing(n, s) ==
    [i \in 1 .. Cardinality(Timers) + 1 |-> IF i <= n THEN s[i] ELSE NoTimer]

\* Chain lists s, and then NoTimer.
LEMMA ChainIs ==
    ASSUME NEW A, A \subseteq Timers, NEW l \in List, NEW n \in Nat, NEW s \in [1 .. n -> A],
           Linked(l, A, n, s)
    PROVE  /\ n <= Cardinality(Timers) /\ Cardinality(Timers) \in Nat
           /\ Chain(l) = Listing(n, s)
  <1> DEFINE N == Cardinality(Timers)
             node == CHOOSE f : f = [i \in 1 .. N + 1 |->
                       IF i = 1 THEN l.head
                       ELSE IF f[i - 1] = NoTimer THEN NoTimer ELSE l.next[f[i - 1]]]
             c == [i \in 1 .. N + 1 |-> IF i <= n THEN s[i] ELSE NoTimer]
  <1>1. N \in Nat /\ IsFiniteSet(Timers) /\ NoTimer \notin Timers
    BY TimerAssumption, FS_CardinalityType
  <1>2. n <= N
    <2>1. s \in [1 .. n -> Timers] /\ \A i, j \in 1 .. n : s[i] = s[j] => i = j
      BY DEF Linked
    <2>2. s \in Injection(1 .. n, Timers)
      BY <2>1, Fun_IsInj
    <2>3. Cardinality(1 .. n) = n
      BY FS_Interval
    <2>4. Cardinality(1 .. n) <= Cardinality(Timers)
      BY <1>1, <2>2, FS_Injection DEF ExistsInjection
    <2> QED
      BY <2>3, <2>4
  <1>3. c = [i \in 1 .. N + 1 |->
               IF i = 1 THEN l.head
               ELSE IF c[i - 1] = NoTimer THEN NoTimer ELSE l.next[c[i - 1]]]
    <2> SUFFICES ASSUME NEW i \in 1 .. N + 1
                 PROVE  c[i] = IF i = 1 THEN l.head
                               ELSE IF c[i - 1] = NoTimer THEN NoTimer ELSE l.next[c[i - 1]]
      OBVIOUS
    <2>1. CASE i = 1
      BY <1>1, <2>1 DEF Linked
    <2>2. CASE i # 1 /\ i - 1 <= n
      <3>1. i - 1 \in 1 .. n /\ i - 1 \in 1 .. N + 1
        BY <1>1, <2>2
      <3>2. c[i - 1] = s[i - 1] /\ s[i - 1] \in Timers
        BY <3>1
      <3>3. l.next[s[i - 1]] = IF i - 1 = n THEN NoTimer ELSE s[i]
        BY <3>1 DEF Linked
      <3> QED
        BY <1>1, <2>2, <3>1, <3>2, <3>3
    <2>3. CASE i # 1 /\ ~(i - 1 <= n)
      BY <1>1, <2>3
    <2> QED
      BY <2>1, <2>2, <2>3
  <1>4. node = [i \in 1 .. N + 1 |->
               IF i = 1 THEN l.head
               ELSE IF node[i - 1] = NoTimer THEN NoTimer ELSE l.next[node[i - 1]]]
    BY <1>3
  <1>5. Chain(l) = node
    BY DEF Chain
  <1> HIDE DEF node, c, N
  <1> DEFINE B == {i \in 0 .. N : node[i + 1] = c[i + 1]}
  <1>6. 0 \in B
    <2>1. 1 \in 1 .. N + 1 /\ 0 \in 0 .. N /\ 0 + 1 = 1
      BY <1>1
    <2>2. node[1] = l.head
      BY <1>4, <2>1
    <2>3. c[1] = l.head
      BY <1>3, <2>1
    <2> QED
      BY <2>1, <2>2, <2>3
  <1>7. ASSUME NEW i \in 0 .. N - 1, i \in B PROVE i + 1 \in B
    <2>1. PICK j \in 1 .. N + 1 : j = i + 1 + 1
      BY <1>1, <1>7
    <2>2. j # 1 /\ j - 1 = i + 1 /\ i + 1 \in 0 .. N
      BY <1>1, <1>7, <2>1
    <2>3. node[j] = IF node[j - 1] = NoTimer THEN NoTimer ELSE l.next[node[j - 1]]
      BY <1>4, <2>2
    <2>4. c[j] = IF c[j - 1] = NoTimer THEN NoTimer ELSE l.next[c[j - 1]]
      BY <1>3, <2>2
    <2> QED
      BY <1>7, <2>1, <2>2, <2>3, <2>4
  <1> HIDE DEF B
  <1>8. 0 .. N \subseteq B
    BY <1>1, <1>6, <1>7, IntervalInduction
  <1>9. \A i \in 1 .. N + 1 : node[i] = c[i]
    <2> SUFFICES ASSUME NEW i \in 1 .. N + 1 PROVE node[i] = c[i]
      OBVIOUS
    <2>1. i - 1 \in 0 .. N /\ i - 1 + 1 = i
      BY <1>1
    <2>2. i - 1 \in B
      BY <1>8, <2>1
    <2> QED
      BY <2>1, <2>2 DEF B
  <1>10. node = c
    BY <1>3, <1>4, <1>9
  <1> QED
    BY <1>1, <1>2, <1>5, <1>10 DEF c, N, Listing

LEMMA Least ==
    ASSUME NEW n \in Nat, NEW S, S \subseteq 1 .. n, S # {}
    PROVE  \E m \in S : \A j \in 1 .. m - 1 : j \notin S
  <1>1. PICK m \in S : \A j \in S : ~(<<j, m>> \in OpToRel(<, Nat))
    <2>1. S \subseteq Nat
      OBVIOUS
    <2> QED
      BY <2>1, NatLessThanWellFounded, WFMin
  <1>2. ASSUME NEW j \in 1 .. m - 1, j \in S PROVE FALSE
    <2>1. j \in Nat /\ m \in Nat /\ j < m
      <3>1. m \in 1 .. n
        OBVIOUS
      <3> QED
        BY <3>1
    <2>2. <<j, m>> \in Nat \X Nat /\ <<j, m>>[1] = j /\ <<j, m>>[2] = m
      BY <2>1
    <2>3. <<j, m>> \in OpToRel(<, Nat)
      BY <2>1, <2>2 DEF OpToRel
    <2> QED
      BY <1>1, <1>2, <2>3
  <1> QED
    BY <1>1, <1>2

\* timer_enable stops at the first timer that is not sooner, or at the last.
LEMMA WalkEndIs ==
    ASSUME NEW A, A \subseteq Timers, NEW l \in List, NEW n \in Nat, NEW s \in [1 .. n -> A],
           Linked(l, A, n, s), n # 0, NEW t \in Timers
    PROVE  \E m \in 1 .. n :
             /\ WalkEnd(l, t) = s[m]
             /\ l.ts[t] <= l.ts[s[m]] \/ m = n
             /\ \A j \in 1 .. m - 1 : ~(l.ts[t] <= l.ts[s[j]])
  <1> DEFINE c == Chain(l)
             P(i) == /\ c[i] # NoTimer /\ Stop(l, t, c[i])
                     /\ \A j \in 1 .. i - 1 : ~Stop(l, t, c[j])
             e == CHOOSE i \in DOMAIN c : P(i)
             S == {i \in 1 .. n : Stop(l, t, s[i])}
  <1>1. /\ NoTimer \notin Timers /\ n <= Cardinality(Timers) /\ Cardinality(Timers) \in Nat
        /\ c = [i \in 1 .. Cardinality(Timers) + 1 |-> IF i <= n THEN s[i] ELSE NoTimer]
    <2>1. NoTimer \notin Timers
      BY TimerAssumption
    <2>2. /\ n <= Cardinality(Timers) /\ Cardinality(Timers) \in Nat
          /\ Chain(l) = Listing(n, s)
      BY ChainIs
    <2> QED
      BY <2>1, <2>2 DEF Listing
  <1> HIDE DEF c
  <1>2. /\ \A i \in 1 .. n : i \in DOMAIN c /\ c[i] = s[i] /\ s[i] # NoTimer
        /\ \A i \in DOMAIN c : c[i] # NoTimer => i \in 1 .. n
    BY <1>1
  <1>3. n \in S
    <2>1. n \in 1 .. n /\ l.next[s[n]] = NoTimer
      BY DEF Linked
    <2> QED
      BY <2>1 DEF Stop
  <1>4. PICK m \in S : \A j \in 1 .. m - 1 : j \notin S
    <2>1. S \subseteq 1 .. n /\ S # {}
      BY <1>3
    <2> HIDE DEF S
    <2> QED
      BY <2>1, Least
  <1>5. m \in DOMAIN c /\ P(m)
    <2>1. \A j \in 1 .. m - 1 : j \in 1 .. n
      BY <1>4
    <2> QED
      BY <1>2, <1>4, <2>1
  <1>6. e \in DOMAIN c /\ P(e)
    BY <1>5
  <1>7. WalkEnd(l, t) = c[e]
    BY DEF WalkEnd, c
  <1> HIDE DEF e
  <1>8. e \in 1 .. n /\ c[e] = s[e] /\ \A j \in 1 .. e - 1 : j \in 1 .. n /\ c[j] = s[j]
    BY <1>2, <1>6
  <1>9. l.ts[t] <= l.ts[s[e]] \/ e = n
    <2>1. l.next[s[e]] = IF e = n THEN NoTimer ELSE s[e + 1]
      BY <1>8 DEF Linked
    <2>2. e # n => e + 1 \in 1 .. n
      BY <1>8
    <2> QED
      BY <1>2, <1>6, <1>8, <2>1, <2>2 DEF Stop
  <1>10. \A j \in 1 .. e - 1 : ~(l.ts[t] <= l.ts[s[j]])
    BY <1>6, <1>8 DEF Stop
  <1> QED
    BY <1>7, <1>8, <1>9, <1>10

\* t becomes the m-th of the list.
LEMMA InsertIs ==
    ASSUME NEW A, A \subseteq Timers, NEW l \in List, NEW n \in Nat, NEW s \in [1 .. n -> A],
           Linked(l, A, n, s), InOrder(l, n, s, {}), NEW t \in A, ~l.enabled[t],
           NEW k \in List, NEW m \in 1 .. n + 1,
           k.enabled = [l.enabled EXCEPT ![t] = TRUE], k.ts = l.ts,
           k.head = IF m = 1 THEN t ELSE l.head,
           k.next = [v \in Timers |-> IF v = t THEN IF m = n + 1 THEN NoTimer ELSE s[m]
                                      ELSE IF m # 1 /\ v = s[m - 1] THEN t ELSE l.next[v]],
           k.prev = [v \in Timers |-> IF v = t THEN IF m = 1 THEN NoTimer ELSE s[m - 1]
                                      ELSE IF m # n + 1 /\ v = s[m] THEN t ELSE l.prev[v]],
           \A j \in 1 .. m - 1 : l.ts[s[j]] <= l.ts[t],
           \A j \in m .. n : l.ts[t] <= l.ts[s[j]]
    PROVE  Listed(k, A, {})
  <1> DEFINE r == [j \in 1 .. n + 1 |-> IF j < m THEN s[j] ELSE IF j = m THEN t ELSE s[j - 1]]
             old(i) == IF i < m THEN i ELSE i - 1
  <1>1. /\ l.enabled \in [Timers -> BOOLEAN] /\ t \in Timers /\ NoTimer \notin Timers
        /\ l.ts \in [Timers -> Int]
    BY TimerAssumption DEF List
  <1>2. /\ n + 1 \in Nat /\ r \in [1 .. n + 1 -> A] /\ r[m] = t
        /\ \A i \in 1 .. n + 1 : i # m => old(i) \in 1 .. n /\ r[i] = s[old(i)]
    OBVIOUS
  <1>3. \A i \in 1 .. n : s[i] # t /\ s[i] \in A /\ s[i] \in Timers
    BY DEF Linked
  <1>4. \A i, j \in 1 .. n : s[i] = s[j] => i = j
    BY DEF Linked
  <1> HIDE DEF r
  <1>5. \A i, j \in 1 .. n + 1 : r[i] = r[j] => i = j
    <2> SUFFICES ASSUME NEW i \in 1 .. n + 1, NEW j \in 1 .. n + 1, r[i] = r[j] PROVE i = j
      OBVIOUS
    <2>1. \A h \in 1 .. n + 1 : h # m => r[h] # t
      BY <1>2, <1>3
    <2>2. CASE i = m \/ j = m
      BY <1>2, <2>1, <2>2
    <2>3. CASE i # m /\ j # m
      <3>1. old(i) = old(j)
        BY <1>2, <1>4, <2>3
      <3> QED
        BY <2>3, <3>1
    <2> QED
      BY <2>2, <2>3
  <1>6. ASSUME NEW u \in A PROVE k.enabled[u] <=> \E i \in 1 .. n + 1 : r[i] = u
    <2>1. CASE u = t
      <3>1. k.enabled[u] /\ r[m] = u
        BY <1>1, <1>2, <2>1
      <3> QED
        BY <3>1
    <2>2. CASE u # t
      <3>1. k.enabled[u] <=> \E i \in 1 .. n : s[i] = u
        BY <1>1, <2>2 DEF Linked
      <3>2. ASSUME NEW i \in 1 .. n, s[i] = u PROVE \E j \in 1 .. n + 1 : r[j] = u
        <4>1. CASE i < m
          <5>1. i \in 1 .. n + 1 /\ r[i] = u
            BY <1>2, <3>2, <4>1
          <5> QED
            BY <5>1
        <4>2. CASE ~(i < m)
          <5>1. i + 1 \in 1 .. n + 1 /\ i + 1 # m /\ old(i + 1) = i
            BY <4>2
          <5>2. r[i + 1] = u
            BY <1>2, <3>2, <5>1
          <5> QED
            BY <5>1, <5>2
        <4> QED
          BY <4>1, <4>2
      <3>3. ASSUME NEW j \in 1 .. n + 1, r[j] = u PROVE \E i \in 1 .. n : s[i] = u
        BY <1>2, <2>2, <3>3
      <3> QED
        BY <3>1, <3>2, <3>3
    <2> QED
      BY <2>1, <2>2
  <1>7. k.head = IF n + 1 = 0 THEN NoTimer ELSE r[1]
    <2>1. CASE m = 1
      BY <1>2, <2>1
    <2>2. CASE m # 1
      <3>1. n # 0 /\ 1 \in 1 .. n + 1 /\ old(1) = 1
        BY <2>2
      <3> QED
        BY <1>2, <2>2, <3>1 DEF Linked
    <2> QED
      BY <2>1, <2>2
  <1>8. ASSUME NEW i \in 1 .. n + 1
        PROVE  k.next[r[i]] = IF i = n + 1 THEN NoTimer ELSE r[i + 1]
    <2>1. CASE i = m
      <3>1. k.next[r[i]] = IF m = n + 1 THEN NoTimer ELSE s[m]
        BY <1>1, <1>2, <2>1
      <3>2. m # n + 1 => m + 1 \in 1 .. n + 1 /\ m + 1 # m /\ old(m + 1) = m
        OBVIOUS
      <3> QED
        BY <1>2, <2>1, <3>1, <3>2
    <2>2. CASE i # m /\ i = m - 1
      <3>1. m # 1 /\ old(i) = m - 1 /\ r[i] = s[m - 1] /\ r[i] # t /\ r[i] \in Timers
            /\ i + 1 = m /\ i # n + 1
        BY <1>2, <1>3, <2>2
      <3> QED
        BY <1>2, <3>1
    <2>3. CASE i # m /\ i # m - 1
      <3>1. old(i) \in 1 .. n /\ r[i] = s[old(i)] /\ r[i] # t /\ r[i] \in Timers
        BY <1>2, <1>3, <2>3
      <3>2. m # 1 => r[i] # s[m - 1]
        <4>1. m # 1 => m - 1 \in 1 .. n /\ old(i) # m - 1
          BY <2>3
        <4> QED
          BY <1>4, <3>1, <4>1
      <3>3. k.next[r[i]] = l.next[s[old(i)]]
        BY <3>1, <3>2
      <3>4. l.next[s[old(i)]] = IF old(i) = n THEN NoTimer ELSE s[old(i) + 1]
        BY <3>1 DEF Linked
      <3>5. CASE i = n + 1
        <4>1. old(i) = n
          BY <2>3, <3>5
        <4> QED
          BY <3>3, <3>4, <3>5, <4>1
      <3>6. CASE i # n + 1
        <4>1. old(i) # n /\ i + 1 \in 1 .. n + 1 /\ i + 1 # m /\ old(i + 1) = old(i) + 1
          BY <2>3, <3>6
        <4> QED
          BY <1>2, <3>3, <3>4, <3>6, <4>1
      <3> QED
        BY <3>5, <3>6
    <2> QED
      BY <2>1, <2>2, <2>3
  <1>9. ASSUME NEW i \in 1 .. n + 1
        PROVE  k.prev[r[i]] = IF i = 1 THEN NoTimer ELSE r[i - 1]
    <2>1. CASE i = m
      <3>1. k.prev[r[i]] = IF m = 1 THEN NoTimer ELSE s[m - 1]
        BY <1>1, <1>2, <2>1
      <3>2. m # 1 => m - 1 \in 1 .. n + 1 /\ m - 1 # m /\ old(m - 1) = m - 1
        OBVIOUS
      <3> QED
        BY <1>2, <2>1, <3>1, <3>2
    <2>2. CASE i # m /\ i = m + 1
      <3>1. m # n + 1 /\ old(i) = m /\ r[i] = s[m] /\ r[i] # t /\ r[i] \in Timers
            /\ i - 1 = m /\ i # 1
        BY <1>2, <1>3, <2>2
      <3> QED
        BY <1>2, <3>1
    <2>3. CASE i # m /\ i # m + 1
      <3>1. old(i) \in 1 .. n /\ r[i] = s[old(i)] /\ r[i] # t /\ r[i] \in Timers
        BY <1>2, <1>3, <2>3
      <3>2. m # n + 1 => r[i] # s[m]
        <4>1. m # n + 1 => m \in 1 .. n /\ old(i) # m
          BY <2>3
        <4> QED
          BY <1>4, <3>1, <4>1
      <3>3. k.prev[r[i]] = l.prev[s[old(i)]]
        BY <3>1, <3>2
      <3>4. l.prev[s[old(i)]] = IF old(i) = 1 THEN NoTimer ELSE s[old(i) - 1]
        BY <3>1 DEF Linked
      <3>5. CASE i = 1
        <4>1. old(i) = 1
          BY <2>3, <3>5
        <4> QED
          BY <3>3, <3>4, <3>5, <4>1
      <3>6. CASE i # 1
        <4>1. old(i) # 1 /\ i - 1 \in 1 .. n + 1 /\ i - 1 # m /\ old(i - 1) = old(i) - 1
          BY <2>3, <3>6
        <4> QED
          BY <1>2, <3>3, <3>4, <3>6, <4>1
      <3> QED
        BY <3>5, <3>6
    <2> QED
      BY <2>1, <2>2, <2>3
  <1>10. ASSUME NEW u \in A, ~k.enabled[u] PROVE k.next[u] = NoTimer /\ k.prev[u] = NoTimer
    <2>1. u # t /\ ~l.enabled[u] /\ u \in Timers
      BY <1>1, <1>10
    <2>2. (m # 1 => m - 1 \in 1 .. n) /\ (m # n + 1 => m \in 1 .. n)
      OBVIOUS
    <2>3. \A i \in 1 .. n : s[i] # u
      BY <2>1 DEF Linked
    <2>4. k.next[u] = l.next[u] /\ k.prev[u] = l.prev[u]
      BY <2>1, <2>2, <2>3
    <2> QED
      BY <2>1, <2>4 DEF Linked
  <1>11. Linked(k, A, n + 1, r)
    BY <1>5, <1>6, <1>7, <1>8, <1>9, <1>10 DEF Linked
  <1>12. InOrder(k, n + 1, r, {})
    <2> SUFFICES ASSUME NEW i \in 1 .. n + 1, NEW j \in 1 .. n + 1, i < j
                 PROVE  l.ts[r[i]] <= l.ts[r[j]]
      BY DEF InOrder
    <2>1. CASE i = m
      <3>1. j # m /\ old(j) \in m .. n /\ r[j] = s[old(j)]
        BY <1>2, <2>1
      <3> QED
        BY <1>2, <2>1, <3>1
    <2>2. CASE j = m
      <3>1. i # m /\ old(i) \in 1 .. m - 1 /\ r[i] = s[old(i)]
        BY <1>2, <2>2
      <3> QED
        BY <1>2, <2>2, <3>1
    <2>3. CASE i # m /\ j # m
      <3>1. old(i) < old(j) /\ old(i) \in 1 .. n /\ old(j) \in 1 .. n
            /\ r[i] = s[old(i)] /\ r[j] = s[old(j)]
        BY <1>2, <2>3
      <3> HIDE DEF old
      <3> QED
        BY <3>1 DEF InOrder
    <2> QED
      BY <2>1, <2>2, <2>3
  <1> QED
    BY <1>2, <1>11, <1>12 DEF Listed

LEMMA ExceptIs ==
    ASSUME NEW S, NEW T, NEW f \in [S -> T], NEW x, NEW y
    PROVE  [f EXCEPT ![x] = y] = [v \in S |-> IF v = x THEN y ELSE f[v]]
  OBVIOUS

LEMMA RelinkedIs ==
    ASSUME NEW l \in List, NEW e \in [Timers -> BOOLEAN], NEW h \in Link,
           NEW x \in [Timers -> Link], NEW p \in [Timers -> Link], NEW g \in Int
    PROVE  [l EXCEPT !.enabled = e, !.head = h, !.next = x, !.prev = p, !.target = g] \in List
  BY DEF List

\* timer_enable links a timer in its place, from wherever it was, and the target
\* is no later than before or than the new head.
Soonest(l, A, X) == \A u \in A \ X : l.enabled[u] => l.target <= l.ts[u]

LEMMA EnableIs ==
    ASSUME NEW A, A \subseteq Timers, NEW l \in List, l.inited, NEW t \in A, Listed(l, A, {t})
    PROVE  /\ Enable(l, t) \in List /\ SameTimes(l, Enable(l, t))
           /\ Enable(l, t).enabled = [l.enabled EXCEPT ![t] = TRUE]
           /\ \A u \in Timers : Enable(l, t).inCallback[u] => l.inCallback[u]
           /\ Listed(Enable(l, t), A, {})
           /\ Soonest(l, A, {t}) => Soonest(Enable(l, t), A, {})
  <1> DEFINE off == Disable(l, t)
             on == [off EXCEPT !.enabled[t] = TRUE]
             u == WalkEnd(off, t)
             k == Enable(l, t)
  <1>1. k = IF off.head = NoTimer
            THEN [on EXCEPT !.head = t, !.next[t] = NoTimer, !.prev[t] = NoTimer,
                            !.target = off.ts[t]]
            ELSE IF off.ts[t] <= off.ts[u] THEN InsertBefore(on, t, u)
            ELSE InsertAfter(on, t, u)
    <2>1. off = IF l.enabled[t] THEN Disable(l, t) ELSE l
      BY DEF Disable
    <2> HIDE DEF off
    <2> QED
      BY <2>1, Zenon DEF Enable
  <1>2. /\ off \in List /\ SameTimes(l, off) /\ off.target = l.target
        /\ off.enabled = [l.enabled EXCEPT ![t] = FALSE]
        /\ \A v \in Timers : off.inCallback[v] => l.inCallback[v]
        /\ Listed(off, A, {})
    BY DisableIs
  <1> HIDE DEF off, k
  <1>3. /\ off.enabled \in [Timers -> BOOLEAN] /\ l.enabled \in [Timers -> BOOLEAN]
        /\ off.next \in [Timers -> Link] /\ off.prev \in [Timers -> Link] /\ off.head \in Link
        /\ off.ts \in [Timers -> Int] /\ off.target \in Int
        /\ t \in Timers /\ NoTimer \notin Timers /\ ~off.enabled[t] /\ t \in Link /\ NoTimer \in Link
    BY <1>2, TimerAssumption DEF List, Link
  <1>n. PICK n \in Nat :
          \E s \in [1 .. n -> A] : Linked(off, A, n, s) /\ InOrder(off, n, s, {})
    BY <1>2 DEF Listed
  <1>4. PICK s \in [1 .. n -> A] : Linked(off, A, n, s) /\ InOrder(off, n, s, {})
    BY <1>n
  <1>5. /\ off.next[t] = NoTimer /\ off.prev[t] = NoTimer
        /\ off.head = IF n = 0 THEN NoTimer ELSE s[1]
        /\ \A i \in 1 .. n : s[i] \in Timers /\ s[i] # t /\ s[i] # NoTimer
        /\ \A i \in 1 .. n : off.prev[s[i]] = IF i = 1 THEN NoTimer ELSE s[i - 1]
    BY <1>3, <1>4 DEF Linked
  <1> DEFINE Placed(m) ==
               /\ k.enabled = [off.enabled EXCEPT ![t] = TRUE]
               /\ SameTimes(off, k)
               /\ k.inCallback = off.inCallback
               /\ k.target = IF m = 1 THEN off.ts[t] ELSE off.target
               /\ k.head = IF m = 1 THEN t ELSE off.head
               /\ k.next = [v \in Timers |-> IF v = t THEN IF m = n + 1 THEN NoTimer ELSE s[m]
                                             ELSE IF m # 1 /\ v = s[m - 1] THEN t ELSE off.next[v]]
               /\ k.prev = [v \in Timers |-> IF v = t THEN IF m = 1 THEN NoTimer ELSE s[m - 1]
                                             ELSE IF m # n + 1 /\ v = s[m] THEN t ELSE off.prev[v]]
               /\ k = [off EXCEPT !.enabled = k.enabled, !.head = k.head, !.next = k.next,
                                  !.prev = k.prev, !.target = k.target]
               /\ \A j \in 1 .. m - 1 : off.ts[s[j]] <= off.ts[t]
               /\ \A j \in m .. n : off.ts[t] <= off.ts[s[j]]
  <1>6. ASSUME NEW m \in 1 .. n + 1, Placed(m)
        PROVE  /\ k \in List /\ SameTimes(l, k)
               /\ k.enabled = [l.enabled EXCEPT ![t] = TRUE]
               /\ \A v \in Timers : k.inCallback[v] => l.inCallback[v]
               /\ Listed(k, A, {})
               /\ Soonest(l, A, {t}) => Soonest(k, A, {})
    <2>1. /\ k.enabled \in [Timers -> BOOLEAN] /\ k.head \in Link /\ k.target \in Int
      BY <1>3, <1>6
    <2>2. k.next \in [Timers -> Link]
      <3>1. m # n + 1 => s[m] \in Link
        BY <1>5 DEF Link
      <3> QED
        BY <1>3, <1>6, <3>1
    <2>3. k.prev \in [Timers -> Link]
      <3>1. m # 1 => s[m - 1] \in Link
        BY <1>5 DEF Link
      <3> QED
        BY <1>3, <1>6, <3>1
    <2>4. k \in List
      <3>1. [off EXCEPT !.enabled = k.enabled, !.head = k.head, !.next = k.next,
                        !.prev = k.prev, !.target = k.target] \in List
        BY <1>2, <2>1, <2>2, <2>3, RelinkedIs
      <3> QED
        BY <1>6, <3>1
    <2>5. Listed(k, A, {})
      BY <1>2, <1>3, <1>4, <1>6, <2>4, InsertIs DEF SameTimes
    <2>6. ASSUME Soonest(l, A, {t}) PROVE Soonest(k, A, {})
      <3> SUFFICES ASSUME NEW v \in A, k.enabled[v] PROVE k.target <= k.ts[v]
        BY DEF Soonest
      <3>1. k.ts = off.ts /\ l.ts = off.ts /\ v \in Timers
        BY <1>2, <1>6 DEF SameTimes
      <3>2. v = t \/ (v # t /\ off.enabled[v] /\ l.enabled[v])
        BY <1>2, <1>3, <1>6, <3>1
      <3>3. ASSUME v # t PROVE \E i \in 1 .. n : s[i] = v
        BY <1>4, <3>2, <3>3 DEF Linked
      <3>4. CASE m = 1
        <4>1. \A j \in 1 .. n : off.ts[t] <= off.ts[s[j]]
          BY <1>6, <3>4
        <4> QED
          BY <1>3, <1>6, <3>1, <3>3, <3>4, <4>1
      <3>5. CASE m # 1
        <4>1. k.target = l.target
          BY <1>2, <1>6, <3>5
        <4>2. ASSUME v # t PROVE l.target <= l.ts[v]
          BY <2>6, <3>2, <4>2 DEF Soonest
        <4>3. ASSUME v = t PROVE l.target <= l.ts[v]
          <5>1. 1 \in 1 .. n /\ 1 \in 1 .. m - 1
            BY <3>5
          <5>2. s[1] \in A \ {t} /\ l.enabled[s[1]] /\ off.ts[s[1]] <= off.ts[t]
            <6>1. s[1] \in A /\ s[1] # t /\ off.enabled[s[1]]
              BY <1>4, <1>5, <5>1 DEF Linked
            <6> QED
              BY <1>2, <1>3, <1>5, <1>6, <5>1, <6>1
          <5>3. l.target <= off.ts[s[1]]
            BY <2>6, <3>1, <5>2 DEF Soonest
          <5> QED
            BY <1>2, <1>3, <1>5, <3>1, <4>3, <5>1, <5>2, <5>3
        <4> QED
          BY <3>1, <4>1, <4>2, <4>3
      <3> QED
        BY <3>4, <3>5
    <2>7. SameTimes(l, k) /\ \A v \in Timers : k.inCallback[v] => l.inCallback[v]
      BY <1>2, <1>6 DEF SameTimes
    <2>8. k.enabled = [l.enabled EXCEPT ![t] = TRUE]
      BY <1>2, <1>3, <1>6
    <2> QED
      BY <2>4, <2>5, <2>6, <2>7, <2>8
  <1>7. /\ on \in List /\ SameTimes(off, on) /\ on.target = off.target /\ on.head = off.head
        /\ on.next = off.next /\ on.prev = off.prev /\ on.inCallback = off.inCallback
        /\ on.enabled = [off.enabled EXCEPT ![t] = TRUE]
        /\ on = [off EXCEPT !.enabled = on.enabled]
    BY <1>2, <1>3 DEF List, SameTimes
  <1> HIDE DEF on
  <1>8. CASE n = 0
    <2>1. k = [on EXCEPT !.head = t, !.next[t] = NoTimer, !.prev[t] = NoTimer,
                         !.target = off.ts[t]]
      BY <1>1, <1>5, <1>8
    <2>2. 1 \in 1 .. n + 1 /\ 1 = n + 1
      BY <1>8
    <2>3. /\ k.enabled = on.enabled /\ SameTimes(on, k) /\ k.inCallback = on.inCallback
          /\ k.target = off.ts[t] /\ k.head = t
          /\ k.next = [on.next EXCEPT ![t] = NoTimer] /\ k.prev = [on.prev EXCEPT ![t] = NoTimer]
          /\ k = [on EXCEPT !.head = k.head, !.next = k.next, !.prev = k.prev, !.target = k.target]
      BY <1>7, <2>1 DEF List, SameTimes
    <2>4. k = [off EXCEPT !.enabled = k.enabled, !.head = k.head, !.next = k.next,
                          !.prev = k.prev, !.target = k.target]
      BY <1>2, <1>7, <2>3 DEF List
    <2>5. /\ k.next = [v \in Timers |-> IF v = t THEN NoTimer ELSE off.next[v]]
          /\ k.prev = [v \in Timers |-> IF v = t THEN NoTimer ELSE off.prev[v]]
      <3>1. [off.next EXCEPT ![t] = NoTimer] = [v \in Timers |-> IF v = t THEN NoTimer ELSE off.next[v]]
        BY <1>3, ExceptIs
      <3>2. [off.prev EXCEPT ![t] = NoTimer] = [v \in Timers |-> IF v = t THEN NoTimer ELSE off.prev[v]]
        BY <1>3, ExceptIs
      <3> QED
        BY <1>7, <2>3, <3>1, <3>2
    <2>6. SameTimes(off, k)
      BY <1>7, <2>3 DEF SameTimes
    <2>7. Placed(1)
      BY <1>7, <1>8, <2>2, <2>3, <2>4, <2>5, <2>6
    <2> HIDE DEF Placed
    <2> QED
      BY <1>6, <2>2, <2>7 DEF k
  <1>9. CASE n # 0
    <2>1. PICK m \in 1 .. n :
            /\ u = s[m]
            /\ off.ts[t] <= off.ts[s[m]] \/ m = n
            /\ \A j \in 1 .. m - 1 : ~(off.ts[t] <= off.ts[s[j]])
      BY <1>2, <1>3, <1>4, <1>9, WalkEndIs
    <2> HIDE DEF u
    <2>2. off.head # NoTimer
      BY <1>5, <1>9
    <2>3. \A j \in 1 .. n : off.ts[s[j]] \in Int /\ off.ts[t] \in Int
      BY <1>3, <1>5
    <2>4. \A j \in 1 .. m - 1 : off.ts[s[j]] <= off.ts[t]
      <3>1. \A j \in 1 .. m - 1 : j \in 1 .. n
        OBVIOUS
      <3> QED
        BY <2>1, <2>3, <3>1
    <2>5. CASE off.ts[t] <= off.ts[u]
      <3>1. k = InsertBefore(on, t, u)
        BY <1>1, <2>2, <2>5
      <3>2. /\ k.enabled = on.enabled /\ SameTimes(on, k) /\ k.inCallback = on.inCallback
            /\ k.target = IF on.prev[u] = NoTimer THEN on.ts[t] ELSE on.target
            /\ k.head = IF on.prev[u] = NoTimer THEN t ELSE on.head
            /\ k.next = [v \in Timers |-> IF v = t THEN u
                                          ELSE IF v = on.prev[u] THEN t ELSE on.next[v]]
            /\ k.prev = [on.prev EXCEPT ![t] = on.prev[u], ![u] = t]
            /\ k = [on EXCEPT !.head = k.head, !.next = k.next, !.prev = k.prev, !.target = k.target]
        BY <1>7, <3>1, ZenonT(40) DEF InsertBefore, List, SameTimes
      <3>3. k = [off EXCEPT !.enabled = k.enabled, !.head = k.head, !.next = k.next,
                            !.prev = k.prev, !.target = k.target]
        BY <1>2, <1>7, <3>2 DEF List
      <3>4. on.prev[u] = IF m = 1 THEN NoTimer ELSE s[m - 1]
        BY <1>5, <1>7, <2>1
      <3>5. (m # 1 => s[m - 1] # NoTimer /\ m - 1 \in 1 .. n) /\ m # n + 1 /\ m \in 1 .. n + 1
        BY <1>5
      <3>6. /\ k.target = IF m = 1 THEN off.ts[t] ELSE off.target
            /\ k.head = IF m = 1 THEN t ELSE off.head
        BY <1>7, <3>2, <3>4, <3>5 DEF SameTimes
      <3>7. k.next = [v \in Timers |-> IF v = t THEN IF m = n + 1 THEN NoTimer ELSE s[m]
                                       ELSE IF m # 1 /\ v = s[m - 1] THEN t ELSE off.next[v]]
        BY <1>3, <1>7, <2>1, <3>2, <3>4, <3>5
      <3>8. k.prev = [v \in Timers |-> IF v = t THEN IF m = 1 THEN NoTimer ELSE s[m - 1]
                                       ELSE IF m # n + 1 /\ v = s[m] THEN t ELSE off.prev[v]]
        <4>1. k.prev = [v \in Timers |-> IF v = u THEN t ELSE IF v = t THEN on.prev[u] ELSE off.prev[v]]
          <5>1. on.prev[u] \in Link
            BY <1>3, <1>5, <1>7, <2>1
          <5>2. [off.prev EXCEPT ![t] = on.prev[u]] = [v \in Timers |-> IF v = t THEN on.prev[u] ELSE off.prev[v]]
            BY <1>3, ExceptIs
          <5>3. [off.prev EXCEPT ![t] = on.prev[u]] \in [Timers -> Link]
            BY <1>3, <5>1
          <5>4. k.prev = [[off.prev EXCEPT ![t] = on.prev[u]] EXCEPT ![u] = t]
            BY <1>7, <3>2
          <5>5. k.prev = [v \in Timers |-> IF v = u THEN t ELSE [off.prev EXCEPT ![t] = on.prev[u]][v]]
            BY <5>3, <5>4, ExceptIs
          <5> QED
            BY <5>2, <5>5
        <4>2. u # t /\ u = s[m]
          BY <1>5, <2>1
        <4> QED
          BY <3>4, <3>5, <4>1, <4>2
      <3>9. SameTimes(off, k) /\ k.enabled = [off.enabled EXCEPT ![t] = TRUE]
            /\ k.inCallback = off.inCallback
        BY <1>7, <3>2 DEF SameTimes
      <3>10. \A j \in m .. n : off.ts[t] <= off.ts[s[j]]
        <4> SUFFICES ASSUME NEW j \in m .. n PROVE off.ts[t] <= off.ts[s[j]]
          OBVIOUS
        <4>1. j \in 1 .. n /\ off.ts[t] <= off.ts[s[m]]
          BY <2>1, <2>5
        <4>2. m = j \/ off.ts[s[m]] <= off.ts[s[j]]
          BY <1>4, <4>1 DEF InOrder
        <4> QED
          BY <2>3, <4>1, <4>2
      <3>11. Placed(m)
        BY <2>4, <3>3, <3>6, <3>7, <3>8, <3>9, <3>10
      <3> HIDE DEF Placed
      <3> QED
        BY <1>6, <3>5, <3>11 DEF k
    <2>6. CASE ~(off.ts[t] <= off.ts[u])
      <3>1. k = InsertAfter(on, t, u) /\ u = s[n]
        BY <1>1, <2>1, <2>2, <2>6
      <3>2. /\ k.enabled = on.enabled /\ SameTimes(on, k) /\ k.inCallback = on.inCallback
            /\ k.target = on.target /\ k.head = on.head
            /\ k.next = [on.next EXCEPT ![u] = t] /\ k.prev = [on.prev EXCEPT ![t] = u]
            /\ k = [on EXCEPT !.head = k.head, !.next = k.next, !.prev = k.prev, !.target = k.target]
        BY <1>7, <3>1, ZenonT(40) DEF InsertAfter, List, SameTimes
      <3>3. k = [off EXCEPT !.enabled = k.enabled, !.head = k.head, !.next = k.next,
                            !.prev = k.prev, !.target = k.target]
        BY <1>2, <1>7, <3>2 DEF List
      <3> DEFINE p == n + 1
      <3>4. p \in 1 .. n + 1 /\ p = n + 1 /\ p # 1 /\ p - 1 = n /\ n \in 1 .. n
        BY <1>9
      <3> HIDE DEF p
      <3>5. k.next = [v \in Timers |-> IF v = t THEN IF p = n + 1 THEN NoTimer ELSE s[p]
                                       ELSE IF p # 1 /\ v = s[p - 1] THEN t ELSE off.next[v]]
        <4>1. k.next = [v \in Timers |-> IF v = u THEN t ELSE off.next[v]]
          <5>1. [off.next EXCEPT ![u] = t] = [v \in Timers |-> IF v = u THEN t ELSE off.next[v]]
            BY <1>3, ExceptIs
          <5> QED
            BY <1>7, <3>2, <5>1
        <4> QED
          BY <1>5, <3>1, <3>4, <4>1
      <3>6. k.prev = [v \in Timers |-> IF v = t THEN IF p = 1 THEN NoTimer ELSE s[p - 1]
                                       ELSE IF p # n + 1 /\ v = s[p] THEN t ELSE off.prev[v]]
        <4>1. k.prev = [v \in Timers |-> IF v = t THEN u ELSE off.prev[v]]
          <5>1. [off.prev EXCEPT ![t] = u] = [v \in Timers |-> IF v = t THEN u ELSE off.prev[v]]
            BY <1>3, ExceptIs
          <5> QED
            BY <1>7, <3>2, <5>1
        <4> QED
          BY <3>1, <3>4, <4>1
      <3>7. SameTimes(off, k) /\ k.enabled = [off.enabled EXCEPT ![t] = TRUE]
            /\ k.inCallback = off.inCallback
        BY <1>7, <3>2 DEF SameTimes
      <3>8. \A j \in 1 .. p - 1 : off.ts[s[j]] <= off.ts[t]
        <4> SUFFICES ASSUME NEW j \in 1 .. n PROVE off.ts[s[j]] <= off.ts[t]
          BY <3>4
        <4>1. off.ts[s[n]] <= off.ts[t]
          BY <2>3, <2>6, <3>1, <3>4
        <4>2. j = n \/ off.ts[s[j]] <= off.ts[s[n]]
          BY <1>4, <3>4 DEF InOrder
        <4> QED
          BY <2>3, <3>4, <4>1, <4>2
      <3>9. \A j \in p .. n : off.ts[t] <= off.ts[s[j]]
        BY <3>4
      <3>10. /\ k.target = IF p = 1 THEN off.ts[t] ELSE off.target
             /\ k.head = IF p = 1 THEN t ELSE off.head
        BY <1>7, <3>2, <3>4
      <3>11. Placed(p)
        BY <3>3, <3>5, <3>6, <3>7, <3>8, <3>9, <3>10
      <3> HIDE DEF Placed
      <3> QED
        BY <1>6, <3>4, <3>11 DEF k
    <2> QED
      BY <2>5, <2>6
  <1> QED
    BY <1>8, <1>9 DEF k

-----------------------------------------------------------------------------
(* The head, and what the other functions do to the list.                  *)

LEMMA ListedSame ==
    ASSUME NEW A, NEW X, NEW l, NEW k, Listed(l, A, X), k.enabled = l.enabled, k.head = l.head,
           k.next = l.next, k.prev = l.prev, k.ts = l.ts
    PROVE  Listed(k, A, X)
  <1>1. ASSUME NEW n, NEW s, Linked(l, A, n, s), InOrder(l, n, s, X)
        PROVE  Linked(k, A, n, s) /\ InOrder(k, n, s, X)
    BY <1>1 DEF Linked, InOrder
  <1> QED
    BY <1>1 DEF Listed

\* The head is the soonest, and alone if it has no next.
LEMMA HeadIs ==
    ASSUME NEW A, A \subseteq Timers, NEW l \in List, Listed(l, A, {})
    PROVE  /\ l.head = NoTimer => \A u \in A : ~l.enabled[u]
           /\ l.head # NoTimer =>
                /\ l.head \in A /\ l.enabled[l.head] /\ l.prev[l.head] = NoTimer
                /\ \A u \in A : l.enabled[u] => l.ts[l.head] <= l.ts[u]
                /\ l.next[l.head] = NoTimer => \A u \in A : l.enabled[u] => u = l.head
  <1>1. l.ts \in [Timers -> Int] /\ NoTimer \notin Timers
    BY TimerAssumption DEF List
  <1>n. PICK n \in Nat : \E s \in [1 .. n -> A] : Linked(l, A, n, s) /\ InOrder(l, n, s, {})
    BY DEF Listed
  <1>2. PICK s \in [1 .. n -> A] : Linked(l, A, n, s) /\ InOrder(l, n, s, {})
    BY <1>n
  <1>3. CASE n = 0
    BY <1>2, <1>3 DEF Linked
  <1>4. CASE n # 0
    <2>1. 1 \in 1 .. n /\ l.head = s[1] /\ s[1] \in A /\ s[1] \in Timers
      BY <1>2, <1>4 DEF Linked
    <2>2. l.enabled[l.head] /\ l.prev[l.head] = NoTimer
      BY <1>2, <2>1 DEF Linked
    <2>3. ASSUME NEW u \in A, l.enabled[u] PROVE l.ts[l.head] <= l.ts[u]
      <3>1. PICK i \in 1 .. n : s[i] = u
        BY <1>2, <2>3 DEF Linked
      <3>2. i = 1 \/ l.ts[s[1]] <= l.ts[s[i]]
        BY <1>2, <2>1 DEF InOrder
      <3> QED
        BY <1>1, <2>1, <3>1, <3>2
    <2>4. ASSUME l.next[l.head] = NoTimer, NEW u \in A, l.enabled[u] PROVE u = l.head
      <3>1. l.next[s[1]] = IF 1 = n THEN NoTimer ELSE s[2]
        BY <1>2, <2>1 DEF Linked
      <3>2. 1 # n => s[2] \in A
        BY <1>4
      <3>3. n = 1
        BY <1>1, <2>1, <2>4, <3>1, <3>2
      <3>4. PICK i \in 1 .. n : s[i] = u
        BY <1>2, <2>4 DEF Linked
      <3> QED
        BY <2>1, <3>3, <3>4
    <2> QED
      BY <1>1, <2>1, <2>2, <2>3, <2>4
  <1> QED
    BY <1>3, <1>4

\* timer_remove_head is timer_disable of the head, but for the callback's mark.
LEMMA RemoveHeadIs ==
    ASSUME NEW A, A \subseteq Timers, NEW l \in List, l.inited, Listed(l, A, {}),
           l.head # NoTimer, l.next[l.head] # NoTimer
    PROVE  /\ RemoveHead(l) \in List /\ SameTimes(l, RemoveHead(l))
           /\ RemoveHead(l).enabled = [l.enabled EXCEPT ![l.head] = FALSE]
           /\ RemoveHead(l).inCallback = l.inCallback
           /\ Listed(RemoveHead(l), A, {})
  <1> DEFINE t == l.head
             k == RemoveHead(l)
             d == Disable(l, t)
  <1>1. /\ t \in A /\ t \in Timers /\ l.enabled[t] /\ l.prev[t] = NoTimer
        /\ l.next \in [Timers -> Link] /\ l.prev \in [Timers -> Link] /\ NoTimer \notin Timers
        /\ l.next[t] \in Timers /\ l.inCallback \in [Timers -> BOOLEAN]
        /\ l.enabled \in [Timers -> BOOLEAN]
    BY HeadIs, TimerAssumption DEF List, Link
  <1>2. Listed(l, A, {t})
    BY DEF Listed, InOrder
  <1>3. /\ d \in List /\ SameTimes(l, d) /\ d.target = l.target
        /\ d.enabled = [l.enabled EXCEPT ![t] = FALSE] /\ Listed(d, A, {})
    <2>1. PICK h \in A : h = t
      BY <1>1
    <2>2. Listed(l, A, {h})
      BY <1>2, <2>1
    <2>3. /\ Disable(l, h) \in List /\ SameTimes(l, Disable(l, h))
          /\ Disable(l, h).target = l.target
          /\ Disable(l, h).enabled = [l.enabled EXCEPT ![h] = FALSE]
          /\ Listed(Disable(l, h), A, {})
      BY <2>2, DisableIs
    <2> QED
      BY <2>1, <2>3
  <1>4. /\ d.head = l.next[t]
        /\ d.next = [u \in Timers |-> IF u = t THEN NoTimer ELSE l.next[u]]
        /\ d.prev = [u \in Timers |-> IF u = t THEN NoTimer
                                      ELSE IF u = l.next[t] THEN NoTimer ELSE l.prev[u]]
    BY <1>1 DEF Disable, List
  <1>5. /\ k.head = l.next[t] /\ k.inCallback = l.inCallback /\ SameTimes(l, k)
        /\ k.enabled = [l.enabled EXCEPT ![t] = FALSE] /\ k.target = l.target
        /\ k.next = [l.next EXCEPT ![t] = NoTimer]
        /\ k.prev = [l.prev EXCEPT ![l.next[t]] = NoTimer]
        /\ k = [l EXCEPT !.enabled = k.enabled, !.head = k.head, !.next = k.next,
                         !.prev = k.prev, !.target = k.target]
    BY <1>1, ZenonT(40) DEF RemoveHead, List, SameTimes
  <1> HIDE DEF d, k
  <1>6. k.next = d.next
    <2>1. [l.next EXCEPT ![t] = NoTimer] = [u \in Timers |-> IF u = t THEN NoTimer ELSE l.next[u]]
      BY <1>1, ExceptIs
    <2> QED
      BY <1>4, <1>5, <2>1
  <1>7. k.prev = d.prev
    <2>1. [l.prev EXCEPT ![l.next[t]] = NoTimer]
            = [u \in Timers |-> IF u = l.next[t] THEN NoTimer ELSE l.prev[u]]
      BY <1>1, ExceptIs
    <2> QED
      BY <1>1, <1>4, <1>5, <2>1
  <1>8. k.ts = d.ts
    BY <1>3, <1>5 DEF SameTimes
  <1>9. Listed(k, A, {})
    BY <1>3, <1>4, <1>5, <1>6, <1>7, <1>8, ListedSame
  <1>10. k \in List
    <2>1. /\ k.enabled \in [Timers -> BOOLEAN] /\ k.head \in Link /\ k.target \in Int
          /\ k.next \in [Timers -> Link] /\ k.prev \in [Timers -> Link]
      <3>1. d.enabled \in [Timers -> BOOLEAN] /\ d.head \in Link /\ d.target \in Int
            /\ d.next \in [Timers -> Link] /\ d.prev \in [Timers -> Link]
        BY <1>3 DEF List
      <3> QED
        BY <1>3, <1>4, <1>5, <1>6, <1>7, <3>1
    <2>2. [l EXCEPT !.enabled = k.enabled, !.head = k.head, !.next = k.next,
                    !.prev = k.prev, !.target = k.target] \in List
      BY <2>1, RelinkedIs
    <2> QED
      BY <1>5, <2>2
  <1> QED
    BY <1>5, <1>9, <1>10 DEF k

\* timer_set_new_tsc moves the whole list.
LEMMA NewTscIs ==
    ASSUME NEW A, A \subseteq Timers, NEW l \in List, Listed(l, A, {}), NEW v \in Int
    PROVE  /\ NewTsc(l, v) \in List /\ Listed(NewTsc(l, v), A, {})
           /\ NewTsc(l, v).tsc = v /\ NewTsc(l, v).inited = l.inited
           /\ NewTsc(l, v).head = l.head
           /\ NewTsc(l, v).enabled = l.enabled /\ NewTsc(l, v).split = l.split
           /\ NewTsc(l, v).period = l.period /\ NewTsc(l, v).inCallback = l.inCallback
           /\ \A u \in A : l.enabled[u] => NewTsc(l, v).ts[u] = v + (l.ts[u] - l.tsc)
           /\ l.head # NoTimer => NewTsc(l, v).target = v + (l.ts[l.head] - l.tsc)
  <1> DEFINE k == NewTsc(l, v)
             c == Chain(l)
             linked == {c[i] : i \in DOMAIN c}
  <1>1. l.ts \in [Timers -> Int] /\ l.tsc \in Int /\ l.target \in Int /\ NoTimer \notin Timers
    BY TimerAssumption DEF List
  <1>2. CASE l.head = NoTimer
    <2>1. k = [l EXCEPT !.tsc = v]
      BY <1>2 DEF NewTsc
    <2>2. \A u \in A : ~l.enabled[u]
      BY <1>2, HeadIs
    <2>3. /\ k \in List /\ k.tsc = v /\ k.inited = l.inited /\ k.head = l.head
          /\ k.enabled = l.enabled /\ k.split = l.split /\ k.period = l.period
          /\ k.inCallback = l.inCallback /\ k.ts = l.ts /\ k.next = l.next /\ k.prev = l.prev
      BY <2>1 DEF List
    <2>4. Listed(k, A, {})
      BY <2>3, ListedSame
    <2> QED
      BY <1>2, <2>2, <2>3, <2>4
  <1>3. CASE l.head # NoTimer
    <2>n. PICK n \in Nat : \E s \in [1 .. n -> A] : Linked(l, A, n, s) /\ InOrder(l, n, s, {})
      BY DEF Listed
    <2>1. PICK s \in [1 .. n -> A] : Linked(l, A, n, s) /\ InOrder(l, n, s, {})
      BY <2>n
    <2>2. n <= Cardinality(Timers) /\ Cardinality(Timers) \in Nat /\ c = Listing(n, s)
      BY <2>1, ChainIs
    <2>3. k = [l EXCEPT !.tsc = v, !.target = v + (l.ts[l.head] - l.tsc),
                        !.ts = [t \in Timers |-> IF t \in linked THEN v + (@[t] - l.tsc) ELSE @[t]]]
      BY <1>3 DEF NewTsc
    <2> HIDE DEF c
    <2>4. \A i \in 1 .. n : s[i] \in linked /\ s[i] \in Timers
      <3> SUFFICES ASSUME NEW i \in 1 .. n PROVE i \in DOMAIN c /\ c[i] = s[i]
        OBVIOUS
      <3> QED
        BY <2>2 DEF Listing
    <2> HIDE DEF linked
    <2>5. k.ts = [t \in Timers |-> IF t \in linked THEN v + (l.ts[t] - l.tsc) ELSE l.ts[t]]
      BY <2>3 DEF List
    <2>6. /\ k.tsc = v /\ k.target = v + (l.ts[l.head] - l.tsc) /\ k.inited = l.inited
          /\ k.head = l.head /\ k.enabled = l.enabled /\ k.split = l.split
          /\ k.period = l.period /\ k.inCallback = l.inCallback
          /\ k.next = l.next /\ k.prev = l.prev
          /\ k = [l EXCEPT !.tsc = k.tsc, !.target = k.target, !.ts = k.ts]
      BY <2>3 DEF List
    <2> HIDE DEF k
    <2>7. k \in List
      <3>1. l.ts[l.head] \in Int
        BY <1>1, <1>3, HeadIs
      <3>2. k.ts \in [Timers -> Int] /\ k.target \in Int
        BY <1>1, <2>5, <2>6, <3>1
      <3> QED
        BY <2>6, <3>2 DEF List
    <2>8. \A i \in 1 .. n : k.ts[s[i]] = v + (l.ts[s[i]] - l.tsc) /\ l.ts[s[i]] \in Int
      BY <1>1, <2>4, <2>5
    <2>9. Linked(k, A, n, s)
      BY <2>1, <2>6 DEF Linked
    <2>10. InOrder(k, n, s, {})
      BY <1>1, <2>1, <2>8 DEF InOrder
    <2>11. Listed(k, A, {})
      BY <2>9, <2>10 DEF Listed
    <2>12. ASSUME NEW u \in A, l.enabled[u] PROVE k.ts[u] = v + (l.ts[u] - l.tsc)
      BY <2>1, <2>8, <2>12 DEF Linked
    <2> QED
      BY <2>6, <2>7, <2>11, <2>12 DEF k
  <1> QED
    BY <1>2, <1>3

-----------------------------------------------------------------------------
(* The calls of the devices.                                               *)

\* From l to k a timer is set for x.
SetFor(l, k, A, t, x) ==
    /\ k \in List /\ Listed(k, A, {})
    /\ k.inited = l.inited /\ k.tsc = l.tsc
    /\ k.ts = [l.ts EXCEPT ![t] = x]
    /\ k.enabled = [l.enabled EXCEPT ![t] = TRUE]
    /\ \A u \in Timers : k.inCallback[u] => l.inCallback[u]
    /\ Soonest(l, A, {t}) => Soonest(k, A, {})

LEMMA SetIs ==
    ASSUME NEW A, A \subseteq Timers, NEW l \in List, l.inited, Listed(l, A, {}), NEW t \in A,
           NEW x \in Int
    PROVE  /\ SetFor(l, Enable([l EXCEPT !.ts[t] = x], t), A, t, x)
           /\ Enable([l EXCEPT !.ts[t] = x], t).split = l.split
           /\ Enable([l EXCEPT !.ts[t] = x], t).period = l.period
  <1> DEFINE m == [l EXCEPT !.ts[t] = x]
             k == Enable(m, t)
  <1>1. /\ m.ts = [l.ts EXCEPT ![t] = x] /\ l.ts \in [Timers -> Int] /\ t \in Timers
        /\ m.enabled = l.enabled /\ m.head = l.head /\ m.next = l.next /\ m.prev = l.prev
        /\ m.inited = l.inited /\ m.tsc = l.tsc /\ m.split = l.split /\ m.period = l.period
        /\ m.inCallback = l.inCallback /\ m.target = l.target
        /\ m = [l EXCEPT !.ts = m.ts]
    BY DEF List
  <1> HIDE DEF m
  <1>2. m \in List
    BY <1>1 DEF List
  <1>3. \A u \in A : u # t => m.ts[u] = l.ts[u]
    BY <1>1
  <1>4. Listed(m, A, {t})
    <2>n. PICK n \in Nat : \E s \in [1 .. n -> A] : Linked(l, A, n, s) /\ InOrder(l, n, s, {})
      BY DEF Listed
    <2>1. PICK s \in [1 .. n -> A] : Linked(l, A, n, s) /\ InOrder(l, n, s, {})
      BY <2>n
    <2>2. Linked(m, A, n, s)
      BY <1>1, <2>1 DEF Linked
    <2>3. InOrder(m, n, s, {t})
      BY <1>3, <2>1 DEF InOrder
    <2> QED
      BY <2>2, <2>3 DEF Listed
  <1>5. /\ k \in List /\ SameTimes(m, k)
        /\ k.enabled = [m.enabled EXCEPT ![t] = TRUE]
        /\ \A u \in Timers : k.inCallback[u] => m.inCallback[u]
        /\ Listed(k, A, {})
        /\ Soonest(m, A, {t}) => Soonest(k, A, {})
    BY <1>1, <1>2, <1>4, EnableIs
  <1> HIDE DEF k
  <1>6. Soonest(l, A, {t}) => Soonest(m, A, {t})
    BY <1>1, <1>3 DEF Soonest
  <1>7. SetFor(l, k, A, t, x)
    BY <1>1, <1>5, <1>6 DEF SetFor, SameTimes
  <1>8. k.split = l.split /\ k.period = l.period
    BY <1>1, <1>5 DEF SameTimes
  <1> QED
    BY <1>7, <1>8 DEF k, m

\* timer_set_delay_u64 and timer_advance_u64, of a delay that is not negative.
LEMMA DelayIs ==
    ASSUME NEW A, A \subseteq Timers, NEW l \in List, l.inited, Listed(l, A, {}), NEW t \in A,
           NEW d \in Nat, d < Half
    PROVE  /\ SetFor(l, SetDelay(l, t, d), A, t, l.tsc + d)
           /\ SetDelay(l, t, d).split = l.split /\ SetDelay(l, t, d).period = l.period
           /\ SetFor(l, Advance(l, t, d), A, t, l.ts[t] + d)
           /\ Advance(l, t, d).split = l.split /\ Advance(l, t, d).period = l.period
  <1>1. l.tsc \in Int /\ l.ts[t] \in Int /\ Signed(d) = d
    BY DelayAssumption DEF List, Signed
  <1>2. l.tsc + d \in Int /\ l.ts[t] + d \in Int
    BY <1>1
  <1>3. /\ SetFor(l, SetDelay(l, t, d), A, t, l.tsc + d)
        /\ SetDelay(l, t, d).split = l.split /\ SetDelay(l, t, d).period = l.period
    <2>1. PICK x \in Int : x = l.tsc + d
      BY <1>2
    <2>2. SetDelay(l, t, d) = Enable([l EXCEPT !.ts[t] = x], t)
      BY <1>1, <2>1 DEF SetDelay
    <2> QED
      <3>1. /\ SetFor(l, Enable([l EXCEPT !.ts[t] = x], t), A, t, x)
            /\ Enable([l EXCEPT !.ts[t] = x], t).split = l.split
            /\ Enable([l EXCEPT !.ts[t] = x], t).period = l.period
        BY SetIs, ZenonT(40)
      <3> QED
        BY <2>1, <2>2, <3>1
  <1>4. /\ SetFor(l, Advance(l, t, d), A, t, l.ts[t] + d)
        /\ Advance(l, t, d).split = l.split /\ Advance(l, t, d).period = l.period
    <2>1. PICK x \in Int : x = l.ts[t] + d
      BY <1>2
    <2>2. Advance(l, t, d) = Enable([l EXCEPT !.ts[t] = x], t)
      BY <1>1, <2>1 DEF Advance
    <2> QED
      <3>1. /\ SetFor(l, Enable([l EXCEPT !.ts[t] = x], t), A, t, x)
            /\ Enable([l EXCEPT !.ts[t] = x], t).split = l.split
            /\ Enable([l EXCEPT !.ts[t] = x], t).period = l.period
        BY SetIs, ZenonT(40)
      <3> QED
        BY <2>1, <2>2, <3>1
  <1> QED
    BY <1>3, <1>4

\* timer_advance_ex of a period: the first part is set, the rest stays.
Deadlines(k, t) == k.ts[t] + IF k.split[t] THEN k.period[t] ELSE 0

PeriodFor(l, k, A, t, base) ==
    /\ k \in List /\ Listed(k, A, {})
    /\ k.inited = l.inited /\ k.tsc = l.tsc
    /\ k.enabled = [l.enabled EXCEPT ![t] = TRUE]
    /\ \A u \in Timers : k.inCallback[u] => l.inCallback[u]
    /\ Soonest(l, A, {t}) => Soonest(k, A, {})
    /\ \A u \in Timers \ {t} :
         k.ts[u] = l.ts[u] /\ k.split[u] = l.split[u] /\ k.period[u] = l.period[u]
    /\ k.ts[t] > base
    /\ k.split[t] => k.period[t] > 0
    /\ ~k.split[t] => k.period[t] = 0

LEMMA AdvanceExIs ==
    ASSUME NEW A, A \subseteq Timers, NEW l \in List, l.inited, Listed(l, A, {}), NEW t \in A,
           l.period[t] > 0, NEW start \in BOOLEAN
    PROVE  LET k == AdvanceEx(l, t, start)
               base == IF start THEN l.tsc ELSE l.ts[t]
           IN  PeriodFor(l, k, A, t, base) /\ Deadlines(k, t) = base + l.period[t]
  <1> DEFINE p == l.period[t]
             d == IF p > MaxPeriod THEN MaxPeriod ELSE p
             m == DoPeriod(l, t, d, start)
             base == IF start THEN l.tsc ELSE l.ts[t]
             k == AdvanceEx(l, t, start)
  <1>1. /\ p \in Nat /\ p > 0 /\ MaxPeriod \in Nat \ {0} /\ MaxPeriod < Half /\ Half \in Nat
        /\ t \in Timers /\ l.ts[t] \in Int /\ l.tsc \in Int /\ l.ts \in [Timers -> Int]
        /\ l.split \in [Timers -> BOOLEAN] /\ l.period \in [Timers -> Nat]
    BY DelayAssumption DEF List
  <1>2. d \in Nat /\ d > 0 /\ d < Half /\ base \in Int
    BY <1>1
  <1>3. SetFor(l, m, A, t, base + d) /\ m.split = l.split /\ m.period = l.period
    <2> HIDE DEF d
    <2>1. m = IF start THEN SetDelay(l, t, d) ELSE Advance(l, t, d)
      BY DEF DoPeriod
    <2> HIDE DEF m
    <2> QED
      BY <1>2, <2>1, DelayIs
  <1>4. k = IF p > MaxPeriod
            THEN [m EXCEPT !.period[t] = p - MaxPeriod, !.split[t] = TRUE]
            ELSE [m EXCEPT !.period[t] = 0, !.split[t] = FALSE]
    BY <1>1 DEF AdvanceEx
  <1> HIDE DEF m, d, k
  <1>5. m \in List
    BY <1>3 DEF SetFor
  <1>6. /\ k.period = [l.period EXCEPT ![t] = IF p > MaxPeriod THEN p - MaxPeriod ELSE 0]
        /\ k.split = [l.split EXCEPT ![t] = IF p > MaxPeriod THEN TRUE ELSE FALSE]
        /\ k.inited = m.inited /\ k.tsc = m.tsc /\ k.ts = m.ts /\ k.enabled = m.enabled
        /\ k.inCallback = m.inCallback /\ k.target = m.target /\ k.head = m.head
        /\ k.next = m.next /\ k.prev = m.prev
        /\ k = [m EXCEPT !.period = k.period, !.split = k.split]
    <2>1. CASE p > MaxPeriod
      <3>1. k = [m EXCEPT !.period[t] = p - MaxPeriod, !.split[t] = TRUE]
        BY <1>4, <2>1
      <3> HIDE DEF p
      <3> QED
        BY <1>3, <1>5, <2>1, <3>1 DEF List
    <2>2. CASE ~(p > MaxPeriod)
      <3>1. k = [m EXCEPT !.period[t] = 0, !.split[t] = FALSE]
        BY <1>4, <2>2
      <3> HIDE DEF p
      <3> QED
        BY <1>3, <1>5, <2>2, <3>1 DEF List
    <2> QED
      BY <2>1, <2>2
  <1>7. k \in List
    <2>1. k.period \in [Timers -> Nat] /\ k.split \in [Timers -> BOOLEAN]
      BY <1>1, <1>6
    <2> QED
      BY <1>5, <1>6, <2>1 DEF List
  <1>8. Listed(k, A, {})
    BY <1>3, <1>6, ListedSame DEF SetFor
  <1>9. Soonest(l, A, {t}) => Soonest(k, A, {})
    BY <1>3, <1>6 DEF SetFor, Soonest
  <1>10. /\ k.ts[t] = base + d /\ (k.split[t] <=> p > MaxPeriod)
         /\ k.period[t] = IF p > MaxPeriod THEN p - MaxPeriod ELSE 0
         /\ d = IF p > MaxPeriod THEN MaxPeriod ELSE p
    <2>1. k.ts[t] = base + d
      BY <1>1, <1>3, <1>6 DEF SetFor
    <2>2. k.split[t] <=> p > MaxPeriod
      BY <1>1, <1>6
    <2>3. k.period[t] = IF p > MaxPeriod THEN p - MaxPeriod ELSE 0
      BY <1>1, <1>6
    <2> QED
      BY <2>1, <2>2, <2>3 DEF d
  <1>11. \A u \in Timers \ {t} :
           k.ts[u] = l.ts[u] /\ k.split[u] = l.split[u] /\ k.period[u] = l.period[u]
    BY <1>1, <1>3, <1>6 DEF SetFor
  <1>12. /\ k.inited = l.inited /\ k.tsc = l.tsc /\ k.enabled = [l.enabled EXCEPT ![t] = TRUE]
         /\ \A u \in Timers : k.inCallback[u] => l.inCallback[u]
    BY <1>3, <1>6 DEF SetFor
  <1> HIDE DEF p, base
  <1>13. /\ k.ts[t] > base /\ (k.split[t] => k.period[t] > 0) /\ (~k.split[t] => k.period[t] = 0)
    <2>1. CASE p > MaxPeriod
      BY <1>1, <1>2, <1>10, <2>1
    <2>2. CASE ~(p > MaxPeriod)
      BY <1>1, <1>2, <1>10, <2>2
    <2> QED
      BY <2>1, <2>2
  <1>14. Deadlines(k, t) = base + p
    <2>1. CASE p > MaxPeriod
      BY <1>1, <1>2, <1>10, <2>1 DEF Deadlines
    <2>2. CASE ~(p > MaxPeriod)
      BY <1>1, <1>2, <1>10, <2>2 DEF Deadlines
    <2> QED
      BY <2>1, <2>2
  <1>15. PeriodFor(l, k, A, t, base)
    BY <1>7, <1>8, <1>9, <1>11, <1>12, <1>13 DEF PeriodFor
  <1> QED
    BY <1>14, <1>15 DEF k, p, base

\* timer_add.
AddedTo(l, k, A, t, start) ==
    /\ k \in List /\ Listed(k, A \cup {t}, {})
    /\ k.inited /\ k.tsc = l.tsc
    /\ (k.enabled[t] <=> start) /\ k.period[t] = 0 /\ ~k.split[t] /\ ~k.inCallback[t]
    /\ start => k.ts[t] = l.tsc
    /\ \A u \in A : /\ k.enabled[u] = l.enabled[u] /\ k.ts[u] = l.ts[u]
                    /\ k.split[u] = l.split[u] /\ k.period[u] = l.period[u]
                    /\ k.inCallback[u] => l.inCallback[u]
    /\ Soonest(l, A, {}) => Soonest(k, A \cup {t}, {})

LEMMA AddTimerIs ==
    ASSUME NEW A, NEW t \in Timers, A \subseteq Timers \ {t}, NEW l \in List, l.inited,
           Listed(l, A, {}), NEW start \in BOOLEAN
    PROVE  AddedTo(l, AddTimer(l, t, start), A, t, start)
  <1> DEFINE c == [l EXCEPT
          !.next[t] = NoTimer, !.prev[t] = NoTimer, !.enabled[t] = FALSE,
          !.split[t] = FALSE, !.inCallback[t] = FALSE,
          !.ts[t] = 0, !.period[t] = 0]
             k == AddTimer(l, t, start)
             B == A \cup {t}
  <1>1. k = IF start THEN SetDelay(c, t, 0) ELSE c
    BY DEF AddTimer
  <1>2. /\ c.next = [l.next EXCEPT ![t] = NoTimer] /\ c.prev = [l.prev EXCEPT ![t] = NoTimer]
        /\ c.enabled = [l.enabled EXCEPT ![t] = FALSE] /\ c.split = [l.split EXCEPT ![t] = FALSE]
        /\ c.inCallback = [l.inCallback EXCEPT ![t] = FALSE]
        /\ c.ts = [l.ts EXCEPT ![t] = 0] /\ c.period = [l.period EXCEPT ![t] = 0]
        /\ c.inited = l.inited /\ c.tsc = l.tsc /\ c.head = l.head /\ c.target = l.target
        /\ c = [l EXCEPT !.next = c.next, !.prev = c.prev, !.enabled = c.enabled,
                         !.split = c.split, !.inCallback = c.inCallback, !.ts = c.ts,
                         !.period = c.period]
    BY DEF List
  <1> HIDE DEF c, k
  <1>3. /\ l.next \in [Timers -> Link] /\ l.prev \in [Timers -> Link] /\ l.enabled \in [Timers -> BOOLEAN]
        /\ l.split \in [Timers -> BOOLEAN] /\ l.inCallback \in [Timers -> BOOLEAN]
        /\ l.ts \in [Timers -> Int] /\ l.period \in [Timers -> Nat] /\ NoTimer \in Link
    BY DEF List, Link
  <1>4. c \in List
    <2>1. /\ c.next \in [Timers -> Link] /\ c.prev \in [Timers -> Link] /\ c.enabled \in [Timers -> BOOLEAN]
          /\ c.split \in [Timers -> BOOLEAN] /\ c.inCallback \in [Timers -> BOOLEAN]
          /\ c.ts \in [Timers -> Int] /\ c.period \in [Timers -> Nat]
      BY <1>2, <1>3
    <2> QED
      BY <1>2, <2>1 DEF List
  <1>5. /\ c.next[t] = NoTimer /\ c.prev[t] = NoTimer /\ ~c.enabled[t] /\ ~c.split[t]
        /\ ~c.inCallback[t] /\ c.period[t] = 0
        /\ \A u \in A : /\ u # t /\ u \in Timers /\ c.next[u] = l.next[u] /\ c.prev[u] = l.prev[u]
                        /\ c.enabled[u] = l.enabled[u] /\ c.split[u] = l.split[u]
                        /\ c.inCallback[u] = l.inCallback[u] /\ c.ts[u] = l.ts[u]
                        /\ c.period[u] = l.period[u]
    <2>1. /\ c.next[t] = NoTimer /\ c.prev[t] = NoTimer /\ ~c.enabled[t] /\ ~c.split[t]
          /\ ~c.inCallback[t] /\ c.period[t] = 0
      BY <1>2, <1>3
    <2>2. ASSUME NEW u \in A
          PROVE  /\ u # t /\ u \in Timers /\ c.next[u] = l.next[u] /\ c.prev[u] = l.prev[u]
                 /\ c.enabled[u] = l.enabled[u] /\ c.split[u] = l.split[u]
                 /\ c.inCallback[u] = l.inCallback[u] /\ c.ts[u] = l.ts[u]
                 /\ c.period[u] = l.period[u]
      <3>1. u # t /\ u \in Timers
        OBVIOUS
      <3>2. c.next[u] = l.next[u] /\ c.prev[u] = l.prev[u] /\ c.ts[u] = l.ts[u]
        BY <1>2, <1>3, <3>1
      <3>3. c.enabled[u] = l.enabled[u] /\ c.split[u] = l.split[u]
        BY <1>2, <1>3, <3>1
      <3>4. c.inCallback[u] = l.inCallback[u] /\ c.period[u] = l.period[u]
        BY <1>2, <1>3, <3>1
      <3> QED
        BY <3>1, <3>2, <3>3, <3>4
    <2> QED
      BY <2>1, <2>2
  <1>6. Listed(c, B, {})
    <2>n. PICK n \in Nat : \E s \in [1 .. n -> A] : Linked(l, A, n, s) /\ InOrder(l, n, s, {})
      BY DEF Listed
    <2>1. PICK s \in [1 .. n -> A] : Linked(l, A, n, s) /\ InOrder(l, n, s, {})
      BY <2>n
    <2>2. s \in [1 .. n -> B] /\ \A i \in 1 .. n : s[i] \in A
      OBVIOUS
    <2>3. Linked(c, B, n, s)
      <3>1. \A u \in B : c.enabled[u] <=> \E i \in 1 .. n : s[i] = u
        BY <1>5, <2>1, <2>2 DEF Linked
      <3>2. \A u \in B : ~c.enabled[u] => c.next[u] = NoTimer /\ c.prev[u] = NoTimer
        BY <1>5, <2>1 DEF Linked
      <3>3. /\ \A i \in 1 .. n : c.next[s[i]] = IF i = n THEN NoTimer ELSE s[i + 1]
            /\ \A i \in 1 .. n : c.prev[s[i]] = IF i = 1 THEN NoTimer ELSE s[i - 1]
        <4>1. \A i \in 1 .. n : c.next[s[i]] = l.next[s[i]] /\ c.prev[s[i]] = l.prev[s[i]]
          BY <1>5, <2>2
        <4> QED
          BY <2>1, <4>1 DEF Linked
      <3> QED
        BY <1>2, <2>1, <3>1, <3>2, <3>3 DEF Linked
    <2>4. InOrder(c, n, s, {})
      BY <1>5, <2>1, <2>2 DEF InOrder
    <2> QED
      BY <2>2, <2>3, <2>4 DEF Listed
  <1>7. Soonest(l, A, {}) => Soonest(c, B, {t}) /\ Soonest(c, B, {})
    BY <1>2, <1>5 DEF Soonest
  <1>8. CASE ~start
    <2>1. k = c
      BY <1>1, <1>8
    <2>2. AddedTo(l, c, A, t, start)
      BY <1>2, <1>4, <1>5, <1>6, <1>7, <1>8 DEF AddedTo
    <2> QED
      BY <2>1, <2>2 DEF k
  <1>9. CASE start
    <2> DEFINE e == SetDelay(c, t, 0)
    <2>1. k = e
      BY <1>1, <1>9
    <2>2. 0 \in Nat /\ 0 < Half /\ t \in B /\ B \subseteq Timers
      BY DelayAssumption
    <2>3. SetFor(c, e, B, t, c.tsc + 0) /\ e.split = c.split /\ e.period = c.period
      <3>1. c.inited /\ c \in List
        BY <1>2, <1>4
      <3> QED
        BY <1>6, <2>2, <3>1, DelayIs
    <2>4. c.tsc + 0 = l.tsc
      BY <1>2 DEF List
    <2>5. c.enabled \in [Timers -> BOOLEAN] /\ c.ts \in [Timers -> Int]
      BY <1>4 DEF List
    <2> HIDE DEF e
    <2>6. e.ts = [c.ts EXCEPT ![t] = l.tsc] /\ e.enabled = [c.enabled EXCEPT ![t] = TRUE]
          /\ \A u \in Timers : e.inCallback[u] => c.inCallback[u]
      BY <2>3, <2>4 DEF SetFor
    <2>7. e.enabled[t] /\ e.ts[t] = l.tsc /\ ~e.inCallback[t]
      BY <1>5, <2>5, <2>6
    <2>8. \A u \in A : /\ e.enabled[u] = l.enabled[u] /\ e.ts[u] = l.ts[u]
                       /\ e.inCallback[u] => l.inCallback[u]
      BY <1>5, <2>5, <2>6, ZenonT(40)
    <2>9. /\ e \in List /\ Listed(e, B, {}) /\ e.inited = c.inited /\ e.tsc = c.tsc
          /\ Soonest(c, B, {t}) => Soonest(e, B, {})
      BY <2>3 DEF SetFor
    <2>10. AddedTo(l, e, A, t, start)
      <3>1. e.inited /\ e.tsc = l.tsc /\ e.period[t] = 0 /\ ~e.split[t]
        BY <1>2, <1>5, <2>3, <2>9
      <3>2. \A u \in A : e.split[u] = l.split[u] /\ e.period[u] = l.period[u]
        BY <1>5, <2>3
      <3>3. Soonest(l, A, {}) => Soonest(e, A \cup {t}, {})
        BY <1>7, <2>9
      <3> QED
        BY <1>9, <2>7, <2>8, <2>9, <3>1, <3>2, <3>3 DEF AddedTo
    <2> QED
      BY <2>1, <2>10 DEF k
  <1> QED
    BY <1>8, <1>9

\* timer_stop.
StoppedFor(l, k, A, t) ==
    /\ k \in List /\ Listed(k, A, {})
    /\ k.inited = l.inited /\ k.tsc = l.tsc /\ k.target = l.target /\ k.ts = l.ts
    /\ k.enabled = [l.enabled EXCEPT ![t] = FALSE]
    /\ \A u \in Timers : k.inCallback[u] => l.inCallback[u]
    /\ k.period[t] = 0 /\ ~k.split[t]
    /\ \A u \in Timers \ {t} : k.split[u] = l.split[u] /\ k.period[u] = l.period[u]

LEMMA StopIs ==
    ASSUME NEW A, A \subseteq Timers, NEW l \in List, l.inited, Listed(l, A, {}), NEW t \in A
    PROVE  StoppedFor(l, StopTimer(l, t), A, t)
  <1> DEFINE d == Disable(l, t)
             k == StopTimer(l, t)
  <1>1. Listed(l, A, {t}) /\ t \in Timers
    BY DEF Listed, InOrder
  <1>2. /\ d \in List /\ SameTimes(l, d) /\ d.target = l.target
        /\ d.enabled = [l.enabled EXCEPT ![t] = FALSE]
        /\ \A u \in Timers : d.inCallback[u] => l.inCallback[u]
        /\ Listed(d, A, {})
    BY <1>1, DisableIs
  <1>3. k = [d EXCEPT !.period[t] = 0, !.split[t] = FALSE, !.inCallback[t] = FALSE]
    BY DEF StopTimer
  <1> HIDE DEF d, k
  <1>4. /\ k.period = [d.period EXCEPT ![t] = 0] /\ k.split = [d.split EXCEPT ![t] = FALSE]
        /\ k.inCallback = [d.inCallback EXCEPT ![t] = FALSE]
        /\ k.enabled = d.enabled /\ k.head = d.head /\ k.next = d.next /\ k.prev = d.prev
        /\ k.ts = d.ts /\ k.tsc = d.tsc /\ k.inited = d.inited /\ k.target = d.target
        /\ k = [d EXCEPT !.period = k.period, !.split = k.split, !.inCallback = k.inCallback]
    BY <1>2, <1>3 DEF List
  <1>5. /\ d.period \in [Timers -> Nat] /\ d.split \in [Timers -> BOOLEAN]
        /\ d.inCallback \in [Timers -> BOOLEAN]
    BY <1>2 DEF List
  <1>6. k \in List
    <2>1. /\ k.period \in [Timers -> Nat] /\ k.split \in [Timers -> BOOLEAN]
          /\ k.inCallback \in [Timers -> BOOLEAN]
      BY <1>1, <1>4, <1>5
    <2> QED
      BY <1>2, <1>4, <2>1 DEF List
  <1>7. Listed(k, A, {})
    BY <1>2, <1>4, ListedSame
  <1>8. /\ k.period[t] = 0 /\ ~k.split[t]
        /\ \A u \in Timers \ {t} : k.split[u] = d.split[u] /\ k.period[u] = d.period[u]
        /\ \A u \in Timers : k.inCallback[u] => d.inCallback[u]
    BY <1>1, <1>4, <1>5
  <1>9. d.split = l.split /\ d.period = l.period /\ d.ts = l.ts /\ d.tsc = l.tsc
        /\ d.inited = l.inited
    BY <1>2 DEF SameTimes
  <1> QED
    BY <1>2, <1>4, <1>6, <1>7, <1>8, <1>9 DEF StoppedFor, k

\* timer_on_auto, for a period.
StartsNow(l, t) == l.period[t] = 0 /\ ~l.inCallback[t]
Base(l, t) == IF StartsNow(l, t) THEN l.tsc ELSE l.ts[t]

LEMMA OnAutoIs ==
    ASSUME NEW A, A \subseteq Timers, NEW l \in List, l.inited, Listed(l, A, {}), NEW t \in A,
           NEW p \in Nat, p > 0
    PROVE  /\ PeriodFor(l, OnAuto(l, t, p), A, t, Base(l, t))
           /\ Deadlines(OnAuto(l, t, p), t) = Base(l, t) + p
  <1> DEFINE m == [l EXCEPT !.period[t] = p]
             k == OnAuto(l, t, p)
             start == StartsNow(l, t)
             base == IF start THEN m.tsc ELSE m.ts[t]
  <1>1. /\ m.period = [l.period EXCEPT ![t] = p] /\ m.enabled = l.enabled /\ m.head = l.head
        /\ m.next = l.next /\ m.prev = l.prev /\ m.ts = l.ts /\ m.tsc = l.tsc
        /\ m.inited = l.inited /\ m.target = l.target /\ m.split = l.split
        /\ m.inCallback = l.inCallback /\ m = [l EXCEPT !.period = m.period]
    BY DEF List
  <1>2. k = AdvanceEx(m, t, start)
    BY DEF OnAuto, StartsNow
  <1> HIDE DEF m, k
  <1>3. /\ t \in Timers /\ l.period \in [Timers -> Nat]
    BY DEF List
  <1>4. m \in List
    <2>1. m.period \in [Timers -> Nat]
      BY <1>1, <1>3
    <2> QED
      BY <1>1, <2>1 DEF List
  <1>5. Listed(m, A, {})
    BY <1>1, ListedSame
  <1>6. m.period[t] = p /\ m.inited /\ \A u \in Timers \ {t} : m.period[u] = l.period[u]
    BY <1>1, <1>3
  <1>7. start \in BOOLEAN /\ base = Base(l, t)
    BY <1>1 DEF StartsNow, Base
  <1> HIDE DEF start
  <1>8. PeriodFor(m, k, A, t, base) /\ Deadlines(k, t) = base + m.period[t]
    BY <1>2, <1>4, <1>5, <1>6, <1>7, AdvanceExIs
  <1> HIDE DEF base
  <1>9. Soonest(l, A, {t}) => Soonest(m, A, {t})
    BY <1>1 DEF Soonest
  <1>10. PeriodFor(l, k, A, t, base)
    BY <1>1, <1>6, <1>8, <1>9 DEF PeriodFor
  <1> QED
    BY <1>6, <1>7, <1>8, <1>10 DEF k

-----------------------------------------------------------------------------
(* The invariant.                                                          *)

\* Where the thread is, and what it has set up.
Settled ==
    /\ q.inited <=> phase # "off"
    /\ phase = "off" => added = {}
    /\ phase \in {"cpu", "process", "callback"} => added = Timers

\* A timer that sets itself again is enabled, but in its callback.
PerpetualOn == \A t \in Perpetual \cap added : t # running => q.enabled[t]

\* A split period runs, and is not over; a timer that is not split has no rest.
PartsLeft ==
    \A t \in added :
      /\ q.split[t] => t \in Periodic /\ q.period[t] > 0 /\ q.enabled[t]
      /\ ~q.split[t] => q.period[t] = 0
      /\ q.inCallback[t] => t = running

\* Between two looks at the target nothing is overdue.
NothingMissed ==
    phase \in {"boot", "cpu"} =>
      /\ Soonest(q, added, {})
      /\ \A t \in added : q.enabled[t] => q.tsc <= q.ts[t]

Inv == TypeOK /\ Listed(q, added, {}) /\ Settled /\ PerpetualOn /\ PartsLeft /\ NothingMissed

LEMMA InitInv == Init => Inv
  <1> SUFFICES ASSUME Init PROVE Inv
    OBVIOUS
  <1>1. q \in List
    BY DEF Init, List, Link
  <1>2. TypeOK
    BY <1>1, TimerAssumption DEF Init, TypeOK, Phases, Link
  <1>3. Listed(q, added, {})
    <2> DEFINE s == [i \in 1 .. 0 |-> NoTimer]
    <2>1. 0 \in Nat /\ s \in [1 .. 0 -> added]
      OBVIOUS
    <2>2. Linked(q, added, 0, s) /\ InOrder(q, 0, s, {})
      BY DEF Init, Linked, InOrder
    <2> HIDE DEF s
    <2> QED
      BY <2>1, <2>2 DEF Listed
  <1>4. Settled /\ PerpetualOn /\ PartsLeft /\ NothingMissed
    BY DEF Init, Settled, PerpetualOn, PartsLeft, NothingMissed, Soonest
  <1> QED
    BY <1>2, <1>3, <1>4 DEF Inv

LEMMA InvTypes ==
    ASSUME Inv
    PROVE  /\ q \in List /\ added \subseteq Timers /\ NoTimer \notin Timers
           /\ q.tsc \in Int /\ q.target \in Int /\ q.head \in Link
           /\ q.ts \in [Timers -> Int] /\ q.period \in [Timers -> Nat]
           /\ q.enabled \in [Timers -> BOOLEAN] /\ q.split \in [Timers -> BOOLEAN]
           /\ q.inCallback \in [Timers -> BOOLEAN]
           /\ phase \in Phases \ {"crashed"} /\ running \in Link
           /\ running # NoTimer <=> phase = "callback"
  BY TimerAssumption DEF Inv, TypeOK, List

\* What a device does to one of its timers.
LEMMA DeviceInv ==
    ASSUME Inv, phase \in {"cpu", "callback"}, UNCHANGED <<phase, running, added>>,
           NEW t \in Timers, q' \in List, Listed(q', added, {}),
           q'.inited = q.inited, q'.tsc = q.tsc,
           \A u \in Timers : q'.inCallback[u] => q.inCallback[u],
           Soonest(q, added, {}) => Soonest(q', added, {}),
           \A u \in Timers \ {t} : /\ q'.enabled[u] = q.enabled[u] /\ q'.ts[u] = q.ts[u]
                                   /\ q'.split[u] = q.split[u] /\ q'.period[u] = q.period[u],
           t \in Perpetual => q'.enabled[t] \/ t = running,
           q'.split[t] => t \in Periodic /\ q'.period[t] > 0 /\ q'.enabled[t],
           ~q'.split[t] => q'.period[t] = 0,
           phase = "cpu" /\ q'.enabled[t] => q.tsc <= q'.ts[t]
    PROVE  Inv'
  <1>1. added = Timers
    BY DEF Inv, Settled
  <1>2. TypeOK'
    BY DEF Inv, TypeOK
  <1>3. Settled'
    BY DEF Inv, Settled
  <1>4. PerpetualOn'
    <2> SUFFICES ASSUME NEW u \in Perpetual \cap added, u # running PROVE q'.enabled[u]
      BY DEF PerpetualOn
    <2>1. q.enabled[u] /\ u \in Timers
      BY <1>1 DEF Inv, PerpetualOn
    <2> QED
      BY <2>1
  <1>5. PartsLeft'
    <2> SUFFICES ASSUME NEW u \in Timers
                 PROVE  /\ q'.split[u] => u \in Periodic /\ q'.period[u] > 0 /\ q'.enabled[u]
                        /\ ~q'.split[u] => q'.period[u] = 0
                        /\ q'.inCallback[u] => u = running
      BY <1>1 DEF PartsLeft
    <2>1. /\ q.split[u] => u \in Periodic /\ q.period[u] > 0 /\ q.enabled[u]
          /\ ~q.split[u] => q.period[u] = 0
          /\ q.inCallback[u] => u = running
      BY <1>1 DEF Inv, PartsLeft
    <2>2. CASE u = t
      BY <2>1, <2>2
    <2>3. CASE u # t
      BY <2>1, <2>3
    <2> QED
      BY <2>2, <2>3
  <1>6. NothingMissed'
    BY <1>1 DEF Inv, NothingMissed
  <1> QED
    BY <1>1, <1>2, <1>3, <1>4, <1>5, <1>6 DEF Inv

LEMMA Kinds ==
    /\ Perpetual \subseteq Timers /\ Periodic \subseteq Timers
    /\ \A u \in Periodic : u \notin Perpetual
  <1>1. Perpetual \subseteq Timers
    BY Zenon, TimerAssumption
  <1>2. Periodic \subseteq Timers \ Perpetual
    BY Zenon, TimerAssumption
  <1> QED
    BY <1>1, <1>2

LEMMA ListedBut ==
    ASSUME NEW A, NEW X, NEW l, Listed(l, A, {})
    PROVE  Listed(l, A, X)
  BY DEF Listed, InOrder

LEMMA CallsInv ==
    ASSUME Inv, NEW t \in Timers, Delay(t) \/ Resume(t) \/ Cease(t) \/ On(t) \/ Halt(t)
    PROVE  Inv'
  <1>1. /\ phase \in {"cpu", "callback"} /\ UNCHANGED <<phase, running, added>>
    BY DEF Delay, Resume, Cease, On, Halt, Devices
  <1>2. /\ added = Timers /\ q.inited /\ Listed(q, Timers, {}) /\ q \in List
        /\ Perpetual \subseteq Timers /\ \A u \in Periodic : u \notin Perpetual
        /\ q.split[t] => t \in Periodic /\ q.period[t] > 0 /\ q.enabled[t]
        /\ ~q.split[t] => q.period[t] = 0
        /\ q.inCallback[t] => t = running
    <2>1. added = Timers /\ q.inited /\ Listed(q, Timers, {}) /\ q \in List
      BY <1>1, InvTypes DEF Inv, Settled
    <2>2. Perpetual \subseteq Timers /\ \A u \in Periodic : u \notin Perpetual
      BY Kinds
    <2> QED
      BY <2>1, <2>2 DEF Inv, PartsLeft
  <1>3. Soonest(q, Timers, {}) => Soonest(q, Timers, {t})
    BY DEF Soonest
  <1>4. ASSUME NEW x, SetFor(q, q', Timers, t, x), q'.split = q.split, q'.period = q.period,
               ~q.split[t], phase = "cpu" => q.tsc <= x
        PROVE  Inv'
    <2>1. /\ q' \in List /\ Listed(q', added, {}) /\ q'.inited = q.inited /\ q'.tsc = q.tsc
          /\ \A u \in Timers : q'.inCallback[u] => q.inCallback[u]
          /\ Soonest(q, added, {}) => Soonest(q', added, {})
      BY <1>2, <1>3, <1>4 DEF SetFor
    <2>2. q'.enabled[t] /\ q'.ts[t] = x
      BY <1>4, InvTypes DEF SetFor
    <2>3. \A u \in Timers \ {t} : q'.enabled[u] = q.enabled[u] /\ q'.ts[u] = q.ts[u]
      BY <1>4, InvTypes DEF SetFor
    <2> QED
      BY <1>1, <1>2, <1>4, <2>1, <2>2, <2>3, DeviceInv
  <1>5. ASSUME NEW l \in List, SameTimes(q, l), l.enabled = [q.enabled EXCEPT ![t] = FALSE],
               \A u \in Timers : l.inCallback[u] => q.inCallback[u],
               Listed(l, Timers, {}), l.target = q.target
        PROVE  /\ Soonest(q, added, {}) => Soonest(l, added, {})
               /\ ~l.enabled[t]
               /\ \A u \in Timers \ {t} : l.enabled[u] = q.enabled[u]
    <2>1. ~l.enabled[t] /\ \A u \in Timers \ {t} : l.enabled[u] = q.enabled[u]
      BY <1>5, InvTypes
    <2>2. l.ts = q.ts
      BY <1>5 DEF SameTimes
    <2> QED
      BY <1>2, <1>5, <2>1, <2>2 DEF Soonest
  <1>6. CASE Delay(t)
    <2>1. PICK d \in 1 .. MaxDelay : q' = SetDelay(q, t, d) /\ ~q.split[t]
      BY <1>6 DEF Delay, Devices
    <2>2. d \in Nat /\ d < Half
      BY DelayAssumption
    <2>3. SetFor(q, q', Timers, t, q.tsc + d) /\ q'.split = q.split /\ q'.period = q.period
      BY <1>2, <2>1, <2>2, DelayIs
    <2>4. q.tsc <= q.tsc + d
      BY <2>2, InvTypes
    <2> QED
      BY <1>4, <2>1, <2>3, <2>4
  <1>7. CASE Resume(t)
    <2>1. PICK d \in 1 .. MaxDelay : q' = Advance(q, t, d) /\ ~q.split[t] /\ t = running
      BY <1>7 DEF Resume, Devices
    <2>2. d \in Nat /\ d < Half
      BY DelayAssumption
    <2>3. SetFor(q, q', Timers, t, q.ts[t] + d) /\ q'.split = q.split /\ q'.period = q.period
      <3>1. /\ SetFor(q, Advance(q, t, d), Timers, t, q.ts[t] + d)
            /\ Advance(q, t, d).split = q.split /\ Advance(q, t, d).period = q.period
        <4>1. d \in Nat /\ d < Half /\ q.inited /\ Listed(q, Timers, {}) /\ q \in List
          BY <1>2, <2>2
        <4> QED
          BY <4>1, DelayIs, ZenonT(40)
      <3> QED
        BY <2>1, <3>1
    <2>4. phase # "cpu"
      BY <2>1, InvTypes
    <2> QED
      BY <1>4, <2>1, <2>3, <2>4
  <1>8. CASE Cease(t)
    <2>1. q' = Disable(q, t) /\ ~q.split[t] /\ t \notin Perpetual
      BY <1>8 DEF Cease, Devices
    <2>2. Listed(q, Timers, {t})
      BY <1>2, ListedBut
    <2>3. /\ q' \in List /\ SameTimes(q, q') /\ q'.target = q.target
          /\ q'.enabled = [q.enabled EXCEPT ![t] = FALSE]
          /\ \A u \in Timers : q'.inCallback[u] => q.inCallback[u]
          /\ Listed(q', Timers, {})
      BY <1>2, <2>1, <2>2, DisableIs, ZenonT(40)
    <2>4. /\ Soonest(q, added, {}) => Soonest(q', added, {})
          /\ ~q'.enabled[t] /\ \A u \in Timers \ {t} : q'.enabled[u] = q.enabled[u]
      BY <1>5, <2>3
    <2> QED
      BY <1>1, <1>2, <2>1, <2>3, <2>4, DeviceInv, ZenonT(40) DEF SameTimes
  <1>9. CASE On(t) \/ Halt(t)
    <2>1. t \in Periodic /\ t \notin Perpetual
      <3>1. On(t) => t \in Periodic
        BY DEF On
      <3>2. Halt(t) => t \in Periodic
        BY DEF Halt
      <3> QED
        BY <1>2, <1>9, <3>1, <3>2
    <2>2. CASE q' = StopTimer(q, t)
      <3>1. StoppedFor(q, q', Timers, t)
        BY <1>2, <2>2, StopIs
      <3>2. ~q'.enabled[t] /\ \A u \in Timers \ {t} : q'.enabled[u] = q.enabled[u]
        BY <3>1, InvTypes DEF StoppedFor
      <3>3. Soonest(q, added, {}) => Soonest(q', added, {})
        BY <1>2, <3>1, <3>2 DEF StoppedFor, Soonest
      <3>4. /\ q' \in List /\ Listed(q', Timers, {}) /\ q'.inited = q.inited /\ q'.tsc = q.tsc
            /\ \A u \in Timers : q'.inCallback[u] => q.inCallback[u]
            /\ q'.period[t] = 0 /\ ~q'.split[t]
            /\ \A u \in Timers \ {t} : /\ q'.enabled[u] = q.enabled[u] /\ q'.ts[u] = q.ts[u]
                                        /\ q'.split[u] = q.split[u] /\ q'.period[u] = q.period[u]
        BY <3>1, <3>2 DEF StoppedFor
      <3> QED
        BY <1>1, <1>2, <2>1, <3>2, <3>3, <3>4, DeviceInv
    <2>3. ASSUME NEW p \in Nat, p > 0, q' = OnAuto(q, t, p)
          PROVE  Inv'
      <3> DEFINE base == Base(q, t)
      <3>1. PeriodFor(q, q', Timers, t, base)
        BY <1>2, <2>3, OnAutoIs
      <3>2. base \in Int /\ (phase = "cpu" => q.tsc <= base)
        <4>1. phase = "cpu" => ~q.inCallback[t]
          BY <1>2, InvTypes
        <4>2. phase = "cpu" /\ q.enabled[t] => q.tsc <= q.ts[t]
          BY <1>2 DEF Inv, NothingMissed
        <4>3. q.tsc \in Int /\ q.ts[t] \in Int
          BY InvTypes
        <4>4. ~StartsNow(q, t) /\ phase = "cpu" => q.enabled[t]
          BY <1>2, <4>1 DEF StartsNow
        <4> QED
          BY <4>2, <4>3, <4>4 DEF Base
      <3> HIDE DEF base
      <3>3. /\ q' \in List /\ Listed(q', Timers, {}) /\ q'.inited = q.inited /\ q'.tsc = q.tsc
            /\ q'.enabled = [q.enabled EXCEPT ![t] = TRUE]
            /\ \A u \in Timers : q'.inCallback[u] => q.inCallback[u]
            /\ \A u \in Timers \ {t} :
                 q'.ts[u] = q.ts[u] /\ q'.split[u] = q.split[u] /\ q'.period[u] = q.period[u]
            /\ q'.ts[t] > base
            /\ q'.split[t] => q'.period[t] > 0
            /\ ~q'.split[t] => q'.period[t] = 0
            /\ Soonest(q, Timers, {t}) => Soonest(q', Timers, {})
        BY <3>1 DEF PeriodFor
      <3>4. q'.enabled[t] /\ \A u \in Timers \ {t} : q'.enabled[u] = q.enabled[u]
        BY <3>3, InvTypes
      <3>5. phase = "cpu" => q.tsc <= q'.ts[t]
        <4>1. q'.ts[t] \in Int
          BY <3>3 DEF List
        <4> QED
          BY <3>2, <3>3, <4>1, InvTypes
      <3> QED
        BY <1>1, <1>2, <1>3, <2>1, <3>3, <3>4, <3>5, DeviceInv, ZenonT(40)
    <2>4. CASE Halt(t)
      BY <2>2, <2>4 DEF Halt, Devices
    <2>5. CASE On(t)
      <3>1. PICK p \in 0 .. MaxAuto : q' = OnAuto(q, t, p)
        BY <2>5 DEF On, Devices
      <3>2. p \in Nat
        BY DelayAssumption
      <3>3. CASE p > 0
        BY <2>3, <3>1, <3>2, <3>3
      <3>4. CASE ~(p > 0)
        BY <2>2, <3>1, <3>4 DEF OnAuto
      <3> QED
        BY <3>3, <3>4
    <2> QED
      BY <1>9, <2>4, <2>5
  <1> QED
    BY <1>6, <1>7, <1>8, <1>9

\* timer_add.
LEMMA AddInv ==
    ASSUME Inv, NEW t \in Timers, Add(t)
    PROVE  Inv'
  <1>1. PICK start \in BOOLEAN :
          q' = AddTimer(q, t, start) /\ (t \in Perpetual => start)
    BY DEF Add
  <1>2. /\ phase = "boot" /\ phase' = "boot" /\ t \notin added /\ added' = added \cup {t}
        /\ running' = running /\ running = NoTimer
    BY InvTypes DEF Add
  <1>3. /\ q \in List /\ q.inited /\ Listed(q, added, {}) /\ added \subseteq Timers \ {t}
        /\ NoTimer \notin Timers
    BY <1>2, InvTypes DEF Inv, Settled
  <1>4. AddedTo(q, q', added, t, start)
    BY <1>1, <1>3, AddTimerIs
  <1>5. TypeOK'
    BY <1>2, <1>3, <1>4, InvTypes DEF AddedTo, TypeOK
  <1>6. Listed(q', added', {}) /\ Settled'
    BY <1>2, <1>4 DEF AddedTo, Settled
  <1>7. PerpetualOn'
    BY <1>1, <1>2, <1>4 DEF Inv, PerpetualOn, AddedTo
  <1>8. PartsLeft'
    BY <1>2, <1>4 DEF Inv, PartsLeft, AddedTo
  <1>9. NothingMissed'
    <2>1. Soonest(q, added, {}) /\ \A u \in added : q.enabled[u] => q.tsc <= q.ts[u]
      BY <1>2 DEF Inv, NothingMissed
    <2>2. Soonest(q', added', {})
      BY <1>2, <1>4, <2>1 DEF AddedTo
    <2>3. \A u \in added' : q'.enabled[u] => q'.tsc <= q'.ts[u]
      <3>1. ASSUME NEW u \in added PROVE q'.enabled[u] => q'.tsc <= q'.ts[u]
        BY <1>4, <2>1 DEF AddedTo
      <3>2. q'.enabled[t] => q'.tsc <= q'.ts[t]
        BY <1>4, InvTypes DEF AddedTo
      <3> QED
        BY <1>2, <3>1, <3>2
    <2> QED
      BY <2>2, <2>3 DEF NothingMissed
  <1> QED
    BY <1>5, <1>6, <1>7, <1>8, <1>9 DEF Inv

\* At least two timers are in the list whenever timer_process looks at it.
LEMMA NotAlone ==
    ASSUME Inv, phase \in {"cpu", "process"}
    PROVE  /\ q.head \in Timers /\ q.next[q.head] # NoTimer /\ q.enabled[q.head]
           /\ \A u \in Timers : q.enabled[u] => q.ts[q.head] <= q.ts[u]
  <1>1. added = Timers /\ running = NoTimer /\ NoTimer \notin Timers
    BY InvTypes DEF Inv, Settled
  <1>p. PICK a \in Perpetual : \E b \in Perpetual : a # b
    BY TimerAssumption
  <1>2. PICK b \in Perpetual : a # b
    BY <1>p
  <1>3. a \in Timers /\ b \in Timers /\ q.enabled[a] /\ q.enabled[b]
    BY <1>1, Kinds DEF Inv, PerpetualOn
  <1>4. /\ q.head = NoTimer => \A u \in Timers : ~q.enabled[u]
        /\ q.head # NoTimer =>
             /\ q.head \in Timers /\ q.enabled[q.head]
             /\ \A u \in Timers : q.enabled[u] => q.ts[q.head] <= q.ts[u]
             /\ q.next[q.head] = NoTimer => \A u \in Timers : q.enabled[u] => u = q.head
    <2>1. Listed(q, Timers, {}) /\ q \in List
      BY <1>1, InvTypes DEF Inv
    <2> QED
      BY <2>1, HeadIs
  <1> QED
    BY <1>2, <1>3, <1>4

\* The CPU goes on only while the target lies ahead.
LEMMA AheadInv ==
    ASSUME Inv, phase = "cpu", q' \in List, Listed(q', added, {}), phase' = AtTarget(q'),
           UNCHANGED <<running, added>>, q'.inited = q.inited, q'.head = q.head,
           q'.enabled = q.enabled, q'.split = q.split, q'.period = q.period,
           q'.inCallback = q.inCallback, Soonest(q', added, {})
    PROVE  Inv'
  <1>1. /\ q.head \in Timers /\ added = Timers /\ NoTimer \notin Timers
        /\ q'.tsc \in Int /\ q'.target \in Int /\ q'.ts \in [Timers -> Int]
    BY NotAlone, InvTypes DEF Inv, Settled, List
  <1>2. phase' = IF q'.target <= q'.tsc THEN "process" ELSE "cpu"
    BY <1>1 DEF AtTarget
  <1>3. TypeOK'
    BY <1>2 DEF Inv, TypeOK, Phases
  <1>4. Settled' /\ PerpetualOn' /\ PartsLeft'
    BY <1>2 DEF Inv, Settled, PerpetualOn, PartsLeft
  <1>5. NothingMissed'
    <2> SUFFICES ASSUME phase' \in {"boot", "cpu"}, NEW u \in Timers, q'.enabled[u]
                 PROVE  q'.tsc <= q'.ts[u]
      BY <1>1 DEF NothingMissed
    <2>1. ~(q'.target <= q'.tsc)
      BY <1>2
    <2>2. q'.target <= q'.ts[u] /\ q'.ts[u] \in Int
      BY <1>1 DEF Soonest
    <2> QED
      BY <1>1, <2>1, <2>2
  <1> QED
    BY <1>3, <1>4, <1>5 DEF Inv

LEMMA RunInv ==
    ASSUME Inv, Run
    PROVE  Inv'
  <1>1. PICK n \in 1 .. MaxBlock : q' = [q EXCEPT !.tsc = @ + n]
    BY DEF Run
  <1>2. q.tsc + n \in Int /\ q \in List
    BY InvTypes, DelayAssumption
  <1>3. /\ q' \in List /\ q'.inited = q.inited /\ q'.head = q.head /\ q'.next = q.next
        /\ q'.prev = q.prev /\ q'.enabled = q.enabled /\ q'.split = q.split
        /\ q'.period = q.period /\ q'.inCallback = q.inCallback /\ q'.ts = q.ts
        /\ q'.target = q.target
    BY <1>1, <1>2 DEF List
  <1>4. Listed(q', added, {})
    BY <1>3, ListedSame DEF Inv
  <1>5. Soonest(q', added, {})
    BY <1>3 DEF Run, Inv, NothingMissed, Soonest
  <1> QED
    BY <1>3, <1>4, <1>5, AheadInv DEF Run

LEMMA WriteTscInv ==
    ASSUME Inv, WriteTsc
    PROVE  Inv'
  <1>1. PICK n \in 0 .. MaxTsc : q' = NewTsc(q, n)
    BY DEF WriteTsc
  <1>2. n \in Int /\ q \in List /\ added \subseteq Timers /\ Listed(q, added, {})
    BY DelayAssumption, InvTypes DEF Inv
  <1>3. /\ q' \in List /\ Listed(q', added, {})
        /\ q'.tsc = n /\ q'.inited = q.inited /\ q'.head = q.head
        /\ q'.enabled = q.enabled /\ q'.split = q.split
        /\ q'.period = q.period /\ q'.inCallback = q.inCallback
        /\ \A u \in added : q.enabled[u] => q'.ts[u] = n + (q.ts[u] - q.tsc)
        /\ q.head # NoTimer => q'.target = n + (q.ts[q.head] - q.tsc)
    <2>1. /\ NewTsc(q, n) \in List /\ Listed(NewTsc(q, n), added, {})
          /\ NewTsc(q, n).tsc = n /\ NewTsc(q, n).inited = q.inited
          /\ NewTsc(q, n).head = q.head
          /\ NewTsc(q, n).enabled = q.enabled /\ NewTsc(q, n).split = q.split
          /\ NewTsc(q, n).period = q.period /\ NewTsc(q, n).inCallback = q.inCallback
          /\ \A u \in added : q.enabled[u] => NewTsc(q, n).ts[u] = n + (q.ts[u] - q.tsc)
          /\ q.head # NoTimer => NewTsc(q, n).target = n + (q.ts[q.head] - q.tsc)
      BY <1>2, NewTscIs
    <2> QED
      BY <1>1, <2>1
  <1>4. /\ phase = "cpu" /\ phase' = AtTarget(q') /\ UNCHANGED <<running, added>>
    BY DEF WriteTsc
  <1>5. /\ q.head \in Timers /\ NoTimer \notin Timers
        /\ \A u \in Timers : q.enabled[u] => q.ts[q.head] <= q.ts[u]
    BY <1>4, NotAlone, InvTypes
  <1>6. Soonest(q', added, {})
    <2> SUFFICES ASSUME NEW u \in added, q'.enabled[u] PROVE q'.target <= q'.ts[u]
      BY DEF Soonest
    <2>1. q.ts[q.head] \in Int /\ q.ts[u] \in Int /\ q.tsc \in Int /\ u \in Timers
      BY <1>2, <1>5, InvTypes
    <2>2. q'.ts[u] = n + (q.ts[u] - q.tsc) /\ q'.target = n + (q.ts[q.head] - q.tsc)
      BY <1>3, <1>5
    <2>3. q.ts[q.head] <= q.ts[u]
      BY <1>3, <1>5, <2>1
    <2> QED
      BY <1>2, <2>1, <2>2, <2>3
  <1> QED
    BY <1>3, <1>4, <1>6, AheadInv

\* The head of a list that timer_process takes apart.
LEMMA DueIs ==
    ASSUME Inv, Due
    PROVE  /\ q.head \in Timers /\ q.next[q.head] # NoTimer /\ q.enabled[q.head]
           /\ added = Timers /\ running = NoTimer /\ phase = "process" /\ q.inited
           /\ RemoveHead(q) \in List /\ SameTimes(q, RemoveHead(q))
           /\ RemoveHead(q).enabled = [q.enabled EXCEPT ![q.head] = FALSE]
           /\ RemoveHead(q).inCallback = q.inCallback
           /\ Listed(RemoveHead(q), Timers, {})
  <1>1. /\ q.head \in Timers /\ q.next[q.head] # NoTimer /\ q.enabled[q.head]
        /\ added = Timers /\ running = NoTimer /\ phase = "process" /\ q.inited
        /\ Listed(q, Timers, {}) /\ q \in List /\ q.head # NoTimer
    BY NotAlone, InvTypes DEF Due, Inv, Settled
  <1> QED
    BY <1>1, RemoveHeadIs

LEMMA PartInv ==
    ASSUME Inv, ProcessPart
    PROVE  Inv'
  <1> DEFINE l == RemoveHead(q)
             t == q.head
  <1>1. Due /\ q.split[t]
    BY DEF ProcessPart
  <1>2. /\ t \in Timers /\ q.next[t] # NoTimer /\ added = Timers /\ running = NoTimer
        /\ phase = "process" /\ q.inited
        /\ l \in List /\ SameTimes(q, l) /\ l.enabled = [q.enabled EXCEPT ![t] = FALSE]
        /\ l.inCallback = q.inCallback /\ Listed(l, Timers, {})
    BY <1>1, DueIs
  <1>3. q' = AdvanceEx(l, t, FALSE) /\ UNCHANGED <<phase, running, added>>
    BY <1>2 DEF ProcessPart
  <1>4. q.period[t] > 0 /\ t \in Periodic /\ t \notin Perpetual
    BY <1>1, <1>2, Kinds DEF Inv, PartsLeft
  <1> HIDE DEF l, t
  <1>5. PeriodFor(l, q', Timers, t, l.ts[t])
    <2>1. l.inited /\ l.period[t] > 0 /\ FALSE \in BOOLEAN
      BY <1>2, <1>4 DEF SameTimes
    <2> QED
      BY <1>2, <1>3, <2>1, AdvanceExIs
  <1>6. /\ q' \in List /\ Listed(q', Timers, {}) /\ q'.inited
        /\ q'.enabled = [l.enabled EXCEPT ![t] = TRUE]
        /\ \A u \in Timers : q'.inCallback[u] => q.inCallback[u]
        /\ \A u \in Timers \ {t} : q'.split[u] = q.split[u] /\ q'.period[u] = q.period[u]
        /\ q'.split[t] => q'.period[t] > 0
        /\ ~q'.split[t] => q'.period[t] = 0
    BY <1>2, <1>5 DEF PeriodFor, SameTimes
  <1>7. q'.enabled[t] /\ \A u \in Timers \ {t} : q'.enabled[u] = q.enabled[u]
    BY <1>2, <1>6, InvTypes
  <1>8. TypeOK' /\ Settled' /\ NothingMissed'
    BY <1>2, <1>3, <1>6 DEF Inv, TypeOK, Settled, NothingMissed
  <1>9. PerpetualOn'
    <2> SUFFICES ASSUME NEW u \in Perpetual PROVE q'.enabled[u]
      BY <1>2, <1>3, Kinds DEF PerpetualOn
    <2>1. u \in Timers \ {t} /\ q.enabled[u]
      BY <1>2, <1>4, Kinds, InvTypes DEF Inv, PerpetualOn
    <2> QED
      BY <1>7, <2>1
  <1>10. PartsLeft'
    <2> SUFFICES ASSUME NEW u \in Timers
                 PROVE  /\ q'.split[u] => u \in Periodic /\ q'.period[u] > 0 /\ q'.enabled[u]
                        /\ ~q'.split[u] => q'.period[u] = 0
                        /\ q'.inCallback[u] => u = running
      BY <1>2, <1>3 DEF PartsLeft
    <2>1. /\ q.split[u] => u \in Periodic /\ q.period[u] > 0 /\ q.enabled[u]
          /\ ~q.split[u] => q.period[u] = 0
          /\ q.inCallback[u] => u = running
      BY <1>2 DEF Inv, PartsLeft
    <2>2. CASE u = t
      BY <1>4, <1>6, <1>7, <2>1, <2>2
    <2>3. CASE u # t
      BY <1>6, <1>7, <2>1, <2>3
    <2> QED
      BY <2>2, <2>3
  <1> QED
    BY <1>2, <1>3, <1>6, <1>8, <1>9, <1>10 DEF Inv

\* What remains of timer_process, and the way back from a callback.
LEMMA CallInv ==
    ASSUME Inv, ProcessCall
    PROVE  Inv'
  <1> DEFINE l == RemoveHead(q)
             t == q.head
  <1>1. Due /\ ~q.split[t]
    BY DEF ProcessCall
  <1>2. /\ t \in Timers /\ q.next[t] # NoTimer /\ added = Timers /\ running = NoTimer
        /\ phase = "process" /\ q.inited
        /\ l \in List /\ SameTimes(q, l) /\ l.enabled = [q.enabled EXCEPT ![t] = FALSE]
        /\ l.inCallback = q.inCallback /\ Listed(l, Timers, {})
    BY <1>1, DueIs
  <1>3. /\ q' = [l EXCEPT !.inCallback[t] = TRUE]
        /\ phase' = "callback" /\ running' = t /\ added' = added
    BY <1>2 DEF ProcessCall
  <1> HIDE DEF l, t
  <1>4. /\ q'.inCallback = [q.inCallback EXCEPT ![t] = TRUE]
        /\ q'.enabled = l.enabled /\ q'.head = l.head /\ q'.next = l.next /\ q'.prev = l.prev
        /\ q'.ts = l.ts /\ q'.split = l.split /\ q'.period = l.period /\ q'.inited = l.inited
        /\ q' = [l EXCEPT !.inCallback = q'.inCallback]
    BY <1>2, <1>3 DEF List
  <1>5. q'.inCallback \in [Timers -> BOOLEAN]
    BY <1>2, <1>4, InvTypes
  <1>6. q' \in List
    BY <1>2, <1>4, <1>5 DEF List
  <1>7. Listed(q', Timers, {})
    BY <1>2, <1>4, ListedSame
  <1>8. q'.split = q.split /\ q'.period = q.period /\ q'.inited
    BY <1>2, <1>4 DEF SameTimes
  <1>9. TypeOK' /\ Settled' /\ NothingMissed'
    BY <1>2, <1>3, <1>6, <1>8, InvTypes DEF TypeOK, Phases, Link, Settled, NothingMissed
  <1>10. \A u \in Timers \ {t} : q'.enabled[u] = q.enabled[u] /\ q'.inCallback[u] = q.inCallback[u]
    BY <1>2, <1>4, InvTypes
  <1>11. PerpetualOn'
    BY <1>2, <1>3, <1>10, Kinds, InvTypes DEF Inv, PerpetualOn
  <1>12. PartsLeft'
    <2> SUFFICES ASSUME NEW u \in Timers
                 PROVE  /\ q'.split[u] => u \in Periodic /\ q'.period[u] > 0 /\ q'.enabled[u]
                        /\ ~q'.split[u] => q'.period[u] = 0
                        /\ q'.inCallback[u] => u = t
      BY <1>2, <1>3 DEF PartsLeft
    <2>1. /\ q.split[u] => u \in Periodic /\ q.period[u] > 0 /\ q.enabled[u]
          /\ ~q.split[u] => q.period[u] = 0
          /\ ~q.inCallback[u]
      BY <1>2, InvTypes DEF Inv, PartsLeft
    <2>2. CASE u = t
      BY <1>1, <1>8, <2>1, <2>2 DEF t
    <2>3. CASE u # t
      BY <1>8, <1>10, <2>1, <2>3
    <2> QED
      BY <2>2, <2>3
  <1> QED
    BY <1>2, <1>3, <1>7, <1>9, <1>11, <1>12 DEF Inv

LEMMA EndInv ==
    ASSUME Inv, ProcessEnd
    PROVE  Inv'
  <1>1. /\ q.head \in Timers /\ added = Timers /\ NoTimer \notin Timers /\ running = NoTimer
        /\ \A u \in Timers : q.enabled[u] => q.ts[q.head] <= q.ts[u]
    BY NotAlone, InvTypes DEF ProcessEnd, Inv, Settled
  <1>2. /\ q.ts[q.head] > q.tsc /\ q' = [q EXCEPT !.target = q.ts[q.head]]
        /\ phase = "process" /\ phase' = "cpu" /\ UNCHANGED <<running, added>>
    BY <1>1 DEF ProcessEnd
  <1>3. q.ts[q.head] \in Int /\ q \in List
    BY <1>1, InvTypes
  <1>4. /\ q' \in List /\ q'.inited = q.inited /\ q'.head = q.head /\ q'.next = q.next
        /\ q'.prev = q.prev /\ q'.enabled = q.enabled /\ q'.split = q.split
        /\ q'.period = q.period /\ q'.inCallback = q.inCallback /\ q'.ts = q.ts
        /\ q'.target = q.ts[q.head] /\ q'.tsc = q.tsc
    BY <1>2, <1>3 DEF List
  <1>5. Listed(q', added, {})
    BY <1>4, ListedSame DEF Inv
  <1>6. TypeOK' /\ Settled' /\ PerpetualOn' /\ PartsLeft'
    BY <1>1, <1>2, <1>4 DEF Inv, TypeOK, Phases, Settled, PerpetualOn, PartsLeft
  <1>7. NothingMissed'
    <2>1. \A u \in Timers : q.enabled[u] => q.tsc <= q.ts[u]
      BY <1>1, <1>2, <1>3, InvTypes
    <2> QED
      BY <1>1, <1>2, <1>4, <2>1 DEF NothingMissed, Soonest
  <1> QED
    BY <1>2, <1>5, <1>6, <1>7 DEF Inv

LEMMA ReturnInv ==
    ASSUME Inv, CallbackReturns
    PROVE  Inv'
  <1>1. /\ phase = "callback" /\ phase' = "process" /\ running' = NoTimer /\ added' = added
        /\ running \in Perpetual => q.enabled[running]
        /\ q' = [q EXCEPT !.inCallback[running] = FALSE]
    BY DEF CallbackReturns
  <1>2. running \in Timers /\ added = Timers /\ q \in List
    BY <1>1, InvTypes DEF Inv, Settled, Link
  <1>3. /\ q'.inCallback = [q.inCallback EXCEPT ![running] = FALSE]
        /\ q'.enabled = q.enabled /\ q'.head = q.head /\ q'.next = q.next /\ q'.prev = q.prev
        /\ q'.ts = q.ts /\ q'.split = q.split /\ q'.period = q.period /\ q'.inited = q.inited
        /\ q' = [q EXCEPT !.inCallback = q'.inCallback]
    BY <1>1, <1>2 DEF List
  <1>4. /\ q'.inCallback \in [Timers -> BOOLEAN]
        /\ \A u \in Timers : q'.inCallback[u] => q.inCallback[u] /\ u # running
    BY <1>2, <1>3, InvTypes
  <1>5. q' \in List
    BY <1>2, <1>3, <1>4 DEF List
  <1>6. Listed(q', Timers, {})
    BY <1>2, <1>3, ListedSame DEF Inv
  <1>7. TypeOK' /\ Settled' /\ NothingMissed'
    BY <1>1, <1>2, <1>3, <1>5 DEF Inv, TypeOK, Phases, Link, Settled, NothingMissed
  <1>8. PerpetualOn' /\ PartsLeft'
    BY <1>1, <1>2, <1>3, <1>4, Kinds DEF Inv, PerpetualOn, PartsLeft
  <1> QED
    BY <1>1, <1>2, <1>6, <1>7, <1>8 DEF Inv

\* Boot, hard reset and power on.
LEMMA PowerInv ==
    ASSUME Inv, Booted \/ HardReset \/ PowerOn \/ UNCHANGED vars
    PROVE  Inv'
  <1>1. q \in List
    BY InvTypes
  <1>2. CASE Booted
    <2>1. UNCHANGED <<q, running, added>> /\ phase = "boot" /\ phase' = "cpu" /\ added = Timers
      BY <1>2 DEF Booted
    <2>2. Listed(q', added', {})
      BY <2>1 DEF Inv
    <2> QED
      BY <2>1, <2>2 DEF Inv, TypeOK, Phases, Settled, PerpetualOn, PartsLeft, NothingMissed, Soonest
  <1>3. CASE UNCHANGED vars
    <2>1. UNCHANGED <<q, phase, running, added>>
      BY <1>3 DEF vars
    <2>2. Listed(q', added', {})
      BY <2>1 DEF Inv
    <2> QED
      BY <2>1, <2>2 DEF Inv, TypeOK, Settled, PerpetualOn, PartsLeft, NothingMissed, Soonest
  <1>4. ASSUME q' \in List, q'.head = NoTimer, added' = {}, running' = NoTimer,
               phase' \in {"off", "boot"}, q'.inited <=> phase' # "off"
        PROVE  Inv'
    <2>1. Listed(q', {}, {})
      <3> DEFINE s == [i \in 1 .. 0 |-> NoTimer]
      <3>1. 0 \in Nat /\ s \in [1 .. 0 -> {}]
        OBVIOUS
      <3>2. Linked(q', {}, 0, s) /\ InOrder(q', 0, s, {})
        BY <1>4 DEF Linked, InOrder
      <3> HIDE DEF s
      <3> QED
        BY <3>1, <3>2 DEF Listed
    <2>2. TypeOK' /\ Settled' /\ PerpetualOn' /\ PartsLeft' /\ NothingMissed'
      BY <1>4, InvTypes DEF TypeOK, Phases, Link, Settled, PerpetualOn, PartsLeft, NothingMissed,
                            Soonest
    <2> QED
      BY <1>4, <2>1, <2>2 DEF Inv
  <1>5. CASE HardReset
    <2>1. /\ phase = "cpu" /\ q' = Close(q) /\ phase' = "off" /\ added' = {}
          /\ running' = running /\ running = NoTimer
      BY <1>5, InvTypes DEF HardReset
    <2>2. q' = [[q EXCEPT !.next[q.head] = NoTimer, !.prev[q.head] = NoTimer]
                  EXCEPT !.head = NoTimer, !.inited = FALSE]
      BY <2>1, NotAlone, InvTypes DEF Close
    <2> DEFINE x == [q.next EXCEPT ![q.head] = NoTimer]
               p == [q.prev EXCEPT ![q.head] = NoTimer]
    <2>3. q' = [q EXCEPT !.next = x, !.prev = p, !.head = NoTimer, !.inited = FALSE]
      BY <1>1, <2>2 DEF List
    <2>4. x \in [Timers -> Link] /\ p \in [Timers -> Link]
      BY <1>1 DEF List, Link
    <2> HIDE DEF x, p
    <2>5. q' \in List /\ q'.head = NoTimer /\ ~q'.inited
      BY <1>1, <2>3, <2>4 DEF List, Link
    <2> QED
      BY <1>4, <2>1, <2>5
  <1>6. CASE PowerOn
    <2>1. /\ phase = "off" /\ q' = [q EXCEPT !.tsc = 0, !.target = 0, !.inited = TRUE]
          /\ phase' = "boot" /\ UNCHANGED <<running, added>>
      BY <1>6 DEF PowerOn
    <2>2. added = {} /\ running = NoTimer
      BY <2>1, InvTypes DEF Inv, Settled
    <2>3. /\ q'.head = q.head /\ q'.inited /\ q'.enabled = q.enabled
          /\ q'.next = q.next /\ q'.prev = q.prev /\ q'.ts = q.ts
      BY <1>1, <2>1 DEF List
    <2>6. q' \in List
      <3>1. ASSUME NEW g \in Int, NEW b \in BOOLEAN
            PROVE  [q EXCEPT !.tsc = g, !.target = g, !.inited = b] \in List
        BY <1>1 DEF List
      <3>2. 0 \in Int /\ TRUE \in BOOLEAN
        OBVIOUS
      <3> QED
        BY <2>1, <3>1, <3>2, Zenon
    <2>4. Listed(q', added', {})
      BY <2>1, <2>3, ListedSame DEF Inv
    <2>5. TypeOK' /\ Settled' /\ PerpetualOn' /\ PartsLeft' /\ NothingMissed'
      BY <2>1, <2>2, <2>3, <2>6, InvTypes DEF TypeOK, Phases, Link, Settled, PerpetualOn,
                                              PartsLeft, NothingMissed, Soonest
    <2> QED
      BY <2>4, <2>5 DEF Inv
  <1> QED
    BY <1>2, <1>3, <1>5, <1>6

LEMMA NextInv ==
    ASSUME Inv, [Next]_vars
    PROVE  Inv'
  <1>1. ASSUME NEW t \in Timers,
               Add(t) \/ Delay(t) \/ Resume(t) \/ Cease(t) \/ On(t) \/ Halt(t)
        PROVE  Inv'
    BY <1>1, AddInv, CallsInv
  <1>2. ASSUME Run \/ ProcessPart \/ ProcessCall \/ ProcessEnd \/ CallbackReturns \/ WriteTsc
        PROVE  Inv'
    BY <1>2, RunInv, PartInv, CallInv, EndInv, ReturnInv, WriteTscInv
  <1> QED
    BY <1>1, <1>2, PowerInv DEF Next

\* The list from the head holds exactly the enabled timers, soonest first; the
\* target is never late; and what is known of a split period.
THEOREM InvHolds == Spec => []Inv
  <1>1. Inv /\ [Next]_vars => Inv'
    BY NextInv
  <1> QED
    BY InitInv, <1>1, PTL DEF Spec

\* Every variable keeps its type, and timer_remove_head never meets the last
\* timer of the list.
THEOREM TypeSafe == Spec => []TypeOK
  <1>1. Inv => TypeOK
    BY DEF Inv
  <1> QED
    BY InvHolds, <1>1, PTL

\* A sequence of timers is what the walk from the head finds.
LEMMA ListedOK == Inv => ListOK
  <1> SUFFICES ASSUME Inv PROVE ListOK
    OBVIOUS
  <1> DEFINE on == {t \in added : q.enabled[t]}
  <1>1. q \in List /\ added \subseteq Timers /\ NoTimer \notin Timers
    BY InvTypes
  <1>n. PICK n \in Nat :
          \E s \in [1 .. n -> added] : Linked(q, added, n, s) /\ InOrder(q, n, s, {})
    BY DEF Inv, Listed
  <1>2. PICK s \in [1 .. n -> added] : Linked(q, added, n, s) /\ InOrder(q, n, s, {})
    BY <1>n
  <1>3. n <= Cardinality(Timers) /\ Cardinality(Timers) \in Nat /\ Chain(q) = Listing(n, s)
    BY <1>1, <1>2, ChainIs
  <1>4. {Chain(q)[i] : i \in DOMAIN Chain(q)} = on \cup {NoTimer}
    <2> DEFINE N == Cardinality(Timers)
    <2>1. /\ DOMAIN Chain(q) = 1 .. N + 1
          /\ \A i \in 1 .. N + 1 : Chain(q)[i] = IF i <= n THEN s[i] ELSE NoTimer
      BY <1>3 DEF Listing
    <2>2. \A i \in 1 .. n : i \in 1 .. N + 1 /\ s[i] \in on
      BY <1>2, <1>3 DEF Linked
    <2>3. N + 1 \in 1 .. N + 1 /\ ~(N + 1 <= n)
      BY <1>3
    <2>4. \A t \in on : \E i \in 1 .. n : s[i] = t
      BY <1>2 DEF Linked
    <2>5. ASSUME NEW i \in 1 .. N + 1 PROVE Chain(q)[i] \in on \cup {NoTimer}
      <3>1. CASE i <= n
        <4>1. i \in 1 .. n
          BY <1>3, <3>1
        <4> QED
          BY <2>1, <2>2, <3>1, <4>1
      <3>2. CASE ~(i <= n)
        BY <2>1, <3>2
      <3> QED
        BY <3>1, <3>2
    <2>6. ASSUME NEW t \in on \cup {NoTimer} PROVE \E i \in 1 .. N + 1 : Chain(q)[i] = t
      <3>1. CASE t = NoTimer
        BY <2>1, <2>3, <3>1
      <3>2. CASE t \in on
        <4>1. PICK i \in 1 .. n : s[i] = t
          BY <2>4, <3>2
        <4>2. i <= n /\ i \in 1 .. N + 1
          BY <2>2
        <4> QED
          BY <2>1, <4>1, <4>2
      <3> QED
        BY <3>1, <3>2
    <2> HIDE DEF N, on
    <2> QED
      BY <2>1, <2>5, <2>6
  <1>5. q.head # NoTimer => q.prev[q.head] = NoTimer
    BY <1>1, HeadIs DEF Inv
  <1>6. ASSUME NEW t \in on, q.next[t] # NoTimer
        PROVE  q.prev[q.next[t]] = t /\ q.ts[t] <= q.ts[q.next[t]]
    <2>1. PICK i \in 1 .. n : s[i] = t
      BY <1>2 DEF Linked
    <2>2. i # n /\ q.next[t] = s[i + 1]
      BY <1>2, <1>6, <2>1 DEF Linked
    <2>3. i + 1 \in 1 .. n /\ i + 1 # 1 /\ i + 1 - 1 = i /\ i < i + 1
      BY <2>2
    <2>4. q.prev[s[i + 1]] = s[i]
      BY <1>2, <2>3 DEF Linked
    <2>5. q.ts[s[i]] <= q.ts[s[i + 1]]
      BY <1>2, <2>3 DEF InOrder
    <2> QED
      BY <2>1, <2>2, <2>4, <2>5
  <1>7. \A t \in added \ on : q.next[t] = NoTimer /\ q.prev[t] = NoTimer
    BY <1>2 DEF Linked
  <1> QED
    BY <1>4, <1>5, <1>6, <1>7 DEF ListOK

\* Whatever the devices call, and from whichever callback: the list from the
\* head holds exactly the enabled timers, soonest first, prev undoes next, and a
\* timer outside it has no links.
THEOREM ListSafe == Spec => []ListOK
  BY InvHolds, ListedOK, PTL

\* The target is never later than the soonest timer while the CPU runs.
THEOREM TargetSafe == Spec => []TargetNotLate
  <1>1. Inv => TargetNotLate
    BY DEF Inv, NothingMissed, Soonest, TargetNotLate
  <1> QED
    BY InvHolds, <1>1, PTL

-----------------------------------------------------------------------------
(* The list implements the alarm clock.  One lemma for each kind of step    *)
(* says what it takes of the enabled timers and their deadlines.            *)

Armed == {u \in added : q.enabled[u]}
SameClock == q'.tsc = q.tsc /\ running' = running
SameDeadlines(S) == \A u \in S : Deadline(u)' = Deadline(u)
AlarmStutter == UNCHANGED <<q.tsc, [t \in Armed |-> Deadline(t)], running>>

LEMMA StutterIs ==
    ASSUME SameClock, Armed' = Armed, SameDeadlines(Armed)
    PROVE  AlarmStutter
  BY DEF SameClock, SameDeadlines, AlarmStutter

LEMMA SetsAlarm ==
    ASSUME NEW t, SameClock, Armed' = Armed \cup {t}, SameDeadlines(Armed \ {t}),
           Deadline(t)' \in Int, t \in Armed \/ t = running \/ Deadline(t)' >= q.tsc
    PROVE  Alarms!Set(t)
  BY DEF SameClock, SameDeadlines, Armed, Alarms!Set, Alarms!Armed

LEMMA CancelsAlarm ==
    ASSUME NEW t, SameClock, t \in Armed, Armed' = Armed \ {t}, SameDeadlines(Armed \ {t})
    PROVE  Alarms!Cancel(t)
  BY DEF SameClock, SameDeadlines, Armed, Alarms!Cancel, Alarms!Armed

LEMMA RingsAlarm ==
    ASSUME NEW t, q'.tsc = q.tsc, running = NoTimer, running' = t, t \in Armed,
           Armed' = Armed \ {t}, SameDeadlines(Armed \ {t}),
           Deadline(t) <= q.tsc, \A u \in Armed : Deadline(t) <= Deadline(u)
    PROVE  Alarms!Ring(t)
  BY DEF SameDeadlines, Armed, Alarms!Ring, Alarms!Armed

LEMMA DeadlineInt ==
    ASSUME Inv
    PROVE  /\ q.tsc \in Int /\ Armed \subseteq Timers
           /\ \A t \in Timers : q.ts[t] \in Int /\ Deadline(t) \in Int /\ Deadline(t) >= q.ts[t]
  BY InvTypes DEF Armed, Deadline

LEMMA CallsSet ==
    ASSUME Inv, NEW t \in Timers, Delay(t) \/ Resume(t)
    PROVE  Alarms!Set(t)
  <1>1. phase \in {"cpu", "callback"} /\ UNCHANGED <<phase, running, added>> /\ ~q.split[t]
    BY DEF Delay, Resume, Devices
  <1>2. added = Timers /\ q.inited /\ Listed(q, Timers, {}) /\ q \in List
    BY <1>1, InvTypes DEF Inv, Settled
  <1>3. \E x \in Int : /\ SetFor(q, q', Timers, t, x) /\ q'.split = q.split
                       /\ q'.period = q.period /\ (t = running \/ x >= q.tsc)
    <2>1. CASE Delay(t)
      <3>1. PICK d \in 1 .. MaxDelay : q' = SetDelay(q, t, d)
        BY <2>1 DEF Delay, Devices
      <3>2. d \in Nat /\ d < Half /\ q.tsc + d \in Int /\ q.tsc + d >= q.tsc
        BY DelayAssumption, InvTypes
      <3>3. SetFor(q, q', Timers, t, q.tsc + d) /\ q'.split = q.split /\ q'.period = q.period
        BY <1>2, <3>1, <3>2, DelayIs
      <3> QED
        BY <3>2, <3>3
    <2>2. CASE Resume(t)
      <3>1. PICK d \in 1 .. MaxDelay : q' = Advance(q, t, d) /\ t = running
        BY <2>2 DEF Resume, Devices
      <3>2. d \in Nat /\ d < Half /\ q.ts[t] + d \in Int
        BY DelayAssumption, InvTypes
      <3>3. SetFor(q, q', Timers, t, q.ts[t] + d) /\ q'.split = q.split /\ q'.period = q.period
        <4>1. d \in Nat /\ d < Half /\ q.inited /\ Listed(q, Timers, {}) /\ q \in List
          BY <1>2, <3>2
        <4>2. /\ SetFor(q, Advance(q, t, d), Timers, t, q.ts[t] + d)
              /\ Advance(q, t, d).split = q.split /\ Advance(q, t, d).period = q.period
          BY <4>1, DelayIs
        <4> QED
          BY <3>1, <4>2
      <3> QED
        BY <3>1, <3>2, <3>3
    <2> QED
      BY <2>1, <2>2
  <1>4. PICK x \in Int : /\ SetFor(q, q', Timers, t, x) /\ q'.split = q.split
                         /\ q'.period = q.period /\ (t = running \/ x >= q.tsc)
    BY <1>3
  <1>5. /\ q'.tsc = q.tsc /\ q'.ts[t] = x /\ q'.enabled[t]
        /\ \A u \in Timers \ {t} : q'.ts[u] = q.ts[u] /\ q'.enabled[u] = q.enabled[u]
    BY <1>4, InvTypes DEF SetFor
  <1>6. SameClock /\ Armed' = Armed \cup {t}
    BY <1>1, <1>2, <1>5 DEF SameClock, Armed
  <1>7. SameDeadlines(Armed \ {t})
    BY <1>2, <1>4, <1>5 DEF SameDeadlines, Armed, Deadline
  <1>8. Deadline(t)' = x
    BY <1>1, <1>4, <1>5 DEF Deadline
  <1> QED
    BY <1>4, <1>6, <1>7, <1>8, SetsAlarm

\* A timer that is taken out of the list.
LEMMA TakenOut ==
    ASSUME Inv, NEW t \in Timers, phase \in {"cpu", "callback"},
           UNCHANGED <<phase, running, added>>, q'.tsc = q.tsc, q'.ts = q.ts,
           q'.enabled = [q.enabled EXCEPT ![t] = FALSE],
           \A u \in Timers \ {t} : q'.split[u] = q.split[u] /\ q'.period[u] = q.period[u]
    PROVE  Alarms!Cancel(t) \/ AlarmStutter
  <1>1. added = Timers /\ SameClock
    BY DEF Inv, Settled, SameClock
  <1>2. ~q'.enabled[t] /\ \A u \in Timers \ {t} : q'.enabled[u] = q.enabled[u]
    BY InvTypes
  <1>3. Armed' = Armed \ {t}
    BY <1>1, <1>2 DEF Armed
  <1>4. SameDeadlines(Armed \ {t})
    BY <1>1 DEF SameDeadlines, Armed, Deadline
  <1>5. CASE t \in Armed
    BY <1>1, <1>3, <1>4, <1>5, CancelsAlarm
  <1>6. CASE t \notin Armed
    <2>1. Armed \ {t} = Armed
      BY <1>6
    <2> QED
      BY <1>1, <1>3, <1>4, <2>1, StutterIs
  <1> QED
    BY <1>5, <1>6

LEMMA CallsCancel ==
    ASSUME Inv, NEW t \in Timers, Cease(t) \/ Halt(t)
    PROVE  Alarms!Cancel(t) \/ AlarmStutter
  <1>1. phase \in {"cpu", "callback"} /\ UNCHANGED <<phase, running, added>>
    BY DEF Cease, Halt, Devices
  <1>2. added = Timers /\ q.inited /\ Listed(q, Timers, {}) /\ q \in List
    BY <1>1, InvTypes DEF Inv, Settled
  <1>3. CASE Cease(t)
    <2>1. q' = Disable(q, t)
      BY <1>3 DEF Cease, Devices
    <2>2. Listed(q, Timers, {t})
      BY <1>2, ListedBut
    <2>3. SameTimes(q, q') /\ q'.enabled = [q.enabled EXCEPT ![t] = FALSE]
      BY <1>2, <2>1, <2>2, DisableIs, ZenonT(40)
    <2> QED
      BY <1>1, <2>3, TakenOut DEF SameTimes
  <1>4. CASE Halt(t)
    <2>1. StoppedFor(q, q', Timers, t)
      BY <1>2, <1>4, StopIs DEF Halt, Devices
    <2> QED
      BY <1>1, <2>1, TakenOut DEF StoppedFor
  <1> QED
    BY <1>3, <1>4

LEMMA CallsOn ==
    ASSUME Inv, NEW t \in Timers, On(t)
    PROVE  Alarms!Set(t) \/ Alarms!Cancel(t) \/ AlarmStutter
  <1>1. phase \in {"cpu", "callback"} /\ UNCHANGED <<phase, running, added>>
    BY DEF On, Devices
  <1>2. added = Timers /\ q.inited /\ Listed(q, Timers, {}) /\ q \in List
    BY <1>1, InvTypes DEF Inv, Settled
  <1>3. PICK p \in 0 .. MaxAuto : q' = OnAuto(q, t, p)
    BY DEF On, Devices
  <1>4. p \in Nat
    BY DelayAssumption
  <1>5. CASE ~(p > 0)
    <2>1. q' = StopTimer(q, t)
      BY <1>3, <1>5 DEF OnAuto
    <2>2. StoppedFor(q, q', Timers, t)
      BY <1>2, <2>1, StopIs
    <2> QED
      BY <1>1, <2>2, TakenOut DEF StoppedFor
  <1>6. CASE p > 0
    <2> DEFINE base == Base(q, t)
    <2>1. PeriodFor(q, q', Timers, t, base) /\ Deadlines(q', t) = base + p
      BY <1>2, <1>3, <1>4, <1>6, OnAutoIs
    <2>2. base \in Int /\ (t \in Armed \/ t = running \/ base = q.tsc)
      <3>1. q.inCallback[t] => t = running
        BY <1>2 DEF Inv, PartsLeft
      <3>2. q.period[t] # 0 => q.enabled[t]
        BY <1>2 DEF Inv, PartsLeft
      <3> QED
        BY <1>2, <3>1, <3>2, InvTypes DEF Base, StartsNow, Armed
    <2> HIDE DEF base
    <2>3. /\ q'.tsc = q.tsc /\ q'.enabled = [q.enabled EXCEPT ![t] = TRUE]
          /\ \A u \in Timers \ {t} :
               q'.ts[u] = q.ts[u] /\ q'.split[u] = q.split[u] /\ q'.period[u] = q.period[u]
      BY <2>1 DEF PeriodFor
    <2>4. q'.enabled[t] /\ \A u \in Timers \ {t} : q'.enabled[u] = q.enabled[u]
      BY <2>3, InvTypes
    <2>5. SameClock /\ Armed' = Armed \cup {t}
      BY <1>1, <1>2, <2>3, <2>4 DEF SameClock, Armed
    <2>6. SameDeadlines(Armed \ {t})
      BY <1>2, <2>3, <2>4 DEF SameDeadlines, Armed, Deadline
    <2>7. Deadline(t)' = base + p
      BY <2>1 DEF Deadline, Deadlines
    <2>8. base + p \in Int /\ (base = q.tsc => base + p >= q.tsc)
      BY <1>4, <2>2
    <2> QED
      BY <2>2, <2>5, <2>6, <2>7, <2>8, SetsAlarm
  <1> QED
    BY <1>5, <1>6

\* The next part of a split period does not show.
LEMMA PartStutters ==
    ASSUME Inv, ProcessPart
    PROVE  AlarmStutter
  <1> DEFINE l == RemoveHead(q)
             t == q.head
  <1>1. Due /\ q.split[t]
    BY DEF ProcessPart
  <1>2. /\ t \in Timers /\ q.next[t] # NoTimer /\ q.enabled[t] /\ added = Timers /\ q.inited
        /\ l \in List /\ SameTimes(q, l) /\ l.enabled = [q.enabled EXCEPT ![t] = FALSE]
        /\ Listed(l, Timers, {})
    BY <1>1, DueIs
  <1>3. q' = AdvanceEx(l, t, FALSE) /\ UNCHANGED <<phase, running, added>>
    BY <1>2 DEF ProcessPart
  <1>4. q.period[t] > 0
    BY <1>1, <1>2 DEF Inv, PartsLeft
  <1> HIDE DEF l, t
  <1>5. PeriodFor(l, q', Timers, t, l.ts[t]) /\ Deadlines(q', t) = l.ts[t] + l.period[t]
    <2>1. l.inited /\ l.period[t] > 0 /\ FALSE \in BOOLEAN
      BY <1>2, <1>4 DEF SameTimes
    <2> QED
      BY <1>2, <1>3, <2>1, AdvanceExIs
  <1>6. /\ q'.tsc = q.tsc /\ q'.enabled = [l.enabled EXCEPT ![t] = TRUE]
        /\ \A u \in Timers \ {t} :
             q'.ts[u] = q.ts[u] /\ q'.split[u] = q.split[u] /\ q'.period[u] = q.period[u]
        /\ Deadlines(q', t) = q.ts[t] + q.period[t]
    BY <1>2, <1>5 DEF PeriodFor, SameTimes
  <1>7. \A u \in Timers : q'.enabled[u] = q.enabled[u]
    BY <1>2, <1>6, InvTypes
  <1>8. SameClock /\ Armed' = Armed
    BY <1>2, <1>3, <1>6, <1>7 DEF SameClock, Armed
  <1>9. ASSUME NEW u \in Armed PROVE Deadline(u)' = Deadline(u)
    <2>1. CASE u = t
      BY <1>1, <1>6, <2>1 DEF Deadline, Deadlines, t
    <2>2. CASE u # t
      BY <1>2, <1>6, <2>2 DEF Deadline, Armed
    <2> QED
      BY <2>1, <2>2
  <1>10. SameDeadlines(Armed)
    BY <1>9 DEF SameDeadlines
  <1> QED
    BY <1>8, <1>10, StutterIs

LEMMA CallRings ==
    ASSUME Inv, ProcessCall
    PROVE  \E a \in Timers : Alarms!Ring(a)
  <1> DEFINE l == RemoveHead(q)
             t == q.head
  <1>1. Due /\ ~q.split[t] /\ q.ts[t] <= q.tsc
    BY DEF ProcessCall, Due
  <1>2. /\ t \in Timers /\ q.next[t] # NoTimer /\ q.enabled[t] /\ added = Timers
        /\ running = NoTimer /\ phase = "process"
        /\ l \in List /\ SameTimes(q, l) /\ l.enabled = [q.enabled EXCEPT ![t] = FALSE]
    BY <1>1, DueIs
  <1>3. \A u \in Timers : q.enabled[u] => q.ts[t] <= q.ts[u]
    BY <1>2, NotAlone
  <1>4. q' = [l EXCEPT !.inCallback[t] = TRUE] /\ running' = t /\ added' = added
    BY <1>2 DEF ProcessCall
  <1> HIDE DEF l, t
  <1>5. /\ q'.tsc = q.tsc /\ q'.ts = q.ts /\ q'.split = q.split /\ q'.period = q.period
        /\ q'.enabled = [q.enabled EXCEPT ![t] = FALSE]
    BY <1>2, <1>4 DEF List, SameTimes
  <1>6. ~q'.enabled[t] /\ \A u \in Timers \ {t} : q'.enabled[u] = q.enabled[u]
    BY <1>2, <1>5, InvTypes
  <1>7. t \in Armed /\ Armed' = Armed \ {t}
    BY <1>2, <1>4, <1>6 DEF Armed
  <1>8. SameDeadlines(Armed \ {t})
    BY <1>5 DEF SameDeadlines, Deadline
  <1>9. Deadline(t) <= q.tsc
    BY <1>1, <1>2, InvTypes DEF Deadline
  <1>10. ASSUME NEW u \in Armed PROVE Deadline(t) <= Deadline(u)
    <2>1. Deadline(t) = q.ts[t]
      BY <1>1, <1>2, InvTypes DEF Deadline
    <2>2. u \in Timers /\ q.ts[t] <= q.ts[u]
      BY <1>2, <1>3 DEF Armed
    <2>3. /\ q.ts[t] \in Int /\ q.ts[u] \in Int
          /\ Deadline(u) \in Int /\ Deadline(u) >= q.ts[u]
      BY <1>2, <2>2, DeadlineInt
    <2> QED
      BY <2>1, <2>2, <2>3
  <1>11. PICK a \in Timers : a = t
    BY <1>2
  <1>12. SameDeadlines(Armed \ {a})
    BY <1>8, <1>11 DEF SameDeadlines
  <1>13. Alarms!Ring(a)
    BY <1>2, <1>4, <1>5, <1>7, <1>9, <1>10, <1>11, <1>12, RingsAlarm
  <1> QED
    BY <1>13

LEMMA AddSets ==
    ASSUME Inv, NEW t \in Timers, Add(t)
    PROVE  Alarms!Set(t) \/ AlarmStutter
  <1>1. PICK start \in BOOLEAN : q' = AddTimer(q, t, start)
    BY DEF Add
  <1>2. /\ phase = "boot" /\ t \notin added /\ added' = added \cup {t} /\ running' = running
        /\ q.inited /\ q \in List /\ Listed(q, added, {}) /\ added \subseteq Timers \ {t}
    BY InvTypes DEF Add, Inv, Settled
  <1>3. AddedTo(q, q', added, t, start)
    BY <1>1, <1>2, AddTimerIs
  <1>4. SameClock /\ t \notin Armed /\ SameDeadlines(Armed)
    BY <1>2, <1>3 DEF SameClock, SameDeadlines, Armed, Deadline, AddedTo
  <1>5. CASE start
    <2>1. Armed' = Armed \cup {t} /\ Deadline(t)' = q.tsc
      <3>1. q'.enabled[t] /\ q'.ts[t] = q.tsc /\ ~q'.split[t]
        BY <1>3, <1>5 DEF AddedTo
      <3>2. \A u \in added : q'.enabled[u] = q.enabled[u]
        BY <1>3 DEF AddedTo
      <3>3. Armed' = Armed \cup {t}
        BY <1>2, <3>1, <3>2 DEF Armed
      <3>4. Deadline(t)' = q.tsc
        BY <3>1, InvTypes DEF Deadline
      <3> QED
        BY <3>3, <3>4
    <2>2. SameDeadlines(Armed \ {t}) /\ q.tsc \in Int /\ q.tsc >= q.tsc
      BY <1>4, InvTypes DEF SameDeadlines
    <2> QED
      BY <1>4, <2>1, <2>2, SetsAlarm
  <1>6. CASE ~start
    <2>1. Armed' = Armed
      BY <1>2, <1>3, <1>6 DEF Armed, AddedTo
    <2> QED
      BY <1>4, <2>1, StutterIs
  <1> QED
    BY <1>5, <1>6

LEMMA RunPasses ==
    ASSUME Inv, Run
    PROVE  Alarms!Pass
  <1>1. PICK n \in 1 .. MaxBlock : q' = [q EXCEPT !.tsc = @ + n]
    BY DEF Run
  <1>2. /\ phase = "cpu" /\ UNCHANGED <<running, added>> /\ running = NoTimer /\ n \in Nat
        /\ n > 0
    BY InvTypes, DelayAssumption DEF Run
  <1>3. /\ q'.tsc = q.tsc + n /\ q'.enabled = q.enabled /\ q'.ts = q.ts
        /\ q'.split = q.split /\ q'.period = q.period
    BY <1>1, InvTypes DEF List
  <1>4. Armed' = Armed /\ SameDeadlines(Armed)
    BY <1>2, <1>3 DEF Armed, SameDeadlines, Deadline
  <1>5. q'.tsc \in Int /\ q'.tsc > q.tsc
    BY <1>2, <1>3, InvTypes
  <1>6. ASSUME NEW u \in Armed PROVE q.tsc <= Deadline(u)
    <2>1. q.tsc <= q.ts[u] /\ u \in Timers
      BY <1>2, InvTypes DEF Inv, NothingMissed, Armed
    <2>2. q.tsc \in Int /\ q.ts[u] \in Int /\ Deadline(u) \in Int /\ Deadline(u) >= q.ts[u]
      BY <2>1, DeadlineInt
    <2> QED
      BY <2>1, <2>2
  <1> QED
    BY <1>2, <1>4, <1>5, <1>6 DEF Alarms!Pass, Alarms!Armed, Armed, SameDeadlines

LEMMA WriteSets ==
    ASSUME Inv, WriteTsc
    PROVE  Alarms!SetClock
  <1>1. PICK n \in 0 .. MaxTsc : q' = NewTsc(q, n)
    BY DEF WriteTsc
  <1>2. /\ n \in Int /\ q \in List /\ added \subseteq Timers /\ Listed(q, added, {})
        /\ UNCHANGED <<running, added>> /\ running = NoTimer
    BY DelayAssumption, InvTypes DEF Inv, WriteTsc
  <1>3. /\ q'.tsc = n /\ q'.enabled = q.enabled /\ q'.split = q.split /\ q'.period = q.period
        /\ \A u \in added : q.enabled[u] => q'.ts[u] = n + (q.ts[u] - q.tsc)
    <2>1. /\ NewTsc(q, n) \in List /\ Listed(NewTsc(q, n), added, {})
          /\ NewTsc(q, n).tsc = n /\ NewTsc(q, n).inited = q.inited
          /\ NewTsc(q, n).head = q.head
          /\ NewTsc(q, n).enabled = q.enabled /\ NewTsc(q, n).split = q.split
          /\ NewTsc(q, n).period = q.period /\ NewTsc(q, n).inCallback = q.inCallback
          /\ \A u \in added : q.enabled[u] => NewTsc(q, n).ts[u] = n + (q.ts[u] - q.tsc)
          /\ q.head # NoTimer => NewTsc(q, n).target = n + (q.ts[q.head] - q.tsc)
      BY <1>2, NewTscIs
    <2> QED
      BY <1>1, <2>1
  <1>4. Armed' = Armed
    BY <1>2, <1>3 DEF Armed
  <1>5. ASSUME NEW u \in Armed PROVE Deadline(u)' = Deadline(u) + (n - q.tsc)
    <2>1. q'.ts[u] = n + (q.ts[u] - q.tsc) /\ u \in Timers
      BY <1>2, <1>3 DEF Armed
    <2> QED
      BY <1>2, <1>3, <2>1, InvTypes DEF Deadline
  <1>6. [t \in Armed |-> Deadline(t)]' = [t \in Armed |-> Deadline(t) + (q'.tsc - q.tsc)]
    BY <1>3, <1>4, <1>5
  <1> QED
    BY <1>2, <1>3, <1>6 DEF Alarms!SetClock, Alarms!Armed, Armed

LEMMA PowerResets ==
    ASSUME Inv, HardReset \/ PowerOn
    PROVE  Alarms!Reset
  <1>1. running = NoTimer /\ running' = running /\ added' = {}
    BY InvTypes DEF HardReset, PowerOn, Inv, Settled
  <1>2. q'.tsc \in Int
    BY PowerInv, InvTypes DEF Inv, TypeOK, List
  <1> QED
    BY <1>1, <1>2 DEF Alarms!Reset, Alarms!Cleared

LEMMA ReturnSilences ==
    ASSUME Inv, CallbackReturns
    PROVE  Alarms!Silence
  <1>1. /\ running \in Timers /\ running' = NoTimer /\ added' = added /\ running # NoTimer
        /\ q' = [q EXCEPT !.inCallback[running] = FALSE] /\ q \in List
    BY InvTypes DEF CallbackReturns, Link
  <1>2. /\ q'.tsc = q.tsc /\ q'.enabled = q.enabled /\ q'.ts = q.ts
        /\ q'.split = q.split /\ q'.period = q.period
    BY <1>1 DEF List
  <1> QED
    BY <1>1, <1>2 DEF Alarms!Silence, Deadline

LEMMA OthersStutter ==
    ASSUME Inv, Booted \/ ProcessEnd \/ UNCHANGED vars
    PROVE  AlarmStutter
  <1>1. CASE Booted \/ UNCHANGED vars
    BY <1>1 DEF Booted, vars, AlarmStutter, Armed, Deadline
  <1>2. CASE ProcessEnd
    <2>1. /\ q' = [q EXCEPT !.target = q.ts[q.head]] /\ UNCHANGED <<running, added>>
      BY <1>2, NotAlone, InvTypes DEF ProcessEnd
    <2>2. /\ q'.tsc = q.tsc /\ q'.enabled = q.enabled /\ q'.ts = q.ts
          /\ q'.split = q.split /\ q'.period = q.period
      BY <2>1, InvTypes DEF List
    <2> QED
      BY <2>1, <2>2 DEF AlarmStutter, Armed, Deadline
  <1> QED
    BY <1>1, <1>2

LEMMA NextKeepsTime ==
    ASSUME Inv, [Next]_vars
    PROVE  [Alarms!Next]_(Alarms!vars)
  <1>1. AlarmStutter => UNCHANGED Alarms!vars
    BY DEF AlarmStutter, Alarms!vars, Armed
  <1>2. ASSUME NEW t \in Timers, Add(t) \/ Delay(t) \/ Resume(t) \/ Cease(t) \/ On(t) \/ Halt(t)
        PROVE  Alarms!Next \/ AlarmStutter
    <2>1. Alarms!Set(t) \/ Alarms!Cancel(t) \/ AlarmStutter
      BY <1>2, AddSets, CallsSet, CallsCancel, CallsOn
    <2> QED
      BY <2>1 DEF Alarms!Next
  <1>3. ASSUME Run \/ WriteTsc \/ HardReset \/ PowerOn \/ CallbackReturns
        PROVE  Alarms!Next
    BY <1>3, RunPasses, WriteSets, PowerResets, ReturnSilences DEF Alarms!Next
  <1>4. ProcessCall => Alarms!Next
    BY CallRings DEF Alarms!Next
  <1>5. ProcessPart \/ Booted \/ ProcessEnd \/ UNCHANGED vars => AlarmStutter
    BY PartStutters, OthersStutter
  <1>6. Alarms!Next \/ AlarmStutter
    BY <1>2, <1>3, <1>4, <1>5 DEF Next
  <1> QED
    BY <1>1, <1>6

\* The list implements an alarm clock: an alarm that is set rings once, not
\* before its deadline and in the order of the deadlines, the machine makes no
\* progress past one that is overdue, and the parts of a split period do not show.
THEOREM TimersKeepTime == Spec => KeepsTime
  <1>1. Init => Alarms!Init
    <2> SUFFICES ASSUME Init PROVE Alarms!Init
      OBVIOUS
    <2>1. q.tsc = 0 /\ running = NoTimer /\ {u \in added : q.enabled[u]} = {}
      BY DEF Init
    <2> QED
      BY <2>1 DEF Alarms!Init, Alarms!Cleared
  <1>2. Inv /\ [Next]_vars => [Alarms!Next]_(Alarms!vars)
    BY NextKeepsTime
  <1> QED
    BY <1>1, <1>2, InvHolds, PTL DEF Spec, KeepsTime, Alarms!Spec
=============================================================================
