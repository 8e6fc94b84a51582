------------------------------ MODULE PicProof -------------------------------
(***************************************************************************)
(* What holds of the two interrupt controllers for every number of         *)
(* channels, every wiring of devices and masks, and every depth of nested  *)
(* handlers.                                                               *)
(***************************************************************************)
EXTENDS Pic, FiniteSetTheorems, SequenceTheorems, WellFoundedInduction, TLAPS

-----------------------------------------------------------------------------
(* Arithmetic of the priorities.                                           *)

LEMMA Sizes ==
    /\ Last \in Nat /\ Channels = 0 .. Last /\ Cascade \in Channels /\ 0 \in Channels
    /\ None \notin Channels
  BY PicAssumption DEF Channels, None

\* The remainder of a number that is at most one round away.
LEMMA Rest ==
    ASSUME NEW n \in Nat, n > 0, NEW v \in 0 .. 2 * n - 1
    PROVE  v % n = IF v < n THEN v ELSE v - n
  <1>1. CASE v < n
    BY <1>1
  <1>2. CASE v >= n
    BY <1>2
  <1> QED
    BY <1>1, <1>2

\* Rank without the remainder: how far after the highest channel c is.
LEMMA RankIs ==
    ASSUME NEW r, r.priority \in Channels, NEW c \in Channels
    PROVE  /\ Rank(r, c) = IF c >= r.priority THEN c - r.priority
                                              ELSE c + Last + 1 - r.priority
           /\ Rank(r, c) \in 0 .. Last
  <1>1. /\ Last \in Nat /\ c \in 0 .. Last /\ r.priority \in 0 .. Last
    BY Sizes
  <1> DEFINE v == c + Last + 1 - r.priority
  <1>2. v \in 0 .. 2 * (Last + 1) - 1 /\ Last + 1 \in Nat /\ Last + 1 > 0
    BY <1>1
  <1>3. v % (Last + 1) = IF v < Last + 1 THEN v ELSE v - (Last + 1)
    BY <1>2, Rest
  <1> QED
    BY <1>1, <1>3 DEF Rank

\* No two channels have one rank.
LEMMA RankInjective ==
    ASSUME NEW r, r.priority \in Channels, NEW c \in Channels, NEW d \in Channels,
           Rank(r, c) = Rank(r, d)
    PROVE  c = d
  <1>1. Last \in Nat /\ r.priority \in 0 .. Last /\ c \in 0 .. Last /\ d \in 0 .. Last
    BY Sizes
  <1>2. Rank(r, c) = IF c >= r.priority THEN c - r.priority ELSE c + Last + 1 - r.priority
    BY RankIs
  <1>3. Rank(r, d) = IF d >= r.priority THEN d - r.priority ELSE d + Last + 1 - r.priority
    BY RankIs
  <1>4. (IF c >= r.priority THEN c - r.priority ELSE c + Last + 1 - r.priority)
          = IF d >= r.priority THEN d - r.priority ELSE d + Last + 1 - r.priority
    BY <1>2, <1>3
  <1> QED
    BY <1>1, <1>4

LEMMA AfterIs ==
    ASSUME NEW c \in Channels
    PROVE  After(c) = (IF c = Last THEN 0 ELSE c + 1) /\ After(c) \in Channels
  <1>1. Last \in Nat /\ c \in 0 .. Last /\ Last + 1 \in Nat /\ Last + 1 > 0
    BY Sizes
  <1>2. c + 1 \in 0 .. 2 * (Last + 1) - 1
    BY <1>1
  <1>3. (c + 1) % (Last + 1) = IF c + 1 < Last + 1 THEN c + 1 ELSE (c + 1) - (Last + 1)
    BY <1>1, <1>2, Rest
  <1> QED
    BY <1>1, <1>3, Sizes DEF After

\* When the highest in service ends and the priorities rotate, those below it
\* keep their order.
LEMMA RotationKeepsOrder ==
    ASSUME NEW r, r.priority \in Channels, NEW s, NEW c \in Channels, s.priority = After(c),
           NEW d \in Channels, NEW e \in Channels,
           Rank(r, c) < Rank(r, d), Rank(r, d) < Rank(r, e)
    PROVE  Rank(s, d) < Rank(s, e)
  <1>1. s.priority \in Channels /\ s.priority = IF c = Last THEN 0 ELSE c + 1
    BY AfterIs
  <1>2. Last \in Nat /\ r.priority \in 0 .. Last /\ c \in 0 .. Last /\ d \in 0 .. Last /\ e \in 0 .. Last
    BY Sizes
  <1>3. Rank(r, c) = IF c >= r.priority THEN c - r.priority ELSE c + Last + 1 - r.priority
    BY RankIs
  <1>4. Rank(r, d) = IF d >= r.priority THEN d - r.priority ELSE d + Last + 1 - r.priority
    BY RankIs
  <1>5. Rank(r, e) = IF e >= r.priority THEN e - r.priority ELSE e + Last + 1 - r.priority
    BY RankIs
  <1>6. Rank(s, d) = IF d >= s.priority THEN d - s.priority ELSE d + Last + 1 - s.priority
    BY <1>1, RankIs
  <1>7. Rank(s, e) = IF e >= s.priority THEN e - s.priority ELSE e + Last + 1 - s.priority
    BY <1>1, RankIs
  <1> QED
    BY <1>1, <1>2, <1>3, <1>4, <1>5, <1>6, <1>7

\* Among some channels one is the highest.
LEMMA Highest ==
    ASSUME NEW r, r.priority \in Channels, NEW S, S \subseteq Channels, S # {}
    PROVE  \E c \in S : \A d \in S : Rank(r, c) <= Rank(r, d)
  <1> DEFINE R == {Rank(r, c) : c \in S}
  <1>1. \A c \in S : Rank(r, c) \in Nat
    BY RankIs, Sizes
  <1>2. R \subseteq Nat /\ R # {}
    BY <1>1
  <1>3. PICK m \in R : \A n \in R : ~(<<n, m>> \in OpToRel(<, Nat))
    BY <1>2, NatLessThanWellFounded, WFMin
  <1>4. \A n \in R : m <= n
    <2> SUFFICES ASSUME NEW n \in R PROVE m <= n
      OBVIOUS
    <2>1. n \in Nat /\ m \in Nat
      BY <1>2
    <2>2. <<n, m>> \in Nat \X Nat /\ <<n, m>>[1] = n /\ <<n, m>>[2] = m
      BY <2>1
    <2>3. ~(n < m)
      BY <1>3, <2>2 DEF OpToRel
    <2> QED
      BY <2>1, <2>3
  <1>5. PICK c \in S : m = Rank(r, c)
    BY <1>3
  <1> QED
    BY <1>4, <1>5

-----------------------------------------------------------------------------
(* The registers.                                                          *)

\* What update_pending leaves alone.
Kept(r, s) ==
    /\ s.imr = r.imr /\ s.isr = r.isr /\ s.priority = r.priority
    /\ s.poll = r.poll /\ s.aeoi = r.aeoi /\ s.state = r.state

\* The cache of find_best_interrupt is what the registers say.
Exact(r) == r.pending = (BestOf(r) # None) /\ r.best = BestOf(r)

\* What is found is a request that is not masked and above all in service.
LEMMA BestIsAbove ==
    ASSUME NEW r \in Chip
    PROVE  /\ BestOf(r) \in Channels \cup {None}
           /\ BestOf(r) = None <=> Above(r) = {}
           /\ BestOf(r) # None => BestOf(r) \in Above(r) /\ BestOf(r) \in Channels
           /\ \A d \in Above(r) : Rank(r, BestOf(r)) <= Rank(r, d)
  <1>1. CASE Above(r) = {}
    BY <1>1 DEF BestOf
  <1>2. CASE Above(r) # {}
    <2>1. Above(r) \subseteq Channels /\ r.priority \in Channels
      BY DEF Above, Requests, Chip
    <2>2. \E c \in Above(r) : \A d \in Above(r) : Rank(r, c) <= Rank(r, d)
      BY <1>2, <2>1, Highest
    <2>3. BestOf(r) \in Above(r) /\ \A d \in Above(r) : Rank(r, BestOf(r)) <= Rank(r, d)
      BY <1>2, <2>2 DEF BestOf
    <2> QED
      BY <1>2, <2>1, <2>3, Sizes
  <1> QED
    BY <1>1, <1>2

\* BestOf looks at five registers only.
LEMMA BestDepends ==
    ASSUME NEW r \in Chip, NEW s \in Chip,
           s.irr = r.irr, s.imr = r.imr, s.isr = r.isr, s.priority = r.priority, s.state = r.state
    PROVE  BestOf(s) = BestOf(r)
  <1>1. Requests(s) = Requests(r)
    BY DEF Requests
  <1>2. \A c : Rank(s, c) = Rank(r, c)
    BY DEF Rank
  <1>3. Above(s) = Above(r)
    BY <1>1, <1>2 DEF Above
  <1>4. CASE Above(r) = {}
    BY <1>3, <1>4, BestIsAbove
  <1>5. CASE Above(r) # {}
    <2> DEFINE b == BestOf(r)
               c == BestOf(s)
    <2>1. b \in Above(r) /\ b \in Channels /\ \A d \in Above(r) : Rank(r, b) <= Rank(r, d)
      BY <1>5, BestIsAbove
    <2>2. c \in Above(r) /\ c \in Channels /\ \A d \in Above(r) : Rank(r, c) <= Rank(r, d)
      BY <1>2, <1>3, <1>5, BestIsAbove
    <2>3. r.priority \in Channels
      BY DEF Chip
    <2> HIDE DEF b, c
    <2>4. Rank(r, b) \in 0 .. Last /\ Rank(r, c) \in 0 .. Last /\ Last \in Nat
      BY <2>1, <2>2, <2>3, RankIs, Sizes
    <2>5. Rank(r, b) = Rank(r, c)
      BY <2>1, <2>2, <2>4
    <2>6. b = c
      BY <2>1, <2>2, <2>3, <2>5, RankInjective
    <2> QED
      BY <2>6 DEF b, c
  <1> QED
    BY <1>4, <1>5

LEMMA FoundIs ==
    ASSUME NEW r \in Chip
    PROVE  /\ Found(r) \in Chip /\ Kept(r, Found(r)) /\ Found(r).irr = r.irr
           /\ ~Found(r).frozen /\ Exact(Found(r))
  <1>1. BestOf(r) \in Channels \cup {None}
    BY BestIsAbove
  <1>2. /\ Found(r) \in Chip /\ Kept(r, Found(r)) /\ Found(r).irr = r.irr
        /\ Found(r).frozen = FALSE /\ Found(r).best = BestOf(r)
        /\ Found(r).pending = (BestOf(r) # None)
    BY <1>1 DEF Found, Chip, Kept
  <1>3. BestOf(Found(r)) = BestOf(r)
    BY <1>2, BestDepends DEF Kept
  <1> QED
    BY <1>2, <1>3 DEF Exact

\* update_pending: unless the master is frozen both caches are exact again, and
\* the master's request for the slave is what the slave says.
Refreshed(p, p2) ==
    /\ \A i \in Chips : Exact(p2[i]) /\ ~p2[i].frozen
    /\ p2[Slave].irr = p[Slave].irr
    /\ p2[Master].irr = IF p2[Slave].pending THEN p[Master].irr \cup {RequestsOn(p[Slave])}
                                             ELSE p[Master].irr \ {RequestsOn(p[Slave])}

LEMMA UpdatePendingIs ==
    ASSUME NEW p \in [Chips -> Chip]
    PROVE  /\ UpdatePending(p) \in [Chips -> Chip]
           /\ \A i \in Chips : Kept(p[i], UpdatePending(p)[i])
           /\ IF p[Master].frozen THEN UpdatePending(p) = p ELSE Refreshed(p, UpdatePending(p))
  <1> DEFINE s == Found(p[Slave])
             m == [p[Master] EXCEPT !.irr = IF s.pending THEN @ \cup {RequestsOn(s)}
                                                         ELSE @ \ {RequestsOn(s)}]
  <1>1. p[Slave] \in Chip /\ p[Master] \in Chip /\ Chips = {Master, Slave} /\ Master # Slave
    BY DEF Chips, Master, Slave
  <1>2. CASE p[Master].frozen
    BY <1>2 DEF UpdatePending, Kept
  <1>3. CASE ~p[Master].frozen
    <2>1. UpdatePending(p) = [p EXCEPT ![Master] = Found(m), ![Slave] = s]
      BY <1>3 DEF UpdatePending
    <2>2. s \in Chip /\ Kept(p[Slave], s) /\ s.irr = p[Slave].irr /\ ~s.frozen /\ Exact(s)
      BY <1>1, FoundIs
    <2>3. RequestsOn(s) = RequestsOn(p[Slave]) /\ RequestsOn(s) \in Channels
      BY <2>2, Sizes DEF RequestsOn, Wired, Kept
    <2> HIDE DEF s
    <2>4. /\ m \in Chip /\ Kept(p[Master], m)
          /\ m.irr = IF s.pending THEN p[Master].irr \cup {RequestsOn(p[Slave])}
                                  ELSE p[Master].irr \ {RequestsOn(p[Slave])}
      BY <1>1, <2>3 DEF Chip, Kept
    <2> HIDE DEF m
    <2>5. Found(m) \in Chip /\ Kept(m, Found(m)) /\ Found(m).irr = m.irr /\ ~Found(m).frozen /\ Exact(Found(m))
      BY <2>4, FoundIs
    <2>6. /\ UpdatePending(p) \in [Chips -> Chip]
          /\ UpdatePending(p)[Master] = Found(m) /\ UpdatePending(p)[Slave] = s
      BY <1>1, <2>1, <2>2, <2>5
    <2>7. Kept(p[Master], Found(m))
      BY <2>4, <2>5 DEF Kept
    <2> QED
      BY <1>1, <1>3, <2>2, <2>4, <2>5, <2>6, <2>7 DEF Refreshed
  <1> QED
    BY <1>2, <1>3

LEMMA UpdateIs ==
    ASSUME NEW p \in [Chips -> Chip], Update(p)
    PROVE  /\ pic' \in [Chips -> Chip]
           /\ \A i \in Chips : Kept(p[i], pic'[i])
           /\ IF p[Master].frozen THEN pic' = p ELSE Refreshed(p, pic')
           /\ stale' = (stale /\ p[Master].frozen)
  BY UpdatePendingIs DEF Update

-----------------------------------------------------------------------------
(* An acknowledgment.                                                      *)

LEMMA TwoChips == Chips = {Master, Slave} /\ Master # Slave /\ Master \in Chips /\ Slave \in Chips
  BY DEF Chips, Master, Slave

\* Registers of a chip that are not its request and service registers, nor
\* what it found.
SameSetup(r, s) ==
    s.imr = r.imr /\ s.poll = r.poll /\ s.aeoi = r.aeoi /\ s.state = r.state

LEMMA AcknowledgeIs ==
    ASSUME NEW p \in [Chips -> Chip], NEW i \in Chips, p[i].best \in Channels
    PROVE  /\ Acknowledge(p, i) \in [Chips -> Chip]
           /\ \A j \in Chips : j # i => Acknowledge(p, i)[j] = p[j]
           /\ SameSetup(p[i], Acknowledge(p, i)[i])
           /\ Acknowledge(p, i)[i].priority = p[i].priority
           /\ Acknowledge(p, i)[i].best = p[i].best
           /\ Acknowledge(p, i)[i].frozen = p[i].frozen
           /\ Acknowledge(p, i)[i].isr = p[i].isr \cup {p[i].best}
           /\ Acknowledge(p, i)[i].irr = IF p[i].best \in Level[i] /\ lines[i][p[i].best] > 0
                                         THEN p[i].irr ELSE p[i].irr \ {p[i].best}
  <1> DEFINE c == p[i].best
             r == p[i]
             s == [r EXCEPT !.isr = r.isr \cup {c},
                            !.irr = IF c \in Level[i] /\ lines[i][c] > 0 THEN r.irr ELSE r.irr \ {c}]
  <1>1. Acknowledge(p, i) = [p EXCEPT ![i] = s]
    BY DEF Acknowledge
  <1>2. r \in Chip
    OBVIOUS
  <1>3. s \in Chip
    BY <1>2 DEF Chip
  <1>4. /\ SameSetup(r, s) /\ s.priority = r.priority /\ s.best = r.best /\ s.frozen = r.frozen
        /\ s.isr = r.isr \cup {c}
        /\ s.irr = IF c \in Level[i] /\ lines[i][c] > 0 THEN r.irr ELSE r.irr \ {c}
    BY <1>2 DEF SameSetup, Chip
  <1> HIDE DEF s
  <1> QED
    BY <1>1, <1>3, <1>4

\* The end of the highest in service.
LEMMA ActionIs ==
    ASSUME NEW r \in Chip, NEW rotate \in BOOLEAN
    PROVE  /\ Action(r, rotate) \in Chip
           /\ SameSetup(r, Action(r, rotate)) /\ Action(r, rotate).irr = r.irr
           /\ Action(r, rotate).frozen = r.frozen /\ Action(r, rotate).best = r.best
           /\ Action(r, rotate).pending = r.pending
           /\ r.isr = {} => Action(r, rotate) = r
           /\ r.isr # {} =>
                \E c \in r.isr :
                  /\ \A d \in r.isr : Rank(r, c) <= Rank(r, d)
                  /\ Action(r, rotate).isr = r.isr \ {c}
                  /\ Action(r, rotate).priority = IF rotate THEN After(c) ELSE r.priority
  <1>1. CASE r.isr = {}
    BY <1>1 DEF Action, SameSetup
  <1>2. CASE r.isr # {}
    <2>1. r.isr \subseteq Channels /\ r.priority \in Channels
      BY DEF Chip
    <2>2. \E c \in r.isr : \A d \in r.isr : Rank(r, c) <= Rank(r, d)
      BY <1>2, <2>1, Highest
    <2> DEFINE c == InService(r)
    <2>3. c \in r.isr /\ \A d \in r.isr : Rank(r, c) <= Rank(r, d)
      BY <2>2 DEF InService
    <2>4. Action(r, rotate) = [r EXCEPT !.isr = @ \ {c}, !.priority = IF rotate THEN After(c) ELSE @]
      BY <1>2 DEF Action
    <2> HIDE DEF c
    <2>5. After(c) \in Channels
      BY <2>1, <2>3, AfterIs
    <2>6. /\ Action(r, rotate) \in Chip
          /\ SameSetup(r, Action(r, rotate)) /\ Action(r, rotate).irr = r.irr
          /\ Action(r, rotate).frozen = r.frozen /\ Action(r, rotate).best = r.best
          /\ Action(r, rotate).pending = r.pending
          /\ Action(r, rotate).isr = r.isr \ {c}
          /\ Action(r, rotate).priority = IF rotate THEN After(c) ELSE r.priority
      BY <2>1, <2>4, <2>5 DEF SameSetup, Chip
    <2> QED
      BY <1>2, <2>3, <2>6
  <1> QED
    BY <1>1, <1>2

\* What a chip found, while it says so, is not masked and above all in service:
\* it is when it is found, and until it is taken only requests change.
Valid(r) ==
    r.pending => /\ r.best \in Channels /\ r.best \notin r.imr
                 /\ \A d \in r.isr : Rank(r, r.best) < Rank(r, d)

LEMMA ExactIsValid ==
    ASSUME NEW r \in Chip, Exact(r)
    PROVE  Valid(r)
  BY BestIsAbove DEF Exact, Valid, Above, Requests

\* A chip that takes what it found and ends it at once has in service what it
\* had before.
LEMMA EndsAtOnce ==
    ASSUME NEW r \in Chip, r.pending, Valid(r), NEW s \in Chip, s.priority = r.priority,
           s.isr = r.isr \cup {r.best}
    PROVE  Action(s, FALSE).isr = r.isr /\ Action(s, FALSE).priority = r.priority
  <1>1. r.best \in Channels /\ \A d \in r.isr : Rank(r, r.best) < Rank(r, d)
    BY DEF Valid
  <1>2. r.isr \subseteq Channels /\ r.priority \in Channels
    BY DEF Chip
  <1>3. PICK c \in s.isr :
          /\ \A d \in s.isr : Rank(s, c) <= Rank(s, d)
          /\ Action(s, FALSE).isr = s.isr \ {c} /\ Action(s, FALSE).priority = s.priority
    BY ActionIs
  <1>4. Rank(s, c) = Rank(r, c) /\ Rank(s, r.best) = Rank(r, r.best)
    BY DEF Rank
  <1>5. Rank(r, c) \in 0 .. Last /\ Rank(r, r.best) \in 0 .. Last /\ Last \in Nat
    BY <1>1, <1>2, <1>3, RankIs, Sizes
  <1>6. c = r.best
    BY <1>1, <1>3, <1>4, <1>5
  <1>7. r.best \notin r.isr
    BY <1>1, <1>5
  <1> QED
    BY <1>3, <1>6, <1>7

\* A chip that has answered an acknowledgment.
Answered(i, r, s) ==
    /\ SameSetup(r, s) /\ s.priority = r.priority
    /\ s.isr = IF r.aeoi THEN r.isr ELSE r.isr \cup {r.best}
    /\ s.irr = IF r.best \in Level[i] /\ lines[i][r.best] > 0 THEN r.irr ELSE r.irr \ {r.best}

LEMMA AutoEoiIs ==
    ASSUME NEW p \in [Chips -> Chip], NEW i \in Chips
    PROVE  /\ AutoEoi(p, i) \in [Chips -> Chip]
           /\ \A j \in Chips : j # i => AutoEoi(p, i)[j] = p[j]
           /\ AutoEoi(p, i)[i] = IF p[i].aeoi THEN Action(p[i], FALSE) ELSE p[i]
  <1>1. p[i] \in Chip /\ Action(p[i], FALSE) \in Chip
    BY ActionIs
  <1>2. AutoEoi(p, i) = IF p[i].aeoi THEN [p EXCEPT ![i] = Action(p[i], FALSE)] ELSE p
    BY DEF AutoEoi
  <1> QED
    BY <1>1, <1>2

\* One chip, from the acknowledgment of what it found to the end of an
\* automatic EOI.
LEMMA AcknowledgedOnce ==
    ASSUME NEW i \in Chips, NEW r \in Chip, r.pending, Valid(r),
           NEW s \in Chip, SameSetup(r, s), s.priority = r.priority,
           s.isr = r.isr \cup {r.best},
           s.irr = IF r.best \in Level[i] /\ lines[i][r.best] > 0 THEN r.irr ELSE r.irr \ {r.best}
    PROVE  LET t == IF s.aeoi THEN Action(s, FALSE) ELSE s
           IN  t \in Chip /\ Answered(i, r, t)
  <1>1. CASE r.aeoi
    <2>1. Action(s, FALSE).isr = r.isr /\ Action(s, FALSE).priority = r.priority
      BY EndsAtOnce
    <2>2. Action(s, FALSE) \in Chip /\ SameSetup(s, Action(s, FALSE)) /\ Action(s, FALSE).irr = s.irr
      BY ActionIs
    <2> QED
      BY <1>1, <2>1, <2>2 DEF Answered, SameSetup
  <1>2. CASE ~r.aeoi
    BY <1>2 DEF Answered, SameSetup
  <1> QED
    BY <1>1, <1>2

LEMMA MasterTakes ==
    ASSUME pic \in [Chips -> Chip], \A i \in Chips : Valid(pic[i]), pic[Master].pending, TakeFromMaster
    PROVE  \E p \in [Chips -> Chip] :
             /\ Update(p) /\ ~p[Master].frozen
             /\ Answered(Master, pic[Master], p[Master]) /\ p[Slave] = pic[Slave]
  <1> USE TwoChips
  <1> DEFINE r == pic[Master]
             a == [pic EXCEPT ![Master].frozen = TRUE]
             p0 == Acknowledge(a, Master)
             b == [p0 EXCEPT ![Master].pending = FALSE]
             p1 == AutoEoi(b, Master)
             p == [p1 EXCEPT ![Master].best = None, ![Master].frozen = FALSE]
  <1>1. r \in Chip /\ r.best \in Channels /\ pic[Slave] \in Chip
    BY DEF Valid
  <1>2. a \in [Chips -> Chip] /\ a[Slave] = pic[Slave] /\ a[Master] = [r EXCEPT !.frozen = TRUE]
    BY <1>1 DEF Chip
  <1>3. /\ SameSetup(r, a[Master]) /\ a[Master].priority = r.priority /\ a[Master].isr = r.isr
        /\ a[Master].irr = r.irr /\ a[Master].best = r.best
    BY <1>1, <1>2 DEF Chip, SameSetup
  <1> HIDE DEF a
  <1>4. /\ p0 \in [Chips -> Chip] /\ p0[Slave] = pic[Slave]
        /\ SameSetup(r, p0[Master]) /\ p0[Master].priority = r.priority
        /\ p0[Master].isr = r.isr \cup {r.best}
        /\ p0[Master].irr = IF r.best \in Level[Master] /\ lines[Master][r.best] > 0
                            THEN r.irr ELSE r.irr \ {r.best}
    <2>1. /\ p0 \in [Chips -> Chip] /\ p0[Slave] = a[Slave] /\ SameSetup(a[Master], p0[Master])
          /\ p0[Master].priority = a[Master].priority
          /\ p0[Master].isr = a[Master].isr \cup {a[Master].best}
          /\ p0[Master].irr = IF a[Master].best \in Level[Master] /\ lines[Master][a[Master].best] > 0
                              THEN a[Master].irr ELSE a[Master].irr \ {a[Master].best}
      BY <1>1, <1>2, <1>3, AcknowledgeIs
    <2> QED
      BY <1>2, <1>3, <2>1 DEF SameSetup
  <1> HIDE DEF p0
  <1>5. /\ b \in [Chips -> Chip] /\ b[Slave] = pic[Slave]
        /\ SameSetup(r, b[Master]) /\ b[Master].priority = r.priority
        /\ b[Master].isr = r.isr \cup {r.best}
        /\ b[Master].irr = IF r.best \in Level[Master] /\ lines[Master][r.best] > 0
                            THEN r.irr ELSE r.irr \ {r.best}
    <2>1. p0[Master] \in Chip /\ b = [p0 EXCEPT ![Master] = [p0[Master] EXCEPT !.pending = FALSE]]
      BY <1>4
    <2> QED
      BY <1>4, <2>1 DEF Chip, SameSetup
  <1> HIDE DEF b
  <1>6. /\ p1 \in [Chips -> Chip] /\ p1[Slave] = pic[Slave] /\ Answered(Master, r, p1[Master])
    <2>1. /\ p1 \in [Chips -> Chip] /\ p1[Slave] = b[Slave]
          /\ p1[Master] = IF b[Master].aeoi THEN Action(b[Master], FALSE) ELSE b[Master]
      BY <1>5, AutoEoiIs
    <2>2. b[Master] \in Chip /\ Valid(r)
      BY <1>5
    <2>3. Answered(Master, r, IF b[Master].aeoi THEN Action(b[Master], FALSE) ELSE b[Master])
      BY <1>1, <1>5, <2>2, AcknowledgedOnce
    <2> QED
      BY <1>5, <2>1, <2>3
  <1> HIDE DEF p1
  <1>7. /\ p \in [Chips -> Chip] /\ p[Slave] = pic[Slave] /\ Answered(Master, r, p[Master])
        /\ ~p[Master].frozen
    <2>1. /\ p1[Master] \in Chip
          /\ p = [p1 EXCEPT ![Master] = [p1[Master] EXCEPT !.best = None, !.frozen = FALSE]]
      BY <1>6
    <2> QED
      BY <1>6, <2>1 DEF Chip, SameSetup, Answered
  <1>8. Update(p)
    BY DEF TakeFromMaster, p1, b, p0, a
  <1> QED
    BY <1>7, <1>8

\* A chip that has acknowledged, and no more.
Acked(i, r, s) ==
    /\ SameSetup(r, s) /\ s.priority = r.priority
    /\ s.isr = r.isr \cup {r.best}
    /\ s.irr = IF r.best \in Level[i] /\ lines[i][r.best] > 0 THEN r.irr ELSE r.irr \ {r.best}

LEMMA SlaveTakes ==
    ASSUME pic \in [Chips -> Chip], \A i \in Chips : Valid(pic[i]), pic[Master].pending, TakeFromSlave
    PROVE  \E p \in [Chips -> Chip] :
             /\ Update(p)
             /\ \A i \in Chips : ~p[i].frozen /\ Answered(i, pic[i], p[i])
  <1> USE TwoChips
  <1> DEFINE r == pic[Master]
             q == pic[Slave]
             a == [pic EXCEPT ![Master].frozen = TRUE]
             b == Acknowledge(a, Master)
             c == Acknowledge(b, Slave)
             d == [c EXCEPT ![Master].pending = FALSE, ![Slave].pending = FALSE]
             e == AutoEoi(d, Slave)
             f == AutoEoi(e, Master)
             p == [f EXCEPT ![Master].best = None, ![Master].frozen = FALSE,
                            ![Slave].best = None, ![Slave].frozen = FALSE]
  <1>1. /\ r \in Chip /\ q \in Chip /\ Valid(r) /\ Valid(q) /\ r.pending /\ q.pending
        /\ r.best \in Channels /\ q.best \in Channels
    BY DEF Valid, TakeFromSlave
  <1>2. a \in [Chips -> Chip] /\ a[Slave] = q /\ a[Master] = [r EXCEPT !.frozen = TRUE]
    BY <1>1 DEF Chip
  <1>3. /\ SameSetup(r, a[Master]) /\ a[Master].priority = r.priority /\ a[Master].isr = r.isr
        /\ a[Master].irr = r.irr /\ a[Master].best = r.best
    BY <1>1, <1>2 DEF Chip, SameSetup
  <1> HIDE DEF a
  <1>4. b \in [Chips -> Chip] /\ b[Slave] = q /\ Acked(Master, r, b[Master])
    <2>1. /\ b \in [Chips -> Chip] /\ b[Slave] = a[Slave] /\ SameSetup(a[Master], b[Master])
          /\ b[Master].priority = a[Master].priority
          /\ b[Master].isr = a[Master].isr \cup {a[Master].best}
          /\ b[Master].irr = IF a[Master].best \in Level[Master] /\ lines[Master][a[Master].best] > 0
                             THEN a[Master].irr ELSE a[Master].irr \ {a[Master].best}
      BY <1>1, <1>2, <1>3, AcknowledgeIs
    <2> QED
      BY <1>2, <1>3, <2>1 DEF SameSetup, Acked
  <1> HIDE DEF b
  <1>5. c \in [Chips -> Chip] /\ Acked(Slave, q, c[Slave]) /\ Acked(Master, r, c[Master])
    <2>1. /\ c \in [Chips -> Chip] /\ c[Master] = b[Master] /\ SameSetup(b[Slave], c[Slave])
          /\ c[Slave].priority = b[Slave].priority
          /\ c[Slave].isr = b[Slave].isr \cup {b[Slave].best}
          /\ c[Slave].irr = IF b[Slave].best \in Level[Slave] /\ lines[Slave][b[Slave].best] > 0
                            THEN b[Slave].irr ELSE b[Slave].irr \ {b[Slave].best}
      BY <1>1, <1>4, AcknowledgeIs
    <2> QED
      BY <1>4, <2>1 DEF Acked
  <1> HIDE DEF c
  <1>6. d \in [Chips -> Chip] /\ Acked(Slave, q, d[Slave]) /\ Acked(Master, r, d[Master])
    <2>1. /\ c[Master] \in Chip /\ c[Slave] \in Chip
          /\ d = [c EXCEPT ![Master] = [c[Master] EXCEPT !.pending = FALSE],
                           ![Slave] = [c[Slave] EXCEPT !.pending = FALSE]]
      BY <1>5
    <2>2. d[Master] = [c[Master] EXCEPT !.pending = FALSE] /\ d[Slave] = [c[Slave] EXCEPT !.pending = FALSE]
      BY <1>5, <2>1
    <2>0. \A z \in Chip : [z EXCEPT !.pending = FALSE] \in Chip
      BY DEF Chip
    <2>3. d[Master] \in Chip /\ d[Slave] \in Chip
      BY <2>0, <2>1, <2>2
    <2>4. Acked(Slave, q, d[Slave])
      BY <1>5, <2>1, <2>2 DEF Chip, SameSetup, Acked
    <2>5. Acked(Master, r, d[Master])
      BY <1>5, <2>1, <2>2 DEF Chip, SameSetup, Acked
    <2> QED
      BY <1>5, <2>1, <2>3, <2>4, <2>5
  <1> HIDE DEF d
  <1>7. e \in [Chips -> Chip] /\ Answered(Slave, q, e[Slave]) /\ Acked(Master, r, e[Master])
    <2>1. /\ e \in [Chips -> Chip] /\ e[Master] = d[Master]
          /\ e[Slave] = IF d[Slave].aeoi THEN Action(d[Slave], FALSE) ELSE d[Slave]
      BY <1>6, AutoEoiIs
    <2>2. d[Slave] \in Chip
      BY <1>6
    <2>3. Answered(Slave, q, IF d[Slave].aeoi THEN Action(d[Slave], FALSE) ELSE d[Slave])
      BY <1>1, <1>6, <2>2, AcknowledgedOnce DEF Acked
    <2> QED
      BY <1>6, <2>1, <2>3
  <1> HIDE DEF e
  <1>8. f \in [Chips -> Chip] /\ Answered(Slave, q, f[Slave]) /\ Answered(Master, r, f[Master])
    <2>1. /\ f \in [Chips -> Chip] /\ f[Slave] = e[Slave]
          /\ f[Master] = IF e[Master].aeoi THEN Action(e[Master], FALSE) ELSE e[Master]
      BY <1>7, AutoEoiIs
    <2>2. e[Master] \in Chip
      BY <1>7
    <2>3. Answered(Master, r, IF e[Master].aeoi THEN Action(e[Master], FALSE) ELSE e[Master])
      BY <1>1, <1>7, <2>2, AcknowledgedOnce DEF Acked
    <2> QED
      BY <1>7, <2>1, <2>3
  <1> HIDE DEF f
  <1>9. /\ p \in [Chips -> Chip] /\ Answered(Slave, q, p[Slave]) /\ Answered(Master, r, p[Master])
        /\ ~p[Master].frozen /\ ~p[Slave].frozen
    <2>1. /\ f[Master] \in Chip /\ f[Slave] \in Chip
          /\ p = [f EXCEPT ![Master] = [f[Master] EXCEPT !.best = None, !.frozen = FALSE],
                           ![Slave] = [f[Slave] EXCEPT !.best = None, !.frozen = FALSE]]
      BY <1>8
    <2>2. /\ p[Master] = [f[Master] EXCEPT !.best = None, !.frozen = FALSE]
          /\ p[Slave] = [f[Slave] EXCEPT !.best = None, !.frozen = FALSE]
      BY <1>8, <2>1
    <2>0. \A z \in Chip : /\ [z EXCEPT !.best = None, !.frozen = FALSE] \in Chip
                          /\ [z EXCEPT !.best = None, !.frozen = FALSE].frozen = FALSE
      BY DEF Chip
    <2>3. p[Master] \in Chip /\ p[Slave] \in Chip /\ ~p[Master].frozen /\ ~p[Slave].frozen
      BY <2>0, <2>1, <2>2, ZenonT(40)
    <2>4. Answered(Slave, q, p[Slave])
      BY <1>8, <2>1, <2>2 DEF Chip, SameSetup, Answered
    <2>5. Answered(Master, r, p[Master])
      BY <1>8, <2>1, <2>2 DEF Chip, SameSetup, Answered
    <2> QED
      BY <1>8, <2>1, <2>3, <2>4, <2>5
  <1>10. Update(p)
    BY DEF TakeFromSlave, p, f, e, d, c, b, a
  <1> QED
    BY <1>9, <1>10, ZenonT(40)

-----------------------------------------------------------------------------
(* The invariant.                                                          *)

\* A chip is frozen between steps for the sake of a poll only.
FrozenToPoll == \A i \in Chips : pic[i].frozen => pic[i].poll

CachesValid == \A i \in Chips : Valid(pic[i])

Holding(i, c) == {d \in WiredTo(i, c) : asserted[d]}

\* The counter of a channel counts the devices that hold it, if none of them
\* moved unseen, and a level-triggered channel requests while it is not 0.
CountsHolders ==
    \A i \in Chips, c \in Channels :
      WiredTo(i, c) \cap missed = {} =>
        /\ lines[i][c] = Cardinality(Holding(i, c))
        /\ c \in Level[i] => (c \in pic[i].irr <=> lines[i][c] > 0)

Inv == TypeOK /\ FrozenToPoll /\ CachesValid /\ ServiceMatchesStack /\ IntIsExact /\ CountsHolders

-----------------------------------------------------------------------------
(* The handlers of one chip.                                               *)

HandlersOf(st, i) == {n \in 1 .. Len(st) : st[n][1] = i}

\* ServiceMatchesStack for one chip with the registers r.
Serves(i, r, st) ==
    /\ r.isr = {st[n][2] : n \in HandlersOf(st, i)}
    /\ \A n, m \in HandlersOf(st, i) : n < m => Rank(r, st[m][2]) < Rank(r, st[n][2])

LEMMA ServesIs == ServiceMatchesStack <=> \A i \in Chips : Serves(i, pic[i], stack)
  BY DEF ServiceMatchesStack, Serves, Handlers, HandlersOf

LEMMA ServesKept ==
    ASSUME NEW i, NEW r, NEW s, NEW st, Serves(i, r, st), s.isr = r.isr, s.priority = r.priority
    PROVE  Serves(i, s, st)
  BY DEF Serves, Rank

LEMMA AppendIs ==
    ASSUME NEW S, NEW st \in Seq(S), NEW x \in S
    PROVE  /\ Append(st, x) \in Seq(S) /\ Len(st) \in Nat
           /\ Len(Append(st, x)) = Len(st) + 1
           /\ \A n \in 1 .. Len(st) : Append(st, x)[n] = st[n]
           /\ Append(st, x)[Len(st) + 1] = x
  OBVIOUS

\* A handler of another chip.
LEMMA ServesOther ==
    ASSUME NEW i \in Chips, NEW r, NEW st \in Seq(Handler), NEW x \in Handler, x[1] # i, Serves(i, r, st)
    PROVE  Serves(i, r, Append(st, x))
  <1> DEFINE ap == Append(st, x)
  <1>1. /\ Len(st) \in Nat /\ Len(ap) = Len(st) + 1 /\ ap[Len(st) + 1] = x
        /\ \A n \in 1 .. Len(st) : ap[n] = st[n]
    BY AppendIs
  <1> HIDE DEF ap
  <1>2. HandlersOf(ap, i) = HandlersOf(st, i)
    BY <1>1 DEF HandlersOf
  <1>3. \A n \in HandlersOf(st, i) : ap[n] = st[n]
    BY <1>1 DEF HandlersOf
  <1>4. {ap[n][2] : n \in HandlersOf(ap, i)} = {st[n][2] : n \in HandlersOf(st, i)}
    BY <1>2, <1>3
  <1>5. Serves(i, r, ap)
    BY <1>2, <1>3, <1>4 DEF Serves
  <1> QED
    BY <1>5 DEF ap

\* What is taken goes on top.
LEMMA ServesPush ==
    ASSUME NEW i \in Chips, NEW r, NEW s, NEW st \in Seq(Handler), NEW c \in Channels, Serves(i, r, st),
           \A d \in r.isr : Rank(r, c) < Rank(r, d), s.isr = r.isr \cup {c}, s.priority = r.priority
    PROVE  Serves(i, s, Append(st, <<i, c>>))
  <1> DEFINE ap == Append(st, <<i, c>>)
             top == Len(st) + 1
  <1>1. /\ Len(st) \in Nat /\ Len(ap) = top /\ ap[top] = <<i, c>>
        /\ \A n \in 1 .. Len(st) : ap[n] = st[n]
    BY AppendIs DEF Handler
  <1> HIDE DEF ap
  <1>2. HandlersOf(ap, i) = HandlersOf(st, i) \cup {top}
    BY <1>1 DEF HandlersOf
  <1>3. \A n \in HandlersOf(st, i) : ap[n] = st[n] /\ n \in Nat /\ n < top
    BY <1>1 DEF HandlersOf
  <1>4. {ap[n][2] : n \in HandlersOf(ap, i)} = {st[n][2] : n \in HandlersOf(st, i)} \cup {c}
    BY <1>1, <1>2, <1>3
  <1>5. \A d : Rank(s, d) = Rank(r, d)
    BY DEF Rank
  <1>6. ASSUME NEW n \in HandlersOf(ap, i), NEW m \in HandlersOf(ap, i), n < m
        PROVE  Rank(s, ap[m][2]) < Rank(s, ap[n][2])
    <2>1. n \in HandlersOf(st, i) /\ ap[n] = st[n]
      BY <1>1, <1>2, <1>3, <1>6
    <2>2. CASE m = top
      <3>1. ap[m][2] = c /\ st[n][2] \in r.isr
        BY <1>1, <2>1, <2>2 DEF Serves
      <3> QED
        BY <1>5, <2>1, <3>1
    <2>3. CASE m \in HandlersOf(st, i)
      BY <1>3, <1>5, <1>6, <2>1, <2>3 DEF Serves
    <2> QED
      BY <1>2, <2>2, <2>3
  <1>7. Serves(i, s, ap)
    BY <1>4, <1>6 DEF Serves
  <1> QED
    BY <1>7 DEF ap

LEMMA FrontIs ==
    ASSUME NEW S, NEW st \in Seq(S), st # <<>>
    PROVE  LET fr == SubSeq(st, 1, Len(st) - 1)
           IN  /\ fr \in Seq(S) /\ Len(st) \in Nat \ {0} /\ Len(fr) = Len(st) - 1
               /\ \A n \in 1 .. Len(st) - 1 : fr[n] = st[n]
  <1>1. Len(st) \in Nat \ {0}
    BY EmptySeq
  <1> DEFINE k == Len(st) - 1
             fr == SubSeq(st, 1, k)
  <1>2. k \in Nat /\ 1 \in Int /\ k \in Int /\ \A n \in 1 .. k : st[n] \in S
    BY <1>1
  <1> HIDE DEF k
  <1>3. /\ fr \in Seq(S) /\ Len(fr) = (IF 1 <= k THEN k - 1 + 1 ELSE 0)
        /\ \A n \in 1 .. k - 1 + 1 : fr[n] = st[1 + n - 1]
    BY <1>2, SubSeqProperties
  <1> HIDE DEF fr
  <1>4. Len(fr) = k /\ \A n \in 1 .. k : fr[n] = st[n]
    <2>1. k - 1 + 1 = k /\ \A n \in 1 .. k : 1 + n - 1 = n
      BY <1>2
    <2> QED
      BY <1>2, <1>3, <2>1
  <1> QED
    BY <1>1, <1>3, <1>4 DEF k, fr

\* The end of a handler of another chip.
LEMMA ServesFront ==
    ASSUME NEW i \in Chips, NEW r, NEW st \in Seq(Handler), st # <<>>, st[Len(st)][1] # i, Serves(i, r, st)
    PROVE  Serves(i, r, SubSeq(st, 1, Len(st) - 1))
  <1> DEFINE fr == SubSeq(st, 1, Len(st) - 1)
  <1>1. Len(st) \in Nat \ {0} /\ Len(fr) = Len(st) - 1 /\ \A n \in 1 .. Len(st) - 1 : fr[n] = st[n]
    BY FrontIs
  <1> HIDE DEF fr
  <1>2. HandlersOf(fr, i) = HandlersOf(st, i) /\ \A n \in HandlersOf(st, i) : n \in 1 .. Len(st) - 1
    BY <1>1 DEF HandlersOf
  <1>3. \A n \in HandlersOf(st, i) : fr[n] = st[n]
    BY <1>1, <1>2
  <1>4. {fr[n][2] : n \in HandlersOf(fr, i)} = {st[n][2] : n \in HandlersOf(st, i)}
    BY <1>2, <1>3
  <1>5. Serves(i, r, fr)
    BY <1>2, <1>3, <1>4 DEF Serves
  <1> QED
    BY <1>5 DEF fr

\* A non-specific EOI ends the handler that sends it, and if it rotates the
\* priorities those that go on keep their order.
LEMMA ServesPop ==
    ASSUME NEW i \in Chips, NEW r \in Chip, NEW rotate \in BOOLEAN, NEW st \in Seq(Handler), st # <<>>,
           st[Len(st)][1] = i, Serves(i, r, st)
    PROVE  Serves(i, Action(r, rotate), SubSeq(st, 1, Len(st) - 1))
  <1> DEFINE fr == SubSeq(st, 1, Len(st) - 1)
             a == Action(r, rotate)
             top == Len(st)
             t == st[top][2]
  <1>1. top \in Nat \ {0} /\ Len(fr) = top - 1 /\ \A n \in 1 .. top - 1 : fr[n] = st[n]
    BY FrontIs
  <1>2. r.isr \subseteq Channels /\ r.priority \in Channels
    BY DEF Chip
  <1> HIDE DEF fr
  <1>3. HandlersOf(st, i) = HandlersOf(fr, i) \cup {top} /\ \A n \in HandlersOf(fr, i) : n \in Nat /\ n < top
    BY <1>1 DEF HandlersOf
  <1>4. \A n \in HandlersOf(fr, i) : fr[n] = st[n]
    BY <1>1 DEF HandlersOf
  <1>5. \A n \in HandlersOf(fr, i) : Rank(r, t) < Rank(r, st[n][2])
    BY <1>3 DEF Serves
  <1>6. r.isr = {fr[n][2] : n \in HandlersOf(fr, i)} \cup {t}
    BY <1>3, <1>4 DEF Serves
  <1>7. PICK c \in r.isr :
          /\ \A d \in r.isr : Rank(r, c) <= Rank(r, d)
          /\ a.isr = r.isr \ {c} /\ a.priority = IF rotate THEN After(c) ELSE r.priority
    BY <1>6, ActionIs
  <1>8. \A d \in r.isr : Rank(r, d) \in 0 .. Last /\ Last \in Nat
    BY <1>2, RankIs, Sizes
  <1>9. c = t
    <2>1. CASE c \in {fr[n][2] : n \in HandlersOf(fr, i)}
      <3>1. Rank(r, t) < Rank(r, c)
        BY <1>4, <1>5, <2>1
      <3>2. Rank(r, c) <= Rank(r, t)
        BY <1>6, <1>7
      <3> QED
        BY <1>6, <1>8, <3>1, <3>2
    <2> QED
      BY <1>6, <2>1
  <1>10. t \notin {fr[n][2] : n \in HandlersOf(fr, i)}
    <2> SUFFICES ASSUME NEW n \in HandlersOf(fr, i), t = fr[n][2] PROVE FALSE
      OBVIOUS
    <2>1. Rank(r, t) < Rank(r, t)
      BY <1>4, <1>5
    <2> QED
      BY <1>6, <1>8, <2>1
  <1>11. a.isr = {fr[n][2] : n \in HandlersOf(fr, i)}
    BY <1>6, <1>7, <1>9, <1>10
  <1> HIDE DEF a
  <1>12. ASSUME NEW n \in HandlersOf(fr, i), NEW m \in HandlersOf(fr, i), n < m
         PROVE  Rank(a, fr[m][2]) < Rank(a, fr[n][2])
    <2> DEFINE d == fr[m][2]
               e == fr[n][2]
    <2>1. Rank(r, d) < Rank(r, e) /\ Rank(r, t) < Rank(r, d)
      BY <1>3, <1>4, <1>5, <1>12 DEF Serves
    <2>2. d \in Channels /\ e \in Channels /\ t \in Channels
      BY <1>2, <1>6
    <2> HIDE DEF d, e, t
    <2>3. Rank(a, d) < Rank(a, e)
      <3>1. CASE rotate
        BY <1>2, <1>7, <1>9, <2>1, <2>2, <3>1, RotationKeepsOrder
      <3>2. CASE ~rotate
        BY <1>7, <2>1, <3>2 DEF Rank
      <3> QED
        BY <3>1, <3>2
    <2> QED
      BY <2>3 DEF d, e
  <1>13. Serves(i, a, fr)
    BY <1>11, <1>12 DEF Serves
  <1> QED
    BY <1>13 DEF a, fr

-----------------------------------------------------------------------------
(* What update_pending leaves.                                             *)

LEMMA LevelIsNotTheSlaves ==
    ASSUME NEW r
    PROVE  RequestsOn(r) \in Channels /\ RequestsOn(r) \in {0, Cascade} /\ RequestsOn(r) \notin Level[Master]
  BY PicAssumption, Sizes DEF RequestsOn

\* It removes no request but the slave's, and touches no level.
LEMMA UpdateRequests ==
    ASSUME NEW p \in [Chips -> Chip], Update(p), NEW i \in Chips, NEW c \in Channels
    PROVE  /\ c \in Level[i] => (c \in pic'[i].irr <=> c \in p[i].irr)
           /\ c \in p[i].irr /\ c \notin pic'[i].irr => i = Master /\ c = RequestsOn(p[Slave])
  <1>1. CASE p[Master].frozen
    BY <1>1, UpdateIs
  <1>2. CASE ~p[Master].frozen
    <2>1. Refreshed(p, pic')
      BY <1>2, UpdateIs
    <2> QED
      BY <2>1, LevelIsNotTheSlaves, TwoChips DEF Refreshed
  <1> QED
    BY <1>1, <1>2

LEMMA UpdateCaches ==
    ASSUME NEW p \in [Chips -> Chip], Update(p), stale \in BOOLEAN,
           \A i \in Chips : p[i].frozen => p[i].poll,
           p[Master].frozen => \A i \in Chips : Valid(p[i])
    PROVE  /\ pic' \in [Chips -> Chip] /\ stale' \in BOOLEAN
           /\ FrozenToPoll' /\ CachesValid' /\ IntIsExact'
  <1>1. /\ pic' \in [Chips -> Chip] /\ \A i \in Chips : Kept(p[i], pic'[i])
        /\ p[Master].frozen => pic' = p
        /\ ~p[Master].frozen => Refreshed(p, pic')
        /\ stale' = (stale /\ p[Master].frozen)
    BY UpdateIs
  <1>2. CASE p[Master].frozen
    BY <1>1, <1>2, TwoChips DEF FrozenToPoll, CachesValid, IntIsExact
  <1>3. CASE ~p[Master].frozen
    <2>1. \A i \in Chips : Exact(pic'[i]) /\ ~pic'[i].frozen /\ pic'[i] \in Chip
      BY <1>1, <1>3 DEF Refreshed
    <2>2. FrozenToPoll' /\ CachesValid'
      BY <2>1, ExactIsValid DEF FrozenToPoll, CachesValid
    <2>3. ASSUME Ready' PROVE (Cascade \in pic'[Master].irr) = pic'[Slave].pending
      <3>1. p[Slave].state = "ready"
        BY <1>1, <2>3, TwoChips DEF Ready, Kept
      <3>2. RequestsOn(p[Slave]) = Cascade
        BY <3>1 DEF RequestsOn, Wired
      <3>3. pic'[Slave].pending \in BOOLEAN
        BY <2>1, TwoChips DEF Chip
      <3> QED
        BY <1>1, <1>3, <3>2, <3>3 DEF Refreshed
    <2>4. /\ \A i \in Chips : pic'[i].pending = (BestOf(pic'[i]) # None)
          /\ \A i \in Chips : pic'[i].pending => pic'[i].best = BestOf(pic'[i])
      BY <2>1 DEF Exact
    <2>5. IntIsExact'
      BY <2>3, <2>4 DEF IntIsExact
    <2>6. stale' \in BOOLEAN
      BY <1>1
    <2> QED
      BY <1>1, <2>2, <2>5, <2>6
  <1> QED
    BY <1>2, <1>3

\* What is in service is what was, and so are the handlers.
LEMMA UpdateServes ==
    ASSUME NEW p \in [Chips -> Chip], Update(p), \A i \in Chips : Serves(i, p[i], stack')
    PROVE  ServiceMatchesStack'
  <1>1. \A i \in Chips : Kept(p[i], pic'[i])
    BY UpdateIs
  <1>2. \A i \in Chips : Serves(i, pic'[i], stack')
    BY <1>1, ServesKept DEF Kept
  <1> QED
    BY <1>2 DEF ServiceMatchesStack, Serves, Handlers, HandlersOf

-----------------------------------------------------------------------------
(* One step.                                                               *)

\* A step that leaves the lines alone.
LEMMA CountsKept ==
    ASSUME CountsHolders, UNCHANGED <<lines, asserted, missed>>,
           \A i \in Chips : \A c \in Level[i] :
             WiredTo(i, c) \cap missed = {} => (c \in pic'[i].irr <=> c \in pic[i].irr)
    PROVE  CountsHolders'
  <1> SUFFICES ASSUME NEW i \in Chips, NEW c \in Channels, WiredTo(i, c) \cap missed' = {}
               PROVE  /\ lines'[i][c] = Cardinality(Holding(i, c)')
                      /\ c \in Level[i] => (c \in pic'[i].irr <=> lines'[i][c] > 0)
    BY DEF CountsHolders
  <1>1. Holding(i, c)' = Holding(i, c)
    BY DEF Holding
  <1>2. /\ lines[i][c] = Cardinality(Holding(i, c))
        /\ c \in Level[i] => (c \in pic[i].irr <=> lines[i][c] > 0)
    BY DEF CountsHolders
  <1> QED
    BY <1>1, <1>2

LEMMA LevelsAreChannels == \A i \in Chips : Level[i] \subseteq Channels
  BY PicAssumption

LEMMA InitInv == Init => Inv
  <1> SUFFICES ASSUME Init PROVE Inv
    OBVIOUS
  <1> USE DEF Init
  <1>1. PowerOn \in Chip /\ PowerOn.irr = {} /\ PowerOn.isr = {} /\ ~PowerOn.frozen /\ ~PowerOn.pending
    BY Sizes DEF PowerOn, Chip, States
  <1>2. \A i \in Chips : pic[i] = PowerOn
    OBVIOUS
  <1>3. TypeOK
    <2>1. 0 \in 0 .. LineWrap - 1
      <3>1. Cardinality(Devices) \in Nat
        BY PicAssumption, FS_CardinalityType
      <3> QED
        BY <3>1, PicAssumption
    <2>2. stack \in Seq(Handler)
      OBVIOUS
    <2> QED
      BY <1>1, <2>1, <2>2 DEF TypeOK
  <1>4. FrozenToPoll /\ CachesValid
    BY <1>1, <1>2 DEF FrozenToPoll, CachesValid, Valid
  <1>5. ServiceMatchesStack
    <2>1. \A i : Handlers(i) = {}
      BY DEF Handlers
    <2> QED
      BY <1>1, <1>2, <2>1 DEF ServiceMatchesStack
  <1>6. IntIsExact
    <2>1. \A i \in Chips : Above(pic[i]) = {}
      BY <1>1, <1>2 DEF Above, Requests
    <2>2. \A i \in Chips : BestOf(pic[i]) = None
      BY <2>1 DEF BestOf
    <2>3. pic[Master].irr = {} /\ pic[Slave].pending = FALSE /\ \A i \in Chips : pic[i].pending = FALSE
      BY <1>2, TwoChips DEF PowerOn
    <2>4. \A i \in Chips : pic[i].pending = (BestOf(pic[i]) # None)
      BY <2>2, <2>3
    <2> HIDE DEF Init
    <2>5. (Cascade \in pic[Master].irr) = FALSE
      BY <2>3
    <2>6. (Cascade \in pic[Master].irr) = pic[Slave].pending
      BY <2>3, <2>5
    <2> QED
      BY <2>2, <2>3, <2>4, <2>6 DEF IntIsExact
  <1>7. CountsHolders
    <2>1. \A i \in Chips, c \in Channels : Holding(i, c) = {} /\ lines[i][c] = 0 /\ pic[i].irr = {}
      BY <1>1, <1>2 DEF Holding, WiredTo
    <2>2. ASSUME NEW i \in Chips, NEW c \in Channels
          PROVE  lines[i][c] = Cardinality(Holding(i, c)) /\ ~(c \in pic[i].irr) /\ ~(lines[i][c] > 0)
      <3> HIDE DEF Init
      <3>1. Cardinality({}) = 0
        BY FS_EmptySet
      <3>2. Holding(i, c) = {} /\ lines[i][c] = 0 /\ pic[i].irr = {}
        BY <2>1
      <3>3. ~(lines[i][c] > 0)
        BY <3>2
      <3> QED
        BY <3>1, <3>2, <3>3
    <2> QED
      BY <2>2 DEF CountsHolders
  <1> QED
    BY <1>3, <1>4, <1>5, <1>6, <1>7 DEF Inv

\* The invariant after a step that ends with update_pending and leaves the
\* lines and the levels as they were.
LEMMA UpdateStep ==
    ASSUME Inv, NEW p \in [Chips -> Chip], Update(p),
           \A i \in Chips : p[i].frozen => p[i].poll,
           p[Master].frozen => \A i \in Chips : Valid(p[i]),
           stack' \in Seq(Handler), \A i \in Chips : Serves(i, p[i], stack'),
           UNCHANGED <<lines, asserted, missed>>,
           \A i \in Chips : \A c \in Level[i] :
             WiredTo(i, c) \cap missed = {} => (c \in p[i].irr <=> c \in pic[i].irr)
    PROVE  Inv'
  <1>1. TypeOK /\ CountsHolders /\ stale \in BOOLEAN
    BY DEF Inv, TypeOK
  <1>2. /\ pic' \in [Chips -> Chip] /\ stale' \in BOOLEAN
        /\ FrozenToPoll' /\ CachesValid' /\ IntIsExact'
    BY <1>1, UpdateCaches
  <1>3. ServiceMatchesStack'
    BY UpdateServes
  <1>4. \A i \in Chips : \A c \in Level[i] : c \in pic'[i].irr <=> c \in p[i].irr
    BY UpdateRequests, LevelsAreChannels
  <1>5. CountsHolders'
    BY <1>1, <1>4, CountsKept
  <1>6. TypeOK'
    BY <1>1, <1>2 DEF TypeOK
  <1> QED
    BY <1>2, <1>3, <1>5, <1>6 DEF Inv

\* Registers that requests do not touch.
Alike(r, s) == Kept(r, s) /\ s.frozen = r.frozen /\ s.best = r.best /\ s.pending = r.pending

LEMMA AlikeIs ==
    ASSUME NEW i \in Chips, NEW r, NEW s, Alike(r, s), NEW st
    PROVE  /\ Valid(r) => Valid(s)
           /\ (r.frozen => r.poll) => (s.frozen => s.poll)
           /\ Serves(i, r, st) => Serves(i, s, st)
  <1>1. Valid(r) => Valid(s)
    BY DEF Alike, Kept, Valid, Rank
  <1>2. Serves(i, r, st) => Serves(i, s, st)
    BY ServesKept DEF Alike, Kept
  <1> QED
    BY <1>1, <1>2 DEF Alike, Kept

\* Channel c of chip i requests, or no longer.
Requested(p, i, c, on) ==
    \A j \in Chips :
      /\ Alike(pic[j], p[j])
      /\ p[j].irr = IF j # i THEN pic[j].irr
                    ELSE IF on THEN pic[j].irr \cup {c} ELSE pic[j].irr \ {c}

LEMMA RequestIs ==
    ASSUME pic \in [Chips -> Chip], NEW i \in Chips, NEW c \in Channels, NEW on \in BOOLEAN, Request(i, c, on)
    PROVE  \E p \in [Chips -> Chip] : Update(p) /\ Requested(p, i, c, on)
  <1> DEFINE irr == IF on THEN pic[i].irr \cup {c} ELSE pic[i].irr \ {c}
             s == [pic[i] EXCEPT !.irr = irr]
             p == [pic EXCEPT ![i] = s]
  <1>1. pic[i] \in Chip
    OBVIOUS
  <1>2. s \in Chip /\ Alike(pic[i], s) /\ s.irr = irr
    BY <1>1 DEF Chip, Alike, Kept
  <1>3. Update(p)
    BY DEF Request
  <1> HIDE DEF s
  <1>4. p \in [Chips -> Chip] /\ \A j \in Chips : p[j] = IF j = i THEN s ELSE pic[j]
    BY <1>2
  <1>5. \A j \in Chips : Alike(pic[j], pic[j])
    BY DEF Alike, Kept
  <1> HIDE DEF p
  <1>6. Requested(p, i, c, on)
    BY <1>2, <1>4, <1>5 DEF Requested
  <1> QED
    BY <1>3, <1>4, <1>6

LEMMA WireIs ==
    ASSUME NEW d \in Devices
    PROVE  /\ Wire[d][1] \in Chips /\ Wire[d][2] \in Channels /\ Wire[d] = <<Wire[d][1], Wire[d][2]>>
           /\ d \notin Holders => Wire[d][2] \notin Level[Wire[d][1]]
  BY PicAssumption

LEMMA PulseInv ==
    ASSUME Inv, NEW d \in Devices, Pulse(d)
    PROVE  Inv'
  <1> DEFINE i == Wire[d][1]
             c == Wire[d][2]
  <1>1. /\ pic \in [Chips -> Chip] /\ stack \in Seq(Handler) /\ \A j \in Chips : Serves(j, pic[j], stack)
        /\ FrozenToPoll /\ CachesValid
    BY ServesIs DEF Inv, TypeOK
  <1>2. PICK on \in BOOLEAN : Request(i, c, on)
    BY DEF Pulse
  <1>3. i \in Chips /\ c \in Channels /\ c \notin Level[i] /\ UNCHANGED <<lines, asserted, stack, missed>>
    BY WireIs DEF Pulse
  <1> HIDE DEF i, c
  <1>4. PICK p \in [Chips -> Chip] : Update(p) /\ Requested(p, i, c, on)
    BY <1>1, <1>2, <1>3, RequestIs
  <1>5. \A j \in Chips : Valid(p[j]) /\ (p[j].frozen => p[j].poll) /\ Serves(j, p[j], stack)
    BY <1>1, <1>4, AlikeIs DEF FrozenToPoll, CachesValid, Requested
  <1>6. \A j \in Chips : \A e \in Level[j] : e \in p[j].irr <=> e \in pic[j].irr
    BY <1>3, <1>4 DEF Requested
  <1> QED
    BY <1>1, <1>3, <1>4, <1>5, <1>6, UpdateStep

\* Taking hold of a channel and letting it go, in the set that is counted.
LEMMA HoldingCounts ==
    ASSUME asserted \in [Devices -> BOOLEAN], NEW d \in Devices, NEW on \in BOOLEAN, asserted[d] # on,
           asserted' = [asserted EXCEPT ![d] = on]
    PROVE  LET i == Wire[d][1]  c == Wire[d][2]
               n == Cardinality(Holding(i, c))
               k == Cardinality(Holding(i, c)')
           IN  n \in Nat /\ k \in Nat /\ k < LineWrap /\ k = IF on THEN n + 1 ELSE n - 1
  <1> DEFINE i == Wire[d][1]
             c == Wire[d][2]
             H == Holding(i, c)
             K == Holding(i, c)'
  <1>1. d \in WiredTo(i, c) /\ WiredTo(i, c) \subseteq Devices
    BY WireIs DEF WiredTo
  <1>2. H = {e \in WiredTo(i, c) : asserted[e]} /\ K = {e \in WiredTo(i, c) : asserted'[e]}
    BY DEF Holding
  <1>3. H \subseteq Devices /\ K \subseteq Devices /\ (d \in H <=> ~on) /\ (d \in K <=> on)
    BY <1>1, <1>2
  <1>4. K = IF on THEN H \cup {d} ELSE H \ {d}
    BY <1>1, <1>2
  <1> HIDE DEF H, K
  <1>5. IsFiniteSet(Devices) /\ Cardinality(Devices) \in Nat /\ LineWrap \in Nat /\ Cardinality(Devices) < LineWrap
    BY PicAssumption, FS_CardinalityType
  <1>6. IsFiniteSet(H) /\ IsFiniteSet(K) /\ Cardinality(H) \in Nat /\ Cardinality(K) \in Nat
        /\ Cardinality(K) <= Cardinality(Devices)
    BY <1>3, <1>5, FS_Subset, FS_CardinalityType
  <1>7. Cardinality(K) = IF on THEN Cardinality(H) + 1 ELSE Cardinality(H) - 1
    <2>1. CASE on
      BY <1>3, <1>4, <1>6, <2>1, FS_AddElement
    <2>2. CASE ~on
      BY <1>3, <1>4, <1>6, <2>2, FS_RemoveElement
    <2> QED
      BY <2>1, <2>2
  <1>8. Cardinality(H) \in Nat /\ Cardinality(K) \in Nat /\ Cardinality(K) < LineWrap
        /\ Cardinality(K) = IF on THEN Cardinality(H) + 1 ELSE Cardinality(H) - 1
    BY <1>5, <1>6, <1>7
  <1> QED
    BY <1>8 DEF H, K

\* The other channels.
LEMMA HoldingElsewhere ==
    ASSUME NEW d \in Devices, asserted \in [Devices -> BOOLEAN], NEW on,
           asserted' = [asserted EXCEPT ![d] = on], NEW j, NEW e, Wire[d] # <<j, e>>
    PROVE  Holding(j, e)' = Holding(j, e)
  <1>1. \A x \in WiredTo(j, e) : x # d /\ x \in Devices /\ asserted'[x] = asserted[x]
    BY DEF WiredTo
  <1> QED
    BY <1>1 DEF Holding

LEMMA WrapIs ==
    ASSUME NEW v \in Int
    PROVE  v % LineWrap \in 0 .. LineWrap - 1 /\ (v \in 0 .. LineWrap - 1 => v % LineWrap = v)
  <1>1. LineWrap \in Nat \ {0}
    <2>1. Cardinality(Devices) \in Nat
      BY PicAssumption, FS_CardinalityType
    <2> QED
      BY <2>1, PicAssumption
  <1> QED
    BY <1>1

\* The registers after a device holds its line or lets it go: channel c of
\* chip i follows the request it makes, if it makes one.
LEMMA HoldRegisters ==
    ASSUME Inv, NEW i \in Chips, NEW c \in Channels, NEW on \in BOOLEAN, NEW asks,
           IF asks THEN Request(i, c, on) ELSE UNCHANGED <<pic, stale>>,
           UNCHANGED stack
    PROVE  /\ pic' \in [Chips -> Chip] /\ stale' \in BOOLEAN
           /\ FrozenToPoll' /\ CachesValid' /\ IntIsExact' /\ ServiceMatchesStack'
           /\ \A j \in Chips : \A e \in Level[j] :
                e \in pic'[j].irr <=> IF asks /\ j = i /\ e = c THEN on ELSE e \in pic[j].irr
  <1>1. /\ pic \in [Chips -> Chip] /\ stale \in BOOLEAN /\ \A j \in Chips : Serves(j, pic[j], stack)
        /\ FrozenToPoll /\ CachesValid
    BY ServesIs DEF Inv, TypeOK
  <1>2. CASE asks
    <2>1. PICK p \in [Chips -> Chip] : Update(p) /\ Requested(p, i, c, on)
      BY <1>1, <1>2, RequestIs
    <2>2. \A j \in Chips : Valid(p[j]) /\ (p[j].frozen => p[j].poll) /\ Serves(j, p[j], stack')
      BY <1>1, <2>1, AlikeIs DEF FrozenToPoll, CachesValid, Requested
    <2>3. /\ pic' \in [Chips -> Chip] /\ stale' \in BOOLEAN
          /\ FrozenToPoll' /\ CachesValid' /\ IntIsExact'
      BY <1>1, <2>1, <2>2, UpdateCaches
    <2>4. ServiceMatchesStack'
      BY <2>1, <2>2, UpdateServes
    <2>5. \A j \in Chips : \A e \in Level[j] : e \in pic'[j].irr <=> e \in p[j].irr
      BY <2>1, UpdateRequests, LevelsAreChannels
    <2>6. \A j \in Chips : \A e \in Level[j] : e \in p[j].irr <=> IF j = i /\ e = c THEN on ELSE e \in pic[j].irr
      BY <2>1 DEF Requested
    <2> QED
      BY <1>2, <2>3, <2>4, <2>5, <2>6
  <1>3. CASE ~asks
    <2>1. pic' = pic /\ stale' = stale /\ stack' = stack
      BY <1>3
    <2>2. FrozenToPoll' /\ CachesValid' /\ IntIsExact' /\ ServiceMatchesStack'
      BY <2>1 DEF Inv, FrozenToPoll, CachesValid, IntIsExact, ServiceMatchesStack, Handlers, Ready
    <2> QED
      BY <1>1, <1>3, <2>1, <2>2
  <1> QED
    BY <1>2, <1>3

LEMMA HoldInv ==
    ASSUME Inv, NEW d \in Devices, NEW on \in BOOLEAN, Hold(d, on)
    PROVE  Inv'
  <1> DEFINE i == Wire[d][1]
             c == Wire[d][2]
             change == asserted[d] # on
             held == IF on THEN lines[i][c] + 1 ELSE lines[i][c] - 1
             asks == c \notin Level[i] \/ (change /\ lines'[i][c] = (IF on THEN 1 ELSE 0))
  <1>1. /\ TypeOK /\ CountsHolders /\ asserted \in [Devices -> BOOLEAN]
        /\ lines \in [Chips -> [Channels -> 0 .. LineWrap - 1]]
    BY DEF Inv, TypeOK
  <1>2. /\ asserted' = [asserted EXCEPT ![d] = on]
        /\ lines' = IF change THEN [lines EXCEPT ![i][c] = held % LineWrap] ELSE lines
        /\ IF asks THEN Request(i, c, on) ELSE UNCHANGED <<pic, stale>>
        /\ UNCHANGED <<stack, missed>>
    BY DEF Hold
  <1>3. i \in Chips /\ c \in Channels /\ Wire[d] = <<i, c>>
    BY WireIs
  <1>4. /\ pic' \in [Chips -> Chip] /\ stale' \in BOOLEAN
        /\ FrozenToPoll' /\ CachesValid' /\ IntIsExact' /\ ServiceMatchesStack'
        /\ \A j \in Chips : \A e \in Level[j] :
             e \in pic'[j].irr <=> IF asks /\ j = i /\ e = c THEN on ELSE e \in pic[j].irr
    <2> HIDE DEF i, c, asks
    <2> QED
      BY <1>2, <1>3, HoldRegisters
  <1>5. LET n == Cardinality(Holding(i, c))
            k == Cardinality(Holding(i, c)')
        IN  change => n \in Nat /\ k \in Nat /\ k < LineWrap /\ k = IF on THEN n + 1 ELSE n - 1
    BY <1>1, <1>2, HoldingCounts
  <1>6. \A j, e : <<j, e>> # <<i, c>> => Holding(j, e)' = Holding(j, e)
    BY <1>1, <1>2, <1>3, HoldingElsewhere
  <1>7. lines[i][c] \in 0 .. LineWrap - 1 /\ held \in Int /\ held % LineWrap \in 0 .. LineWrap - 1
        /\ (held \in 0 .. LineWrap - 1 => held % LineWrap = held)
    <2>1. lines[i][c] \in 0 .. LineWrap - 1
      BY <1>1, <1>3
    <2>2. held \in Int
      BY <2>1
    <2> QED
      BY <2>1, <2>2, WrapIs
  <1> HIDE DEF i, c, held
  <1>8. lines' \in [Chips -> [Channels -> 0 .. LineWrap - 1]]
    BY <1>1, <1>2, <1>3, <1>7
  <1>9. TypeOK'
    BY <1>1, <1>2, <1>4, <1>8 DEF TypeOK
  <1>10. CountsHolders'
    <2> SUFFICES ASSUME NEW j \in Chips, NEW e \in Channels, WiredTo(j, e) \cap missed' = {}
                 PROVE  /\ lines'[j][e] = Cardinality(Holding(j, e)')
                        /\ e \in Level[j] => (e \in pic'[j].irr <=> lines'[j][e] > 0)
      BY DEF CountsHolders
    <2>1. /\ lines[j][e] = Cardinality(Holding(j, e))
          /\ e \in Level[j] => (e \in pic[j].irr <=> lines[j][e] > 0)
      BY <1>1, <1>2 DEF CountsHolders
    <2>2. CASE <<j, e>> # <<i, c>>
      <3>1. lines'[j][e] = lines[j][e]
        BY <1>1, <1>2, <1>3, <2>2
      <3>2. e \in Level[j] => (e \in pic'[j].irr <=> e \in pic[j].irr)
        BY <1>4, <2>2
      <3> QED
        BY <1>6, <2>1, <2>2, <3>1, <3>2
    <2>3. CASE j = i /\ e = c /\ ~change
      <3>1. asserted' = asserted /\ lines' = lines
        BY <1>1, <1>2, <2>3
      <3>2. Holding(j, e)' = Holding(j, e)
        BY <3>1 DEF Holding
      <3>3. e \in Level[j] => (e \in pic'[j].irr <=> e \in pic[j].irr)
        BY <1>4, <2>3
      <3> QED
        BY <2>1, <3>1, <3>2, <3>3
    <2>4. CASE j = i /\ e = c /\ change
      <3>1. lines'[i][c] = held % LineWrap
        BY <1>1, <1>2, <1>3, <2>4
      <3>2. held = Cardinality(Holding(i, c)')
        BY <1>5, <2>1, <2>4 DEF held
      <3>3. lines'[i][c] = held /\ held \in Nat
        <4>1. held \in Nat /\ held < LineWrap
          BY <1>5, <2>4, <3>2
        <4>2. held \in 0 .. LineWrap - 1
          BY <4>1, PicAssumption
        <4> QED
          BY <1>7, <3>1, <4>1, <4>2
      <3>4. ASSUME c \in Level[i] PROVE c \in pic'[i].irr <=> held > 0
        <4>1. asks <=> held = (IF on THEN 1 ELSE 0)
          BY <2>4, <3>3, <3>4
        <4>2. c \in pic'[i].irr <=> IF held = (IF on THEN 1 ELSE 0) THEN on ELSE c \in pic[i].irr
          BY <1>3, <1>4, <3>4, <4>1
        <4>3. c \in pic[i].irr <=> lines[i][c] > 0
          BY <2>1, <2>4, <3>4
        <4> QED
          BY <1>7, <3>3, <4>2, <4>3 DEF held
      <3> QED
        BY <2>4, <3>2, <3>3, <3>4
    <2> QED
      BY <2>2, <2>3, <2>4
  <1> QED
    BY <1>4, <1>9, <1>10 DEF Inv

LEMMA HoldUnseenInv ==
    ASSUME Inv, NEW d \in Devices, NEW on \in BOOLEAN, HoldUnseen(d, on)
    PROVE  Inv'
  <1>1. /\ asserted' = [asserted EXCEPT ![d] = on] /\ missed' = missed \cup {d}
        /\ UNCHANGED <<pic, lines, stack, stale>>
    BY DEF HoldUnseen
  <1>2. TypeOK /\ CountsHolders /\ asserted \in [Devices -> BOOLEAN]
    BY DEF Inv, TypeOK
  <1>3. TypeOK'
    BY <1>1, <1>2 DEF TypeOK
  <1>4. FrozenToPoll' /\ CachesValid' /\ IntIsExact' /\ ServiceMatchesStack'
    BY <1>1 DEF Inv, FrozenToPoll, CachesValid, IntIsExact, ServiceMatchesStack, Handlers, Ready
  <1>5. CountsHolders'
    <2> SUFFICES ASSUME NEW j \in Chips, NEW e \in Channels, WiredTo(j, e) \cap missed' = {}
                 PROVE  /\ lines'[j][e] = Cardinality(Holding(j, e)')
                        /\ e \in Level[j] => (e \in pic'[j].irr <=> lines'[j][e] > 0)
      BY DEF CountsHolders
    <2>1. Wire[d] # <<j, e>> /\ WiredTo(j, e) \cap missed = {}
      BY <1>1 DEF WiredTo
    <2>2. Holding(j, e)' = Holding(j, e)
      BY <1>1, <1>2, <2>1, HoldingElsewhere
    <2> QED
      BY <1>1, <1>2, <2>1, <2>2 DEF CountsHolders
  <1> QED
    BY <1>3, <1>4, <1>5 DEF Inv

-----------------------------------------------------------------------------
(* The CPU takes an interrupt.                                             *)

\* What a chip takes is no level that a device holds.
LEMMA AnsweredLevel ==
    ASSUME CountsHolders, NEW i \in Chips, NEW c \in Level[i], WiredTo(i, c) \cap missed = {},
           NEW s, s.irr = IF pic[i].best \in Level[i] /\ lines[i][pic[i].best] > 0
                          THEN pic[i].irr ELSE pic[i].irr \ {pic[i].best}
    PROVE  c \in s.irr <=> c \in pic[i].irr
  <1>1. c \in pic[i].irr <=> lines[i][c] > 0
    BY LevelsAreChannels DEF CountsHolders
  <1>2. CASE pic[i].best = c
    BY <1>1, <1>2
  <1>3. CASE pic[i].best # c
    BY <1>3
  <1> QED
    BY <1>2, <1>3

\* The handlers of a chip that has answered.
LEMMA AnsweredServes ==
    ASSUME NEW i \in Chips, NEW r \in Chip, r.pending, Valid(r), NEW s, Answered(i, r, s),
           NEW st \in Seq(Handler), Serves(i, r, st)
    PROVE  LET up == IF r.aeoi THEN st ELSE Append(st, <<i, r.best>>)
           IN  up \in Seq(Handler) /\ Serves(i, s, up)
  <1>1. r.best \in Channels /\ \A d \in r.isr : Rank(r, r.best) < Rank(r, d)
    BY DEF Valid
  <1>2. CASE r.aeoi
    BY <1>2, ServesKept DEF Answered
  <1>3. CASE ~r.aeoi
    <2>1. s.isr = r.isr \cup {r.best} /\ s.priority = r.priority
      BY <1>3 DEF Answered
    <2>2. Serves(i, s, Append(st, <<i, r.best>>))
      BY <1>1, <2>1, ServesPush
    <2>3. <<i, r.best>> \in Handler
      BY <1>1 DEF Handler
    <2> QED
      BY <1>3, <2>2, <2>3, AppendIs
  <1> QED
    BY <1>2, <1>3

LEMMA TakeFromMasterInv ==
    ASSUME Inv, Idle, pic[Master].pending, TakeFromMaster, UNCHANGED <<lines, asserted, missed>>
    PROVE  Inv'
  <1> USE TwoChips
  <1>1. /\ pic \in [Chips -> Chip] /\ stack \in Seq(Handler) /\ \A j \in Chips : Serves(j, pic[j], stack)
        /\ FrozenToPoll /\ CountsHolders /\ \A j \in Chips : Valid(pic[j])
    BY ServesIs DEF Inv, TypeOK, CachesValid
  <1>2. PICK p \in [Chips -> Chip] :
          /\ Update(p) /\ ~p[Master].frozen
          /\ Answered(Master, pic[Master], p[Master]) /\ p[Slave] = pic[Slave]
    BY <1>1, MasterTakes
  <1>3. stack' = IF pic[Master].aeoi THEN stack ELSE Append(stack, <<Master, pic[Master].best>>)
    BY DEF TakeFromMaster
  <1>4. stack' \in Seq(Handler) /\ Serves(Master, p[Master], stack')
    BY <1>1, <1>2, <1>3, AnsweredServes
  <1>5. Serves(Slave, p[Slave], stack')
    <2>1. <<Master, pic[Master].best>> \in Handler /\ <<Master, pic[Master].best>>[1] # Slave
      BY <1>1 DEF Valid, Handler
    <2> QED
      BY <1>1, <1>2, <1>3, <2>1, ServesOther
  <1>6. \A i \in Chips : p[i].frozen => p[i].poll
    BY <1>1, <1>2 DEF FrozenToPoll
  <1>7. \A i \in Chips : \A c \in Level[i] :
          WiredTo(i, c) \cap missed = {} => (c \in p[i].irr <=> c \in pic[i].irr)
    BY <1>1, <1>2, AnsweredLevel DEF Answered
  <1> QED
    BY <1>2, <1>4, <1>5, <1>6, <1>7, UpdateStep

LEMMA TakeFromSlaveInv ==
    ASSUME Inv, Idle, pic[Master].pending, TakeFromSlave, UNCHANGED <<lines, asserted, missed>>
    PROVE  Inv'
  <1> USE TwoChips
  <1>1. /\ pic \in [Chips -> Chip] /\ stack \in Seq(Handler) /\ \A j \in Chips : Serves(j, pic[j], stack)
        /\ FrozenToPoll /\ CountsHolders /\ \A j \in Chips : Valid(pic[j])
    BY ServesIs DEF Inv, TypeOK, CachesValid
  <1>2. PICK p \in [Chips -> Chip] :
          Update(p) /\ \A i \in Chips : ~p[i].frozen /\ Answered(i, pic[i], p[i])
    BY <1>1, SlaveTakes
  <1>3. /\ pic[Slave].pending /\ pic[Master].best = Cascade
        /\ <<Master, Cascade>> \in Handler /\ <<Slave, pic[Slave].best>> \in Handler
    BY <1>1, Sizes DEF TakeFromSlave, Valid, Handler
  <1> DEFINE mid == IF pic[Master].aeoi THEN stack ELSE Append(stack, <<Master, Cascade>>)
  <1>4. mid \in Seq(Handler) /\ Serves(Master, p[Master], mid)
    BY <1>1, <1>2, <1>3, AnsweredServes
  <1>5. Serves(Slave, pic[Slave], mid)
    <2>1. <<Master, Cascade>>[1] # Slave
      OBVIOUS
    <2> QED
      BY <1>1, <1>3, <2>1, ServesOther
  <1>6. stack' = IF pic[Slave].aeoi THEN mid ELSE Append(mid, <<Slave, pic[Slave].best>>)
    <2> DEFINE m == IF pic[Master].aeoi THEN <<>> ELSE <<<<Master, Cascade>>>>
               s == IF pic[Slave].aeoi THEN <<>> ELSE <<<<Slave, pic[Slave].best>>>>
    <2>1. stack' = stack \o m \o s
      BY DEF TakeFromSlave
    <2>2. \A sq \in Seq(Handler), x \in Handler : sq \o <<x>> = Append(sq, x) /\ sq \o <<>> = sq
      OBVIOUS
    <2>3. stack \o m = mid
      BY <1>1, <1>3, <2>2
    <2> HIDE DEF mid, m
    <2>4. mid \o s = IF pic[Slave].aeoi THEN mid ELSE Append(mid, <<Slave, pic[Slave].best>>)
      BY <1>3, <1>4, <2>2
    <2> QED
      BY <2>1, <2>3, <2>4
  <1> HIDE DEF mid
  <1>7. stack' \in Seq(Handler) /\ Serves(Slave, p[Slave], stack')
    BY <1>1, <1>2, <1>3, <1>4, <1>5, <1>6, AnsweredServes
  <1>8. Serves(Master, p[Master], stack')
    <2>1. <<Slave, pic[Slave].best>>[1] # Master
      OBVIOUS
    <2> QED
      BY <1>3, <1>4, <1>6, <2>1, ServesOther
  <1>9. \A i \in Chips : \A c \in Level[i] :
          WiredTo(i, c) \cap missed = {} => (c \in p[i].irr <=> c \in pic[i].irr)
    BY <1>1, <1>2, AnsweredLevel DEF Answered
  <1> QED
    BY <1>2, <1>7, <1>8, <1>9, UpdateStep

-----------------------------------------------------------------------------
(* The guest.                                                              *)

\* With the chips idle nothing is frozen.
LEMMA IdleIs ==
    ASSUME Inv, Idle
    PROVE  \A i \in Chips : ~pic[i].frozen /\ ~pic[i].poll /\ pic[i].state = "ready"
  BY DEF Inv, FrozenToPoll, Idle, Ready, Polling

LEMMA EoiInv ==
    ASSUME Inv, NEW i \in Chips, NEW rotate \in Rotations, Eoi(i, rotate)
    PROVE  Inv'
  <1> USE TwoChips
  <1> DEFINE s == Action(pic[i], rotate)
             p == [pic EXCEPT ![i] = s]
             front == SubSeq(stack, 1, Len(stack) - 1)
  <1>1. /\ pic \in [Chips -> Chip] /\ stack \in Seq(Handler) /\ \A j \in Chips : Serves(j, pic[j], stack)
    BY ServesIs DEF Inv, TypeOK
  <1>2. /\ Idle /\ stack # <<>> /\ stack[Len(stack)][1] = i /\ stack' = front
        /\ Update(p) /\ UNCHANGED <<lines, asserted, missed>>
    BY DEF Eoi
  <1>3. /\ rotate \in BOOLEAN /\ pic[i] \in Chip
        /\ s \in Chip /\ SameSetup(pic[i], s) /\ s.irr = pic[i].irr /\ s.frozen = pic[i].frozen
    <2>1. rotate \in BOOLEAN /\ pic[i] \in Chip
      BY <1>1, PicAssumption
    <2> QED
      BY <2>1, ActionIs
  <1>4. front \in Seq(Handler) /\ Serves(i, s, front)
    BY <1>1, <1>2, <1>3, ServesPop, FrontIs
  <1>5. \A j \in Chips : j # i => Serves(j, pic[j], front)
    BY <1>1, <1>2, ServesFront
  <1>6. \A j \in Chips : ~pic[j].frozen
    BY <1>2, IdleIs
  <1> HIDE DEF s, front
  <1>7. p \in [Chips -> Chip] /\ p[i] = s /\ \A j \in Chips : j # i => p[j] = pic[j]
    BY <1>1, <1>3
  <1> HIDE DEF p
  <1>8. /\ \A j \in Chips : ~p[j].frozen /\ Serves(j, p[j], stack') /\ p[j].irr = pic[j].irr
        /\ stack' \in Seq(Handler)
    BY <1>2, <1>3, <1>4, <1>5, <1>6, <1>7
  <1> QED
    BY <1>2, <1>7, <1>8, UpdateStep

LEMMA MaskInv ==
    ASSUME Inv, NEW i \in Chips, NEW m \in Masks, Mask(i, m)
    PROVE  Inv'
  <1> DEFINE s == [pic[i] EXCEPT !.imr = m]
             p == [pic EXCEPT ![i] = s]
  <1>1. /\ pic \in [Chips -> Chip] /\ stack \in Seq(Handler) /\ \A j \in Chips : Serves(j, pic[j], stack)
    BY ServesIs DEF Inv, TypeOK
  <1>2. Idle /\ Update(p) /\ UNCHANGED <<lines, asserted, stack, missed>>
    BY DEF Mask
  <1>3. pic[i] \in Chip /\ m \subseteq Channels
    BY <1>1, PicAssumption
  <1>4. /\ s \in Chip /\ s.irr = pic[i].irr /\ s.isr = pic[i].isr /\ s.priority = pic[i].priority
        /\ s.frozen = pic[i].frozen
    BY <1>3 DEF Chip
  <1>5. \A j \in Chips : ~pic[j].frozen
    BY <1>2, IdleIs
  <1> HIDE DEF s
  <1>6. p \in [Chips -> Chip] /\ p[i] = s /\ \A j \in Chips : j # i => p[j] = pic[j]
    BY <1>1, <1>4
  <1> HIDE DEF p
  <1>7. Serves(i, p[i], stack)
    BY <1>1, <1>4, <1>6, ServesKept
  <1>8. /\ \A j \in Chips : ~p[j].frozen /\ Serves(j, p[j], stack') /\ p[j].irr = pic[j].irr
        /\ stack' \in Seq(Handler) /\ UNCHANGED <<lines, asserted, missed>>
    BY <1>1, <1>2, <1>4, <1>5, <1>6, <1>7
  <1>9. p[Master].frozen => \A j \in Chips : Valid(p[j])
    BY <1>8, TwoChips
  <1> QED
    BY <1>2, <1>6, <1>8, <1>9, UpdateStep

\* A chip that answers a poll has in service what it found, and its request is
\* gone unless a device holds it.
Polled(i, p) ==
    /\ ~p[i].frozen /\ ~p[i].pending /\ p[i].state = pic[i].state
    /\ p[i].priority = pic[i].priority /\ p[i].isr = pic[i].isr \cup {pic[i].best}
    /\ p[i].irr = IF pic[i].best \in Level[i] /\ lines[i][pic[i].best] > 0
                  THEN pic[i].irr ELSE pic[i].irr \ {pic[i].best}
    /\ \A j \in Chips : j # i => p[j] = pic[j]

LEMMA PollTakes ==
    ASSUME pic \in [Chips -> Chip], NEW i \in Chips, Valid(pic[i]), PollHit(i)
    PROVE  /\ pic[i].poll /\ pic[i].best \in Channels
           /\ UNCHANGED <<lines, asserted, missed>>
           /\ stack' = Append(stack, <<i, pic[i].best>>)
           /\ \E p \in [Chips -> Chip] : Update(p) /\ Polled(i, p)
  <1> DEFINE r == pic[i]
             t == [r EXCEPT !.poll = FALSE, !.frozen = FALSE]
             a == Thawed(i)
             b == Acknowledge(a, i)
             s == [b[i] EXCEPT !.pending = FALSE]
             p == [b EXCEPT ![i].pending = FALSE]
  <1>1. r \in Chip /\ r.best \in Channels /\ r.poll /\ r.pending
    BY DEF PollHit, Valid
  <1>2. a = [pic EXCEPT ![i] = t]
    BY <1>1 DEF Thawed
  <1>3. /\ t \in Chip /\ t.priority = r.priority /\ t.isr = r.isr /\ t.irr = r.irr /\ t.best = r.best
        /\ t.frozen = FALSE /\ t.state = r.state
    BY <1>1 DEF Chip
  <1> HIDE DEF t
  <1>4. a \in [Chips -> Chip] /\ a[i] = t /\ \A j \in Chips : j # i => a[j] = pic[j]
    BY <1>2, <1>3
  <1> HIDE DEF a
  <1>5. /\ b \in [Chips -> Chip] /\ b[i].priority = r.priority /\ b[i].isr = r.isr \cup {r.best}
        /\ b[i].irr = IF r.best \in Level[i] /\ lines[i][r.best] > 0 THEN r.irr ELSE r.irr \ {r.best}
        /\ b[i].frozen = FALSE /\ b[i].state = r.state
        /\ \A j \in Chips : j # i => b[j] = pic[j]
    <2>1. /\ b \in [Chips -> Chip] /\ \A j \in Chips : j # i => b[j] = a[j]
          /\ SameSetup(a[i], b[i]) /\ b[i].priority = a[i].priority /\ b[i].frozen = a[i].frozen
          /\ b[i].isr = a[i].isr \cup {a[i].best}
          /\ b[i].irr = IF a[i].best \in Level[i] /\ lines[i][a[i].best] > 0
                        THEN a[i].irr ELSE a[i].irr \ {a[i].best}
      BY <1>1, <1>3, <1>4, AcknowledgeIs, ZenonT(40)
    <2> QED
      BY <1>3, <1>4, <2>1 DEF SameSetup
  <1>6. Update(p) /\ stack' = Append(stack, <<i, r.best>>) /\ UNCHANGED <<lines, asserted, missed>>
    BY DEF PollHit, b, a
  <1> HIDE DEF b
  <1>7. b[i] \in Chip /\ p = [b EXCEPT ![i] = s]
    BY <1>5
  <1>8. /\ s \in Chip /\ s.pending = FALSE /\ s.priority = b[i].priority /\ s.isr = b[i].isr
        /\ s.irr = b[i].irr /\ s.frozen = b[i].frozen /\ s.state = b[i].state
    BY <1>7 DEF Chip
  <1> HIDE DEF s
  <1>9. p \in [Chips -> Chip] /\ p[i] = s /\ \A j \in Chips : j # i => p[j] = pic[j]
    BY <1>5, <1>7, <1>8
  <1>10. Polled(i, p)
    BY <1>5, <1>8, <1>9 DEF Polled
  <1> HIDE DEF p
  <1> QED
    BY <1>1, <1>6, <1>9, <1>10

LEMMA PollHitInv ==
    ASSUME Inv, NEW i \in Chips, PollHit(i)
    PROVE  Inv'
  <1> USE TwoChips
  <1>1. /\ pic \in [Chips -> Chip] /\ stack \in Seq(Handler) /\ \A j \in Chips : Serves(j, pic[j], stack)
        /\ FrozenToPoll /\ CountsHolders /\ \A j \in Chips : Valid(pic[j])
    BY ServesIs DEF Inv, TypeOK, CachesValid
  <1> DEFINE b == pic[i].best
  <1>2. /\ b \in Channels /\ UNCHANGED <<lines, asserted, missed>> /\ stack' = Append(stack, <<i, b>>)
    BY <1>1, PollTakes
  <1>3. PICK p \in [Chips -> Chip] : Update(p) /\ Polled(i, p)
    BY <1>1, PollTakes
  <1>4. pic[i].pending /\ \A d \in pic[i].isr : Rank(pic[i], b) < Rank(pic[i], d)
    BY <1>1 DEF PollHit, Valid
  <1>5. Serves(i, p[i], stack')
    BY <1>1, <1>2, <1>3, <1>4, ServesPush DEF Polled
  <1>6. <<i, b>> \in Handler /\ stack' \in Seq(Handler)
    BY <1>1, <1>2, AppendIs DEF Handler
  <1>7. \A j \in Chips : j # i => Serves(j, p[j], stack')
    <2> SUFFICES ASSUME NEW j \in Chips, j # i PROVE Serves(j, p[j], stack')
      OBVIOUS
    <2>1. <<i, b>>[1] # j
      OBVIOUS
    <2> QED
      BY <1>1, <1>2, <1>3, <1>6, <2>1, ServesOther DEF Polled
  <1>8. \A j \in Chips : Valid(p[j]) /\ (p[j].frozen => p[j].poll) /\ Serves(j, p[j], stack')
    BY <1>1, <1>3, <1>5, <1>7 DEF Valid, FrozenToPoll, Polled
  <1>9. \A j \in Chips : \A c \in Level[j] :
          WiredTo(j, c) \cap missed = {} => (c \in p[j].irr <=> c \in pic[j].irr)
    BY <1>1, <1>3, AnsweredLevel DEF Polled
  <1> QED
    BY <1>2, <1>3, <1>6, <1>8, <1>9, UpdateStep

\* A step without update_pending: it changes the set-up, a poll or whether a
\* chip is frozen, and neither requests nor what was found.
LEMMA SetupStep ==
    ASSUME Inv, pic' \in [Chips -> Chip], stale' \in BOOLEAN, UNCHANGED <<lines, asserted, stack, missed>>,
           IntIsExact', \A i \in Chips : pic'[i].frozen => pic'[i].poll,
           \A i \in Chips : /\ pic'[i].irr = pic[i].irr /\ pic'[i].imr = pic[i].imr
                            /\ pic'[i].isr = pic[i].isr /\ pic'[i].priority = pic[i].priority
                            /\ pic'[i].best = pic[i].best /\ pic'[i].pending = pic[i].pending
    PROVE  Inv'
  <1>1. TypeOK /\ CachesValid /\ CountsHolders /\ \A i \in Chips : Serves(i, pic[i], stack)
    BY ServesIs DEF Inv
  <1>2. TypeOK'
    BY <1>1 DEF TypeOK
  <1>3. CachesValid'
    <2> SUFFICES ASSUME NEW i \in Chips PROVE Valid(pic'[i])
      BY DEF CachesValid
    <2>1. \A c : Rank(pic'[i], c) = Rank(pic[i], c)
      BY DEF Rank
    <2> QED
      BY <1>1, <2>1 DEF CachesValid, Valid
  <1>4. FrozenToPoll'
    BY DEF FrozenToPoll
  <1>5. ServiceMatchesStack'
    <2>1. \A i \in Chips : Serves(i, pic'[i], stack)
      BY <1>1, ServesKept
    <2>2. \A i \in Chips : Serves(i, pic'[i], stack')
      BY <2>1
    <2> QED
      BY <2>2 DEF ServiceMatchesStack, Serves, Handlers, HandlersOf
  <1>6. CountsHolders'
    BY <1>1, CountsKept
  <1> QED
    BY <1>2, <1>3, <1>4, <1>5, <1>6 DEF Inv

LEMMA PollCommandInv ==
    ASSUME Inv, NEW i \in Chips, PollCommand(i)
    PROVE  Inv'
  <1> DEFINE r == pic[i]
             s == [r EXCEPT !.poll = TRUE, !.frozen = TRUE]
  <1>1. pic \in [Chips -> Chip] /\ stale \in BOOLEAN /\ IntIsExact /\ r \in Chip
    BY DEF Inv, TypeOK
  <1>2. Idle /\ pic' = [pic EXCEPT ![i] = s] /\ UNCHANGED <<lines, asserted, stack, stale, missed>>
    BY <1>1 DEF PollCommand
  <1>3. /\ s \in Chip /\ s.irr = r.irr /\ s.imr = r.imr /\ s.isr = r.isr /\ s.priority = r.priority
        /\ s.best = r.best /\ s.pending = r.pending /\ s.state = r.state /\ s.poll = TRUE /\ s.frozen = TRUE
    BY <1>1 DEF Chip
  <1> HIDE DEF s
  <1>4. pic' \in [Chips -> Chip] /\ pic'[i] = s /\ \A j \in Chips : j # i => pic'[j] = pic[j]
    BY <1>1, <1>2, <1>3
  <1>5. \A j \in Chips : ~pic[j].frozen
    BY <1>2, IdleIs
  <1>6. \A j \in Chips : /\ pic'[j].irr = pic[j].irr /\ pic'[j].imr = pic[j].imr
                         /\ pic'[j].isr = pic[j].isr /\ pic'[j].priority = pic[j].priority
                         /\ pic'[j].best = pic[j].best /\ pic'[j].pending = pic[j].pending
                         /\ pic'[j].state = pic[j].state
    BY <1>3, <1>4
  <1>7. \A j \in Chips : pic'[j].frozen => pic'[j].poll
    BY <1>3, <1>4, <1>5
  <1>8. \A j \in Chips : BestOf(pic'[j]) = BestOf(pic[j])
    BY <1>1, <1>4, <1>6, BestDepends
  <1>9. IntIsExact'
    <2>1. Ready' <=> Ready
      BY <1>6 DEF Ready
    <2>2. ~pic[Master].frozen /\ stale' = stale
      BY <1>2, <1>5, TwoChips
    <2> QED
      BY <1>1, <1>6, <1>8, <2>1, <2>2, TwoChips DEF IntIsExact
  <1>10. stale' \in BOOLEAN /\ UNCHANGED <<lines, asserted, stack, missed>>
    BY <1>1, <1>2
  <1> QED
    BY <1>4, <1>6, <1>7, <1>9, <1>10, SetupStep

LEMMA PollMissInv ==
    ASSUME Inv, NEW i \in Chips, PollMiss(i)
    PROVE  Inv'
  <1> DEFINE r == pic[i]
             s == [r EXCEPT !.poll = FALSE, !.frozen = FALSE]
  <1>1. pic \in [Chips -> Chip] /\ FrozenToPoll /\ r \in Chip
    BY DEF Inv, TypeOK
  <1>2. pic' = [pic EXCEPT ![i] = s] /\ stale' = TRUE /\ UNCHANGED <<lines, asserted, stack, missed>>
    BY <1>1 DEF PollMiss, Thawed
  <1>3. /\ s \in Chip /\ s.irr = r.irr /\ s.imr = r.imr /\ s.isr = r.isr /\ s.priority = r.priority
        /\ s.best = r.best /\ s.pending = r.pending /\ s.frozen = FALSE
    BY <1>1 DEF Chip
  <1> HIDE DEF s
  <1>4. pic' \in [Chips -> Chip] /\ pic'[i] = s /\ \A j \in Chips : j # i => pic'[j] = pic[j]
    BY <1>1, <1>2, <1>3
  <1>5. \A j \in Chips : /\ pic'[j].irr = pic[j].irr /\ pic'[j].imr = pic[j].imr
                         /\ pic'[j].isr = pic[j].isr /\ pic'[j].priority = pic[j].priority
                         /\ pic'[j].best = pic[j].best /\ pic'[j].pending = pic[j].pending
    BY <1>3, <1>4
  <1>6. \A j \in Chips : pic'[j].frozen => pic'[j].poll
    BY <1>1, <1>3, <1>4 DEF FrozenToPoll
  <1>7. IntIsExact'
    BY <1>2 DEF IntIsExact
  <1> QED
    BY <1>2, <1>4, <1>5, <1>6, <1>7, SetupStep

\* The other initialisation words set the chip up and touch nothing else.
LEMMA IcwIs ==
    ASSUME pic \in [Chips -> Chip], NEW i \in Chips, Icw(i)
    PROVE  \E s \in Chip :
             /\ pic' = [pic EXCEPT ![i] = s]
             /\ s.irr = pic[i].irr /\ s.imr = pic[i].imr /\ s.isr = pic[i].isr
             /\ s.priority = pic[i].priority /\ s.best = pic[i].best /\ s.pending = pic[i].pending
             /\ s.frozen = pic[i].frozen /\ s.poll = pic[i].poll
  <1> DEFINE r == pic[i]
             next == CASE r.state = "icw2" -> "icw3" [] r.state = "icw3" -> "icw4"
                       [] r.state = "icw4" -> "ready"
  <1>1. r \in Chip
    OBVIOUS
  <1>2. PICK auto \in AutoEois :
          pic' = [pic EXCEPT ![i].state = CASE @ = "icw2" -> "icw3" [] @ = "icw3" -> "icw4"
                                            [] @ = "icw4" -> "ready",
                             ![i].aeoi = IF pic[i].state = "icw4" THEN auto ELSE @]
    BY DEF Icw
  <1> DEFINE aeoi == IF r.state = "icw4" THEN auto ELSE r.aeoi
             s == [r EXCEPT !.state = next, !.aeoi = aeoi]
  <1>3. pic' = [pic EXCEPT ![i] = s]
    <2>1. [pic EXCEPT ![i].state = next][i].aeoi = r.aeoi
      BY <1>1 DEF Chip
    <2>2. pic' = [pic EXCEPT ![i].state = next, ![i].aeoi = aeoi]
      BY <1>2, <2>1
    <2> HIDE DEF next, aeoi
    <2> QED
      BY <1>1, <2>2
  <1>4. next \in States /\ aeoi \in BOOLEAN
    <2>1. r.state \in States /\ r.state # "ready" /\ r.aeoi \in BOOLEAN
      BY <1>1 DEF Icw, Chip
    <2>2. auto \in BOOLEAN
      BY PicAssumption
    <2> QED
      BY <2>1, <2>2 DEF States
  <1> HIDE DEF next, aeoi
  <1>5. /\ s \in Chip /\ s.irr = r.irr /\ s.imr = r.imr /\ s.isr = r.isr /\ s.priority = r.priority
        /\ s.best = r.best /\ s.pending = r.pending /\ s.frozen = r.frozen /\ s.poll = r.poll
    BY <1>1, <1>4 DEF Chip
  <1> HIDE DEF s
  <1> QED
    BY <1>3, <1>5

LEMMA IcwInv ==
    ASSUME Inv, NEW i \in Chips, Icw(i)
    PROVE  Inv'
  <1> DEFINE r == pic[i]
  <1>1. pic \in [Chips -> Chip] /\ FrozenToPoll
    BY DEF Inv, TypeOK
  <1>2. PICK s \in Chip :
          /\ pic' = [pic EXCEPT ![i] = s]
          /\ s.irr = r.irr /\ s.imr = r.imr /\ s.isr = r.isr
          /\ s.priority = r.priority /\ s.best = r.best /\ s.pending = r.pending
          /\ s.frozen = r.frozen /\ s.poll = r.poll
    BY <1>1, IcwIs
  <1>3. pic' \in [Chips -> Chip] /\ pic'[i] = s /\ \A j \in Chips : j # i => pic'[j] = pic[j]
    BY <1>1, <1>2
  <1>4. \A j \in Chips : /\ pic'[j].irr = pic[j].irr /\ pic'[j].imr = pic[j].imr
                         /\ pic'[j].isr = pic[j].isr /\ pic'[j].priority = pic[j].priority
                         /\ pic'[j].best = pic[j].best /\ pic'[j].pending = pic[j].pending
    BY <1>2, <1>3
  <1>5. \A j \in Chips : pic'[j].frozen => pic'[j].poll
    BY <1>1, <1>2, <1>3 DEF FrozenToPoll
  <1>6. IntIsExact' /\ stale' = TRUE /\ UNCHANGED <<lines, asserted, stack, missed>>
    BY DEF Icw, IntIsExact
  <1> QED
    BY <1>3, <1>4, <1>5, <1>6, SetupStep

LEMMA Icw1Inv ==
    ASSUME Inv, NEW i \in Chips, Icw1(i)
    PROVE  Inv'
  <1> USE TwoChips
  <1> DEFINE irr == {c \in Channels : lines[i][c] > 0}
             s == [PowerOn EXCEPT !.irr = irr, !.aeoi = pic[i].aeoi, !.state = "icw2"]
             p == [pic EXCEPT ![i] = s]
  <1>1. /\ pic \in [Chips -> Chip] /\ stack \in Seq(Handler) /\ CountsHolders
        /\ \A j \in Chips : Serves(j, pic[j], stack)
    BY ServesIs DEF Inv, TypeOK
  <1>2. Idle /\ stack = <<>> /\ Update(p) /\ UNCHANGED <<lines, asserted, stack, missed>>
    BY DEF Icw1
  <1>3. s \in Chip /\ s.irr = irr /\ s.isr = {} /\ s.frozen = FALSE
    <2>1. pic[i].aeoi \in BOOLEAN /\ irr \subseteq Channels
      BY <1>1 DEF Chip
    <2> HIDE DEF irr
    <2> QED
      BY <2>1, Sizes DEF Chip, PowerOn, States
  <1>4. \A j \in Chips : ~pic[j].frozen
    BY <1>2, IdleIs
  <1>5. Serves(i, s, stack)
    <2>1. HandlersOf(stack, i) = {}
      BY <1>2 DEF HandlersOf
    <2> HIDE DEF s
    <2> QED
      BY <1>3, <2>1 DEF Serves
  <1> HIDE DEF s
  <1>6. p \in [Chips -> Chip] /\ p[i] = s /\ \A j \in Chips : j # i => p[j] = pic[j]
    BY <1>1, <1>3
  <1> HIDE DEF p
  <1>7. /\ \A j \in Chips : ~p[j].frozen /\ Serves(j, p[j], stack')
        /\ stack' \in Seq(Handler) /\ UNCHANGED <<lines, asserted, missed>>
    BY <1>1, <1>2, <1>3, <1>4, <1>5, <1>6
  <1>8. \A j \in Chips : \A c \in Level[j] :
          WiredTo(j, c) \cap missed = {} => (c \in p[j].irr <=> c \in pic[j].irr)
    BY <1>1, <1>3, <1>6, LevelsAreChannels DEF CountsHolders
  <1>9. p[Master].frozen => \A j \in Chips : Valid(p[j])
    BY <1>7
  <1> QED
    BY <1>2, <1>6, <1>7, <1>8, <1>9, UpdateStep

LEMMA TakeInv ==
    ASSUME Inv, Take
    PROVE  Inv'
  <1>1. /\ Idle /\ pic[Master].pending /\ UNCHANGED <<lines, asserted, missed>>
        /\ TakeFromSlave \/ TakeFromMaster
    BY DEF Take, Idle
  <1> QED
    BY <1>1, TakeFromSlaveInv, TakeFromMasterInv

LEMMA GuestInv ==
    ASSUME Inv, NEW i \in Chips, Guest(i)
    PROVE  Inv'
  <1>1. ASSUME NEW rotate \in Rotations, Eoi(i, rotate) PROVE Inv'
    BY <1>1, EoiInv
  <1>2. ASSUME NEW m \in Masks, Mask(i, m) PROVE Inv'
    BY <1>2, MaskInv
  <1>3. CASE PollCommand(i)
    BY <1>3, PollCommandInv
  <1>4. CASE PollHit(i)
    BY <1>4, PollHitInv
  <1>5. CASE PollMiss(i)
    BY <1>5, PollMissInv
  <1>6. CASE Icw1(i)
    BY <1>6, Icw1Inv
  <1>7. CASE Icw(i)
    BY <1>7, IcwInv
  <1> QED
    BY <1>1, <1>2, <1>3, <1>4, <1>5, <1>6, <1>7 DEF Guest

LEMMA NextInv ==
    ASSUME Inv, [Next]_vars
    PROVE  Inv'
  <1>1. ASSUME NEW d \in Devices, Pulse(d) PROVE Inv'
    BY <1>1, PulseInv
  <1>2. ASSUME NEW d \in Devices, NEW on \in BOOLEAN, Hold(d, on) \/ HoldUnseen(d, on) PROVE Inv'
    BY <1>2, HoldInv, HoldUnseenInv
  <1>3. CASE Take
    BY <1>3, TakeInv
  <1>4. ASSUME NEW i \in Chips, Guest(i) PROVE Inv'
    BY <1>4, GuestInv
  <1>5. CASE UNCHANGED vars
    <2> USE <1>5 DEF vars
    <2>1. TypeOK' /\ FrozenToPoll' /\ CachesValid'
      BY DEF Inv, TypeOK, FrozenToPoll, CachesValid
    <2>2. ServiceMatchesStack' /\ IntIsExact'
      BY DEF Inv, ServiceMatchesStack, Handlers, IntIsExact, Ready
    <2>3. CountsHolders'
      BY CountsKept DEF Inv
    <2> QED
      BY <2>1, <2>2, <2>3 DEF Inv
  <1> QED
    BY <1>1, <1>2, <1>3, <1>4, <1>5 DEF Next

-----------------------------------------------------------------------------
(* The theorems.                                                           *)

\* The invariant holds in every state: the controllers' types, that a chip is
\* frozen for a poll only, that what it found is still above what it has in
\* service, that its service register is the CPU's handlers, that its cache is
\* exact, and that a channel counts the devices that hold it.
THEOREM InvHolds == Spec => []Inv
  <1>1. Init => Inv
    BY InitInv
  <1>2. Inv /\ [Next]_vars => Inv'
    BY NextInv
  <1> QED
    BY <1>1, <1>2, PTL DEF Spec

\* Every register stays in its range: no line counter wraps, and what is found,
\* taken, rotated to or requested for the slave is a channel.
THEOREM TypeSafe == Spec => []TypeOK
  <1>1. Inv => TypeOK
    BY DEF Inv
  <1> QED
    BY <1>1, InvHolds, PTL

\* What a chip has in service is what the CPU is in the middle of, each handler
\* above those it interrupted, through automatic EOIs, rotations, polls and the
\* acknowledgment of both chips: an EOI ends the handler that sends it.
THEOREM ServiceSafe == Spec => []ServiceMatchesStack
  <1>1. Inv => ServiceMatchesStack
    BY DEF Inv
  <1> QED
    BY <1>1, InvHolds, PTL

\* No write, device or acknowledgment forgets update_pending: but for the steps
\* that have none, the interrupt line and the slave's request of the master are
\* what the registers say.
THEOREM IntExact == Spec => []IntIsExact
  <1>1. Inv => IntIsExact
    BY DEF Inv
  <1> QED
    BY <1>1, InvHolds, PTL

LEMMA CountsMeansLevels ==
    ASSUME TypeOK, CountsHolders
    PROVE  LevelFollowsLines
  <1> SUFFICES ASSUME NEW i \in Chips, NEW c \in Level[i], WiredTo(i, c) \cap missed = {}
               PROVE  (c \in pic[i].irr) = (\E d \in WiredTo(i, c) : asserted[d])
    BY DEF LevelFollowsLines
  <1> DEFINE H == Holding(i, c)
  <1>1. c \in Channels
    BY LevelsAreChannels
  <1>2. lines[i][c] = Cardinality(H) /\ (c \in pic[i].irr <=> lines[i][c] > 0)
    BY <1>1 DEF CountsHolders
  <1>3. H \subseteq Devices /\ (H # {} <=> \E d \in WiredTo(i, c) : asserted[d])
    BY DEF Holding, WiredTo
  <1> HIDE DEF H
  <1>4. IsFiniteSet(H) /\ Cardinality(H) \in Nat /\ (Cardinality(H) = 0 <=> H = {})
    <2>1. IsFiniteSet(H)
      BY <1>3, PicAssumption, FS_Subset
    <2> QED
      BY <2>1, FS_CardinalityType, FS_EmptySet
  <1>5. Cardinality(H) > 0 <=> H # {}
    BY <1>4
  <1>6. c \in pic[i].irr <=> \E d \in WiredTo(i, c) : asserted[d]
    BY <1>2, <1>3, <1>5
  <1> DEFINE asks == c \in pic[i].irr
             held == \E d \in WiredTo(i, c) : asserted[d]
  <1>7. asks \in BOOLEAN /\ held \in BOOLEAN /\ (asks <=> held)
    BY <1>6
  <1> HIDE DEF asks, held
  <1>8. asks = held
    BY <1>7
  <1> QED
    BY <1>8 DEF asks, held

\* A level-triggered channel requests while one of its devices holds the line:
\* picint_common's count of the devices, what an acknowledgment keeps and what
\* ICW1 starts from never disagree with the devices.
THEOREM LevelSafe == Spec => []LevelFollowsLines
  <1>1. Inv => LevelFollowsLines
    BY CountsMeansLevels DEF Inv
  <1> QED
    BY <1>1, InvHolds, PTL

-----------------------------------------------------------------------------
(* What a step takes and what it forgets.                                  *)

\* Why channel c of chip i no longer requests.
Excused(i, c) ==
    \/ (Take \/ PollHit(i)) /\ pic[i].best = c
    \/ \E d \in WiredTo(i, c) : Pulse(d) \/ Hold(d, FALSE)
    \/ Icw1(i)

\* Before update_pending, if it is called at all, nothing is in service but what
\* was and what was found, and nothing lost its request without an excuse.
Orderly(p) ==
    \A i \in Chips :
      /\ \A c \in p[i].isr : c \notin pic[i].isr => pic[i].pending /\ c = pic[i].best
      /\ \A c \in pic[i].irr : c \notin p[i].irr => Excused(i, c)

OrderlyStep == \E p \in [Chips -> Chip] : (Update(p) \/ pic' = p) /\ Orderly(p)

LEMMA OneChip ==
    ASSUME pic \in [Chips -> Chip], NEW i \in Chips, NEW s \in Chip, s.isr \subseteq pic[i].isr,
           \A c \in pic[i].irr : c \notin s.irr => Excused(i, c),
           Update([pic EXCEPT ![i] = s]) \/ pic' = [pic EXCEPT ![i] = s]
    PROVE  OrderlyStep
  <1> DEFINE p == [pic EXCEPT ![i] = s]
  <1>1. p \in [Chips -> Chip] /\ p[i] = s /\ \A j \in Chips : j # i => p[j] = pic[j]
    OBVIOUS
  <1>2. Update(p) \/ pic' = p
    OBVIOUS
  <1> HIDE DEF p
  <1>3. Orderly(p)
    BY <1>1 DEF Orderly
  <1> QED
    BY <1>1, <1>2, <1>3 DEF OrderlyStep

LEMMA QuietStep ==
    ASSUME pic \in [Chips -> Chip], pic' = pic
    PROVE  OrderlyStep
  BY DEF OrderlyStep, Orderly

LEMMA RequestedStep ==
    ASSUME pic \in [Chips -> Chip], NEW i \in Chips, NEW c \in Channels, NEW on \in BOOLEAN,
           Request(i, c, on), ~on => Excused(i, c)
    PROVE  OrderlyStep
  <1>1. PICK p \in [Chips -> Chip] : Update(p) /\ Requested(p, i, c, on)
    BY RequestIs
  <1>2. Orderly(p)
    BY <1>1 DEF Orderly, Requested, Alike, Kept
  <1> QED
    BY <1>1, <1>2 DEF OrderlyStep

LEMMA DeviceStep ==
    ASSUME Inv, NEW d \in Devices,
           Pulse(d) \/ \E on \in BOOLEAN : Hold(d, on) \/ HoldUnseen(d, on)
    PROVE  OrderlyStep
  <1> DEFINE i == Wire[d][1]
             c == Wire[d][2]
  <1>1. pic \in [Chips -> Chip] /\ i \in Chips /\ c \in Channels /\ d \in WiredTo(i, c)
    BY WireIs DEF Inv, TypeOK, WiredTo
  <1>2. CASE Pulse(d)
    <2>1. PICK on \in BOOLEAN : Request(i, c, on)
      BY <1>2 DEF Pulse
    <2>2. Excused(i, c)
      BY <1>1, <1>2 DEF Excused
    <2> HIDE DEF i, c
    <2> QED
      BY <1>1, <2>1, <2>2, RequestedStep
  <1>3. ASSUME NEW on \in BOOLEAN, Hold(d, on) PROVE OrderlyStep
    <2>1. Request(i, c, on) \/ pic' = pic
      BY <1>3 DEF Hold
    <2>2. ~on => Excused(i, c)
      BY <1>1, <1>3 DEF Excused
    <2> HIDE DEF i, c
    <2> QED
      BY <1>1, <2>1, <2>2, RequestedStep, QuietStep
  <1>4. ASSUME NEW on \in BOOLEAN, HoldUnseen(d, on) PROVE OrderlyStep
    BY <1>1, <1>4, QuietStep DEF HoldUnseen
  <1> QED
    BY <1>2, <1>3, <1>4

LEMMA TakeStep ==
    ASSUME Inv, Take
    PROVE  OrderlyStep
  <1> USE TwoChips
  <1>1. pic \in [Chips -> Chip] /\ pic[Master].pending /\ \A j \in Chips : Valid(pic[j])
    BY DEF Inv, TypeOK, CachesValid, Take
  <1>2. CASE TakeFromMaster
    <2>1. PICK p \in [Chips -> Chip] :
            /\ Update(p) /\ ~p[Master].frozen
            /\ Answered(Master, pic[Master], p[Master]) /\ p[Slave] = pic[Slave]
      BY <1>1, <1>2, MasterTakes
    <2>2. Orderly(p)
      BY <1>1, <2>1 DEF Orderly, Excused, Answered
    <2> QED
      BY <2>1, <2>2 DEF OrderlyStep
  <1>3. CASE TakeFromSlave
    <2>1. PICK p \in [Chips -> Chip] :
            Update(p) /\ \A i \in Chips : ~p[i].frozen /\ Answered(i, pic[i], p[i])
      BY <1>1, <1>3, SlaveTakes
    <2>2. pic[Slave].pending
      BY <1>3 DEF TakeFromSlave
    <2>3. \A i \in Chips : pic[i].pending
      BY <1>1, <2>2
    <2>4. ASSUME NEW i \in Chips
          PROVE  /\ \A c \in p[i].isr : c \notin pic[i].isr => c = pic[i].best
                 /\ \A c \in pic[i].irr : c \notin p[i].irr => c = pic[i].best
      BY <2>1 DEF Answered
    <2>5. Orderly(p)
      BY <2>3, <2>4 DEF Orderly, Excused
    <2> QED
      BY <2>1, <2>5 DEF OrderlyStep
  <1> QED
    BY <1>2, <1>3 DEF Take

LEMMA PollStep ==
    ASSUME Inv, NEW i \in Chips, PollHit(i)
    PROVE  OrderlyStep
  <1>1. pic \in [Chips -> Chip] /\ Valid(pic[i]) /\ pic[i].pending
    BY DEF Inv, TypeOK, CachesValid, PollHit
  <1>2. PICK p \in [Chips -> Chip] : Update(p) /\ Polled(i, p)
    BY <1>1, PollTakes
  <1>3. Orderly(p)
    BY <1>1, <1>2 DEF Orderly, Excused, Polled
  <1> QED
    BY <1>2, <1>3 DEF OrderlyStep

\* What the guest writes takes nothing.
LEMMA WriteStep ==
    ASSUME Inv, NEW i \in Chips,
           \/ \E rotate \in Rotations : Eoi(i, rotate)
           \/ \E m \in Masks : Mask(i, m)
           \/ PollCommand(i) \/ PollMiss(i)
    PROVE  OrderlyStep
  <1> DEFINE r == pic[i]
  <1>1. pic \in [Chips -> Chip] /\ r \in Chip
    BY DEF Inv, TypeOK
  <1>2. ASSUME NEW rotate \in Rotations, Eoi(i, rotate) PROVE OrderlyStep
    <2> DEFINE s == Action(r, rotate)
    <2>1. rotate \in BOOLEAN
      BY PicAssumption
    <2>2. s \in Chip /\ s.isr \subseteq r.isr /\ s.irr = r.irr
      BY <1>1, <2>1, ActionIs
    <2>3. Update([pic EXCEPT ![i] = s])
      BY <1>2 DEF Eoi
    <2> HIDE DEF s
    <2> QED
      BY <1>1, <2>2, <2>3, OneChip
  <1>3. ASSUME NEW m \in Masks, Mask(i, m) PROVE OrderlyStep
    <2> DEFINE s == [r EXCEPT !.imr = m]
    <2>1. m \subseteq Channels
      BY PicAssumption
    <2>2. s \in Chip /\ s.isr = r.isr /\ s.irr = r.irr
      BY <1>1, <2>1 DEF Chip
    <2>3. Update([pic EXCEPT ![i] = s])
      BY <1>3 DEF Mask
    <2> HIDE DEF s
    <2> QED
      BY <1>1, <2>2, <2>3, OneChip
  <1>4. ASSUME NEW f \in BOOLEAN, pic' = [pic EXCEPT ![i].poll = f, ![i].frozen = f] PROVE OrderlyStep
    <2> DEFINE s == [r EXCEPT !.poll = f, !.frozen = f]
    <2>1. s \in Chip /\ s.isr = r.isr /\ s.irr = r.irr
      BY <1>1 DEF Chip
    <2>2. pic' = [pic EXCEPT ![i] = s]
      BY <1>1, <1>4
    <2> HIDE DEF s
    <2> QED
      BY <1>1, <2>1, <2>2, OneChip
  <1>5. CASE PollCommand(i)
    BY <1>4, <1>5 DEF PollCommand
  <1>6. CASE PollMiss(i)
    BY <1>4, <1>6 DEF PollMiss, Thawed
  <1> QED
    BY <1>2, <1>3, <1>5, <1>6

\* The initialisation words.
LEMMA WordStep ==
    ASSUME Inv, NEW i \in Chips, Icw1(i) \/ Icw(i)
    PROVE  OrderlyStep
  <1> DEFINE r == pic[i]
  <1>1. pic \in [Chips -> Chip] /\ r \in Chip
    BY DEF Inv, TypeOK
  <1>2. CASE Icw1(i)
    <2> DEFINE irr == {c \in Channels : lines[i][c] > 0}
               s == [PowerOn EXCEPT !.irr = irr, !.aeoi = r.aeoi, !.state = "icw2"]
    <2>1. s \in Chip /\ s.isr = {}
      <3>1. r.aeoi \in BOOLEAN /\ irr \subseteq Channels
        BY <1>1 DEF Chip
      <3> HIDE DEF irr
      <3> QED
        BY <3>1, Sizes DEF Chip, PowerOn, States
    <2>2. Update([pic EXCEPT ![i] = s])
      BY <1>2 DEF Icw1
    <2>3. \A c : Excused(i, c)
      BY <1>2 DEF Excused
    <2> HIDE DEF s
    <2> QED
      BY <1>1, <2>1, <2>2, <2>3, OneChip
  <1>3. CASE Icw(i)
    <2>1. PICK s \in Chip : pic' = [pic EXCEPT ![i] = s] /\ s.isr = r.isr /\ s.irr = r.irr
      BY <1>1, <1>3, IcwIs
    <2> QED
      BY <1>1, <2>1, OneChip
  <1> QED
    BY <1>2, <1>3

LEMMA NextStep ==
    ASSUME Inv, [Next]_vars
    PROVE  OrderlyStep
  <1>1. ASSUME NEW d \in Devices, Pulse(d) PROVE OrderlyStep
    BY <1>1, DeviceStep
  <1>2. ASSUME NEW d \in Devices, NEW on \in BOOLEAN, Hold(d, on) \/ HoldUnseen(d, on) PROVE OrderlyStep
    BY <1>2, DeviceStep
  <1>3. CASE Take
    BY <1>3, TakeStep
  <1>4. ASSUME NEW i \in Chips, Guest(i) PROVE OrderlyStep
    BY <1>4, PollStep, WriteStep, WordStep DEF Guest
  <1>5. CASE UNCHANGED vars
    BY <1>5, QuietStep DEF vars, Inv, TypeOK
  <1> QED
    BY <1>1, <1>2, <1>3, <1>4, <1>5 DEF Next

\* What is taken was found before the step, and what was found is valid.
LEMMA TakesTheHighest ==
    ASSUME Inv, [Next]_vars
    PROVE  \A i \in Chips : \A c \in pic'[i].isr \ pic[i].isr :
             /\ c \notin pic[i].imr
             /\ \A d \in pic[i].isr : Rank(pic[i], c) < Rank(pic[i], d)
  <1>1. PICK p \in [Chips -> Chip] : (Update(p) \/ pic' = p) /\ Orderly(p)
    BY NextStep DEF OrderlyStep
  <1>2. \A i \in Chips : pic'[i].isr = p[i].isr
    BY <1>1, UpdateIs DEF Kept
  <1>3. \A i \in Chips : Valid(pic[i])
    BY DEF Inv, CachesValid
  <1>4. \A i \in Chips : \A c \in pic'[i].isr \ pic[i].isr : pic[i].pending /\ c = pic[i].best
    BY <1>1, <1>2 DEF Orderly
  <1> QED
    BY <1>3, <1>4 DEF Valid

\* update_pending withdraws no request but the slave's.
LEMMA ForgetsNothing ==
    ASSUME Inv, [Next]_vars, NEW i \in Chips, NEW c \in Channels,
           c \in pic[i].irr, c \notin pic'[i].irr,
           ~(i = Master /\ c \in {Cascade} \cup (IF Wired(pic'[Slave]) THEN {} ELSE {0}))
    PROVE  Excused(i, c)
  <1>1. PICK p \in [Chips -> Chip] : (Update(p) \/ pic' = p) /\ Orderly(p)
    BY NextStep DEF OrderlyStep
  <1>2. c \notin p[i].irr
    <2>1. CASE pic' = p
      BY <2>1
    <2>2. CASE Update(p) /\ c \in p[i].irr
      <3>1. i = Master /\ c = RequestsOn(p[Slave])
        BY <2>2, UpdateRequests
      <3>2. Wired(pic'[Slave]) <=> Wired(p[Slave])
        BY <2>2, UpdateIs, TwoChips DEF Kept, Wired
      <3> QED
        BY <3>1, <3>2 DEF RequestsOn
    <2> QED
      BY <1>1, <2>1, <2>2
  <1> QED
    BY <1>1, <1>2 DEF Orderly

\* What is taken is not masked and above everything in service, though an
\* earlier step found it, froze it and let other devices move meanwhile.
THEOREM HighestOnly == Spec => OnlyTheHighest
  <1>1. Inv /\ [Next]_vars =>
          [\A i \in Chips : \A c \in pic'[i].isr \ pic[i].isr :
             /\ c \notin pic[i].imr
             /\ \A d \in pic[i].isr : Rank(pic[i], c) < Rank(pic[i], d)]_vars
    BY TakesTheHighest
  <1> QED
    BY <1>1, InvHolds, PTL DEF Spec, OnlyTheHighest

\* A request stands until it is taken, its device lets go or its chip is set up
\* again: no mask, EOI, poll, acknowledgment of another channel or
\* update_pending withdraws it.
THEOREM RequestsStand == Spec => RequestStands
  <1>1. Inv /\ [Next]_vars =>
          [\A i \in Chips, c \in Channels :
             LET slaveHas == i = Master /\ c \in {Cascade} \cup (IF Wired(pic'[Slave]) THEN {} ELSE {0})
             IN c \in pic[i].irr /\ c \notin pic'[i].irr /\ ~slaveHas =>
                  \/ (Take \/ PollHit(i)) /\ pic[i].best = c
                  \/ \E d \in WiredTo(i, c) : Pulse(d) \/ Hold(d, FALSE)
                  \/ Icw1(i)]_vars
    BY ForgetsNothing DEF Excused
  <1> QED
    BY <1>1, InvHolds, PTL DEF Spec, RequestStands
=============================================================================
