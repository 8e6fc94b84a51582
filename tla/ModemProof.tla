----------------------------- MODULE ModemProof -----------------------------
(***************************************************************************)
(* What holds of the modem for every ring size, command buffer, vocabulary *)
(* and bound.  The shape of every proof is the shape of the model: each    *)
(* function of the source preserves the invariant of the device it is      *)
(* given, and a hook composes them.                                        *)
(***************************************************************************)
EXTENDS Modem, TLAPS

\* The inductive invariant: the type, the agreement of line, socket and mode,
\* and the CONNECT that is on its way to the DTE.
ConnectRead(d) == d.state = "ONLINE" /\ ~d.lost => d.told
Inv(d) ==
    /\ WellFormed(d)
    /\ LineOK(d)
    /\ ConnectPending(d)
    /\ ConnectRead(d)

-----------------------------------------------------------------------------
(* Fields.                                                                 *)

LEMMA Names ==
    /\ "IDLE" \in States /\ "DIALING" \in States /\ "CONNECTING" \in States
    /\ "ANSWERING" \in States /\ "ONLINE" \in States
    /\ "none" \in Tcp /\ "syn" \in Tcp /\ "up" \in Tcp /\ "eof" \in Tcp
    /\ "dead" \in Tcp
    /\ "WORD" \in Lines /\ "CR" \in Lines /\ "ERASE" \in Lines
    /\ "OK" \in Lines /\ "CONNECT" \in Lines /\ "NO CARRIER" \in Lines
    /\ "ERROR" \in Lines /\ "INFO" \in Lines
    /\ "TEXT" \in Cell /\ "CONNECT" \in Cell /\ "DATA" \in Cell
    /\ "+" \in Char /\ "x" \in Char
  BY DEF States, Tcp, Lines, Cell, Char

LEMMA FieldTypes ==
    ASSUME NEW d, WellFormed(d)
    PROVE  /\ d.state \in States /\ d.online \in BOOLEAN /\ d.tcp \in Tcp
           /\ d.inq \in 0 .. MaxIn /\ d.pluses \in 0 .. 3
           /\ d.out \in Seq(Cell) /\ d.cmd \in Seq(AllWords)
           /\ d.last \in Seq(AllWords) /\ d.run \in Seq(AllWords)
           /\ d.wire \in Seq(Char)
           /\ d.owed \in Seq(Sent)
  BY Zenon DEF WellFormed, Device

LEMMA FieldBooleans ==
    ASSUME NEW d, WellFormed(d)
    PROVE  /\ d.due \in BOOLEAN /\ d.rung \in BOOLEAN /\ d.refused \in BOOLEAN
           /\ d.said \in BOOLEAN /\ d.guard \in BOOLEAN /\ d.dtr \in BOOLEAN
           /\ d.mute \in BOOLEAN /\ d.busy \in BOOLEAN
           /\ d.told \in BOOLEAN /\ d.lost \in BOOLEAN
  BY Zenon DEF WellFormed, Device

\* Inv reads nothing but these fields: a device that agrees on them, and keeps
\* the bounds of its other buffers, satisfies it as well.
SameView(e, d) ==
    /\ e.state = d.state /\ e.online = d.online /\ e.tcp = d.tcp
    /\ e.inq = d.inq /\ e.pluses = d.pluses /\ e.said = d.said
    /\ e.out = d.out /\ e.told = d.told /\ e.lost = d.lost
LEMMA SameLine ==
    ASSUME NEW d, Inv(d), NEW e \in Device, SameView(e, d),
           Len(e.cmd) < CmdSize, Len(e.owed) <= MaxData + 1
    PROVE  Inv(e)
  BY Zenon
  DEF Inv, WellFormed, LineOK, ConnectPending, ConnectRead, SameView

\* Append, for the ring and the other buffers.
LEMMA AppendFacts ==
    ASSUME NEW S, NEW s \in Seq(S), NEW x \in S
    PROVE  /\ Append(s, x) \in Seq(S)
           /\ Len(s) \in Nat
           /\ Len(Append(s, x)) = Len(s) + 1
  OBVIOUS

LEMMA AppendAmong ==
    ASSUME NEW S, NEW s \in Seq(S), NEW x \in S
    PROVE  /\ Among(x, Append(s, x))
           /\ \A y : Among(y, s) => Among(y, Append(s, x))
  <1>1. /\ DOMAIN Append(s, x) = 1 .. Len(s) + 1 /\ DOMAIN s = 1 .. Len(s)
        /\ Len(s) \in Nat
        /\ Append(s, x)[Len(s) + 1] = x
        /\ \A i \in 1 .. Len(s) : Append(s, x)[i] = s[i]
    OBVIOUS
  <1>2. \A n \in Nat : n + 1 \in 1 .. n + 1 /\ 1 .. n \subseteq 1 .. n + 1
    OBVIOUS
  <1> QED
    BY <1>1, <1>2, Zenon DEF Among

LEMMA EmptyFacts ==
    /\ \A S : <<>> \in Seq(S)
    /\ Len(<<>>) = 0
    /\ \A x : ~Among(x, <<>>)
  BY DEF Among

\* Nothing moved, nothing held back.
LEMMA ZeroFacts ==
    /\ 0 \in 0 .. MaxIn /\ 0 \in 0 .. 3 /\ ~(0 > 0)
    /\ 0 <= MaxData + 1 /\ 0 < CmdSize /\ 0 < OutSize
  BY ModemAssumption

\* Tail: what was in the ring is still in it, unless it was read.
LEMMA TailFacts ==
    ASSUME NEW S, NEW s \in Seq(S), s # <<>>
    PROVE  /\ Tail(s) \in Seq(S)
           /\ Len(s) \in Nat /\ Len(Tail(s)) \in Nat /\ Len(Tail(s)) < Len(s)
           /\ \A x : Among(x, s) => x = Head(s) \/ Among(x, Tail(s))
  <1>1. /\ Tail(s) \in Seq(S) /\ Len(s) \in Nat
        /\ Len(Tail(s)) = Len(s) - 1 /\ Len(s) > 0
        /\ DOMAIN s = 1 .. Len(s) /\ DOMAIN Tail(s) = 1 .. Len(s) - 1
        /\ Head(s) = s[1]
        /\ \A i \in 2 .. Len(s) : Tail(s)[i - 1] = s[i]
    OBVIOUS
  <1>2. \A n \in Nat : \A i \in 1 .. n :
          i = 1 \/ (i \in 2 .. n /\ i - 1 \in 1 .. n - 1)
    OBVIOUS
  <1>3. \A x : Among(x, s) => x = Head(s) \/ Among(x, Tail(s))
    BY <1>1, <1>2, Zenon DEF Among
  <1> QED
    BY <1>1, <1>3

\* SubSeq, for the front of a buffer.
LEMMA FrontFacts ==
    ASSUME NEW S, NEW s \in Seq(S), NEW k \in Nat
    PROVE  /\ SubSeq(s, 1, Len(s) - k) \in Seq(S)
           /\ Len(SubSeq(s, 1, Len(s) - k)) \in Nat
           /\ Len(s) \in Nat
           /\ Len(SubSeq(s, 1, Len(s) - k)) <= Len(s)
  OBVIOUS

\* A run of n equal cells, appended.
LEMMA RunFacts ==
    ASSUME NEW S, NEW s \in Seq(S), NEW x \in S, NEW n \in Nat
    PROVE  /\ s \o Copies(x, n) \in Seq(S)
           /\ Len(s) \in Nat
           /\ Len(s \o Copies(x, n)) = Len(s) + n
           /\ \A y : Among(y, s) => Among(y, s \o Copies(x, n))
  <1> DEFINE r == Copies(x, n)
             t == s \o r
  <1>1. r \in Seq(S) /\ Len(r) = n
    BY DEF Copies
  <1> HIDE DEF r
  <1>2. /\ t \in Seq(S) /\ Len(s) \in Nat /\ Len(t) = Len(s) + n
        /\ DOMAIN s = 1 .. Len(s) /\ DOMAIN t = 1 .. Len(s) + n
        /\ \A i \in 1 .. Len(s) : t[i] = s[i]
    BY <1>1
  <1>3. \A k \in Nat : 1 .. k \subseteq 1 .. k + n
    OBVIOUS
  <1>4. \A y : Among(y, s) => Among(y, t)
    BY <1>2, <1>3, Zenon DEF Among
  <1> QED
    BY <1>2, <1>4 DEF r

\* The escape characters held back, and the byte that sets them free.
LEMMA HeldFacts ==
    ASSUME NEW w \in Seq(Char), NEW n \in Nat, NEW ch \in Char
    PROVE  w \o Append(Plus(n), ch) \in Seq(Char)
  <1>1. "+" \in Char
    BY Names
  <1>2. \A S : \A x \in S : [i \in 1 .. n |-> x] \in Seq(S)
    OBVIOUS
  <1>3. Plus(n) \in Seq(Char)
    BY <1>1, <1>2, Zenon DEF Plus, Copies
  <1> QED
    BY <1>3

LEMMA CountFacts ==
    \A n \in 0 .. 3 : n \in Nat /\ n + 1 \in Nat /\ (n + 1 <= 3 => n + 1 \in 0 .. 3)
  OBVIOUS

LEMMA RoomForOne ==
    \A n, k \in Nat : (n < k - 1 => n + 1 < k) /\ (n < k => n + 1 <= k)
  OBVIOUS

LEMMA Order ==
    /\ \A i, j, k \in Nat : i <= j /\ j <= k => i <= k
    /\ \A i, j, k \in Nat : i < j /\ j < k => i < k
    /\ \A i, j, k \in Nat : i <= j /\ j < k => i < k
  OBVIOUS

\* Text put behind what the ring holds.
LEMMA BehindFacts ==
    ASSUME NEW S, NEW s \in Seq(S), NEW t \in Seq(S)
    PROVE  /\ s \o t \in Seq(S)
           /\ Len(s) \in Nat /\ Len(t) \in Nat /\ Len(s \o t) = Len(s) + Len(t)
           /\ \A x : Among(x, s) \/ Among(x, t) => Among(x, s \o t)
  <1> DEFINE u == s \o t
  <1>1. /\ u \in Seq(S) /\ Len(s) \in Nat /\ Len(t) \in Nat
        /\ Len(u) = Len(s) + Len(t)
        /\ DOMAIN s = 1 .. Len(s) /\ DOMAIN t = 1 .. Len(t)
        /\ DOMAIN u = 1 .. Len(s) + Len(t)
        /\ \A i \in 1 .. Len(s) : u[i] = s[i]
        /\ \A i \in 1 .. Len(t) : u[Len(s) + i] = t[i]
    OBVIOUS
  <1>2. \A k, l \in Nat : /\ \A i \in 1 .. k : i \in 1 .. k + l
                          /\ \A i \in 1 .. l : k + i \in 1 .. k + l
    OBVIOUS
  <1> HIDE DEF u
  <1>3. \A x : Among(x, s) \/ Among(x, t) => Among(x, u)
    BY <1>1, <1>2, Zenon DEF Among
  <1> QED
    BY <1>1, <1>3 DEF u

\* As much of a text as there is room for.
LEMMA CutFacts ==
    ASSUME NEW S, NEW t \in Seq(S), NEW n \in Nat, n <= Len(t)
    PROVE  SubSeq(t, 1, n) \in Seq(S) /\ Len(SubSeq(t, 1, n)) = n
  OBVIOUS

\* A read takes n of the bytes that wait and fits the room it was given.
LEMMA TakeFacts ==
    ASSUME NEW q \in 0 .. MaxIn, NEW l \in Nat, NEW k \in Nat,
           NEW n \in 1 .. IF q < k - 1 - l THEN q ELSE k - 1 - l
    PROVE  n \in Nat /\ q - n \in 0 .. MaxIn /\ l + n < k
  BY ModemAssumption

-----------------------------------------------------------------------------
(* Output.                                                                 *)

\* A line of n equal bytes, or of a CONNECT.
LEMMA SizeFacts ==
    \A x \in Lines : Size[x] \in Nat /\ Size[x] - 1 \in Nat
  <1>1. \A n \in Nat \ {0} : n \in Nat /\ n - 1 \in Nat
    OBVIOUS
  <1> QED
    BY <1>1, ModemAssumption, Zenon

LEMMA TextFacts ==
    ASSUME NEW n \in Nat
    PROVE  Copies("TEXT", n) \in Seq(Cell) /\ Len(Copies("TEXT", n)) = n
  <1>1. \A S : \A x \in S : /\ [i \in 1 .. n |-> x] \in Seq(S)
                            /\ Len([i \in 1 .. n |-> x]) = n
    OBVIOUS
  <1> QED
    BY <1>1, Names, Zenon DEF Copies

LEMMA LineFacts ==
    ASSUME NEW x \in Lines
    PROVE  /\ Line(x) \in Seq(Cell) /\ Len(Line(x)) = Size[x]
           /\ x = "CONNECT" => Among("CONNECT", Line(x))
  <1>1. Size[x] \in Nat /\ Size[x] - 1 \in Nat
    BY SizeFacts
  <1>2. CASE x = "CONNECT"
    <2> DEFINE t == Copies("TEXT", Size[x] - 1)
    <2>1. t \in Seq(Cell) /\ Len(t) = Size[x] - 1
      BY <1>1, TextFacts, Zenon
    <2>2. Line(x) = Append(t, "CONNECT")
      BY <1>2, Zenon DEF Line
    <2> HIDE DEF t
    <2>3. Append(t, "CONNECT") \in Seq(Cell) /\ Among("CONNECT", Append(t, "CONNECT"))
          /\ Len(Append(t, "CONNECT")) = Len(t) + 1
      BY <2>1, Names, AppendFacts, AppendAmong, Zenon
    <2>4. Len(t) + 1 = Size[x]
      BY <1>1, <2>1
    <2> QED
      BY <2>2, <2>3, <2>4, Zenon
  <1>3. CASE x # "CONNECT"
    BY <1>1, <1>3, TextFacts, Zenon DEF Line
  <1> QED
    BY <1>2, <1>3

\* modem_out_str: the ring keeps its bound and what it held; a text that was
\* not cut short is in it.
LEMMA OutInv ==
    ASSUME NEW d, Inv(d), NEW text \in Seq(Cell)
    PROVE  /\ Inv(Out(d, text))
           /\ Out(d, text).state = d.state
           /\ Out(d, text).mute = d.mute
           /\ \A x : Among(x, text) /\ ~Out(d, text).lost =>
                Among(x, Out(d, text).out)
           /\ Len(Out(d, text).out) <= Len(d.out) + Len(text)
  <1> DEFINE e == Out(d, text)
             room == OutSize - 1 - Len(d.out)
             front == SubSeq(text, 1, room)
  <1>0. /\ d \in Device /\ d.out \in Seq(Cell) /\ Len(d.out) < OutSize
        /\ OutSize \in Nat
    BY FieldTypes, ModemAssumption, Zenon DEF Inv, WellFormed
  <1>1. Len(d.out) \in Nat /\ Len(text) \in Nat /\ room \in Nat
    BY <1>0
  <1>2. CASE Len(text) <= room
    <2> DEFINE ring == d.out \o text
    <2>1. e = [d EXCEPT !.out = ring]
      BY <1>2, Zenon DEF Out
    <2>2. /\ ring \in Seq(Cell) /\ Len(ring) = Len(d.out) + Len(text)
          /\ \A x : Among(x, d.out) \/ Among(x, text) => Among(x, ring)
      BY <1>0, BehindFacts, ZenonT(40)
    <2> HIDE DEF ring
    <2>3. Len(ring) < OutSize /\ Len(ring) <= Len(d.out) + Len(text)
      BY <1>0, <1>1, <1>2, <2>2
    <2>4. /\ e.out = ring
          /\ e.state = d.state /\ e.mute = d.mute /\ e.lost = d.lost
          /\ e.told = d.told /\ e.said = d.said /\ e.cmd = d.cmd
          /\ e.owed = d.owed /\ e.online = d.online /\ e.tcp = d.tcp
          /\ e.inq = d.inq /\ e.pluses = d.pluses
      BY <1>0, <2>1, Zenon DEF Device
    <2>5. e \in Device
      BY <1>0, <2>1, <2>2, Zenon DEF Device
    <2> HIDE DEF e
    <2>6. Inv(e)
      BY <2>2, <2>3, <2>4, <2>5, Zenon
      DEF Inv, WellFormed, LineOK, ConnectPending, ConnectRead
    <2> QED
      BY <2>2, <2>3, <2>4, <2>6, Zenon DEF e
  <1>3. CASE ~(Len(text) <= room)
    <2> DEFINE ring == d.out \o front
    <2>1. e = [d EXCEPT !.out = ring, !.lost = TRUE]
      BY <1>3, Zenon DEF Out
    <2>2. room <= Len(text)
      BY <1>1, <1>3
    <2>3. front \in Seq(Cell) /\ Len(front) = room
      BY <1>1, <2>2, CutFacts, Zenon
    <2> HIDE DEF front
    <2>4. ring \in Seq(Cell) /\ Len(ring) = Len(d.out) + Len(front)
      BY <1>0, <2>3, BehindFacts, ZenonT(40)
    <2> HIDE DEF ring
    <2>5. Len(ring) < OutSize /\ Len(ring) <= Len(d.out) + Len(text)
      BY <1>0, <1>1, <2>2, <2>3, <2>4
    <2>6. /\ e.lost /\ e.out = ring
          /\ e.state = d.state /\ e.mute = d.mute
          /\ e.told = d.told /\ e.said = d.said /\ e.cmd = d.cmd
          /\ e.owed = d.owed /\ e.online = d.online /\ e.tcp = d.tcp
          /\ e.inq = d.inq /\ e.pluses = d.pluses
      BY <1>0, <2>1, Zenon DEF Device
    <2>7. e \in Device
      BY <1>0, <2>1, <2>4, ZenonT(40) DEF Device
    <2> HIDE DEF e
    <2>8. Inv(e)
      BY <2>5, <2>6, <2>7, Zenon
      DEF Inv, WellFormed, LineOK, ConnectPending, ConnectRead
    <2> QED
      BY <2>5, <2>6, <2>8, Zenon DEF e
  <1> QED
    BY <1>2, <1>3

LEMMA SaidInv ==
    ASSUME NEW d, Inv(d), NEW x \in Lines
    PROVE  Inv(Out(d, Line(x)))
  BY LineFacts, OutInv, Zenon

\* What is said touches nothing else that the command buffer cares about.
LEMMA SaidFacts ==
    ASSUME NEW d, Inv(d), NEW text
    PROVE  Out(d, text).cmd = d.cmd /\ Out(d, text).last = d.last
  BY Zenon DEF Out, Inv, WellFormed, Device

\* modem_result.
LEMMA ResultInv ==
    ASSUME NEW d, Inv(d), NEW x \in Lines
    PROVE  /\ Inv(Result(d, x))
           /\ Result(d, x).state = d.state
           /\ Result(d, x).mute = d.mute
           /\ x = "CONNECT" /\ ~d.mute /\ ~Result(d, x).lost =>
                Among("CONNECT", Result(d, x).out)
  BY LineFacts, OutInv, Zenon DEF Result

-----------------------------------------------------------------------------
(* The line.                                                               *)

LEMMA CallOverInv ==
    ASSUME NEW d, Inv(d)
    PROVE  /\ Inv(CallOver(d)) /\ ~CallOver(d).said
           /\ CallOver(d).state = d.state /\ CallOver(d).tcp = d.tcp
           /\ CallOver(d).out = d.out /\ CallOver(d).told = d.told
           /\ CallOver(d).lost = d.lost
  <1> DEFINE e == CallOver(d)
  <1>1. /\ e.state = d.state /\ e.online = d.online /\ e.tcp = d.tcp
        /\ e.inq = d.inq /\ e.pluses = d.pluses /\ ~e.said
        /\ e.out = d.out /\ e.cmd = d.cmd /\ e.owed = d.owed
        /\ e.told = d.told /\ e.lost = d.lost
    BY Zenon DEF Inv, WellFormed, Device, CallOver
  <1>2. e \in Device
    BY Zenon DEF Inv, WellFormed, Device, CallOver
  <1> QED
    BY <1>1, <1>2, Zenon
    DEF Inv, WellFormed, LineOK, ConnectPending, ConnectRead

\* modem_hangup, from any state.
LEMMA HangupInv ==
    ASSUME NEW d, Inv(d)
    PROVE  Inv(Hangup(d)) /\ Hangup(d).state = "IDLE"
  <1> DEFINE c == CallOver(d)
             e == Hangup(d)
  <1>1. Inv(c)
    BY CallOverInv
  <1>2. e = [c EXCEPT !.state = "IDLE", !.online = FALSE, !.tcp = "none",
                      !.inq = 0, !.pluses = 0, !.wire = <<>>, !.owed = <<>>,
                      !.told = FALSE, !.lost = FALSE]
    BY Zenon DEF Hangup
  <1> HIDE DEF c, e
  <1>3. /\ e.state = "IDLE" /\ ~e.online /\ e.tcp = "none" /\ e.inq = 0
        /\ e.pluses = 0 /\ e.out = c.out /\ e.cmd = c.cmd /\ e.owed = <<>>
    BY <1>1, <1>2, Zenon DEF Inv, WellFormed, Device
  <1>4. e \in Device
    <2>1. /\ "IDLE" \in States /\ "none" \in Tcp
          /\ 0 \in 0 .. MaxIn /\ 0 \in 0 .. 3
          /\ <<>> \in Seq(Char)
          /\ <<>> \in Seq(Sent)
      BY Names, ZeroFacts, EmptyFacts, Zenon
    <2>2. c \in Device
      BY <1>1, Zenon DEF Inv, WellFormed
    <2> QED
      BY <1>2, <2>1, <2>2, ZenonT(40) DEF Device
  <1>5. Inv(e) /\ e.state = "IDLE"
    BY <1>1, <1>3, <1>4, EmptyFacts, ZeroFacts, Zenon
    DEF Inv, WellFormed, LineOK, ConnectPending, ConnectRead
  <1> QED
    BY <1>5 DEF e

\* modem_dial, from a line that is on hook.
LEMMA DialInv ==
    ASSUME NEW d, Inv(d), d.state = "IDLE", NEW e \in Dial(d)
    PROVE  Inv(e)
  <1> DEFINE c == [d EXCEPT !.refused = FALSE, !.rung = FALSE, !.due = FALSE,
                            !.told = FALSE, !.lost = FALSE]
  <1>1. /\ c.state = d.state /\ c.online = d.online /\ c.tcp = d.tcp
        /\ c.inq = d.inq /\ c.pluses = d.pluses
        /\ c.out = d.out /\ c.cmd = d.cmd /\ c.owed = d.owed
    BY Zenon DEF Inv, WellFormed, Device
  <1>2. c \in Device
    BY Zenon DEF Inv, WellFormed, Device
  <1>3. \/ e = [c EXCEPT !.state = "DIALING"]
        \/ LineTcp /\ e = [c EXCEPT !.state = "CONNECTING", !.tcp = "syn"]
    BY Zenon DEF Dial
  <1> HIDE DEF c
  <1>4. /\ e.online = c.online /\ e.inq = c.inq /\ e.pluses = c.pluses
        /\ e.out = c.out /\ e.cmd = c.cmd /\ e.owed = c.owed
        /\ \/ e.state = "DIALING" /\ e.tcp = c.tcp
           \/ LineTcp /\ e.state = "CONNECTING" /\ e.tcp = "syn"
    BY <1>2, <1>3, ZenonT(40) DEF Device
  <1>5. e \in Device
    <2>1. CASE e = [c EXCEPT !.state = "DIALING"]
      BY <1>2, <2>1, Names, Zenon DEF Device
    <2>2. CASE e = [c EXCEPT !.state = "CONNECTING", !.tcp = "syn"]
      BY <1>2, <2>2, Names, Zenon DEF Device
    <2> QED
      BY <1>3, <2>1, <2>2
  <1>6. d.tcp = "none" /\ ~(d.inq > 0) /\ ~(d.pluses > 0) /\ ~d.online
    BY Zenon DEF Inv, LineOK
  <1> QED
    BY <1>1, <1>4, <1>5, <1>6, Zenon
    DEF Inv, WellFormed, LineOK, ConnectPending, ConnectRead

\* A call that fails: on hook, and NO CARRIER.
LEMMA FailInv ==
    ASSUME NEW d, Inv(d)
    PROVE  /\ Inv(Result(Hangup(d), "NO CARRIER"))
           /\ Result(Hangup(d), "NO CARRIER").state = "IDLE"
  <1>1. Inv(Hangup(d)) /\ Hangup(d).state = "IDLE" /\ "NO CARRIER" \in Lines
    BY HangupInv, Names, Zenon
  <1> QED
    BY <1>1, ResultInv, Zenon

\* A step that changes none of that, nor the buffers of commands and data.
Aside(e, d) ==
    e \in Device /\ SameView(e, d) /\ e.cmd = d.cmd /\ e.owed = d.owed
LEMMA AsideInv ==
    ASSUME NEW d, Inv(d), NEW e, Aside(e, d)
    PROVE  Inv(e)
  BY SameLine, Zenon DEF Inv, WellFormed, Aside

\* Only the clocks of the call move.
LEMMA TimerInv ==
    ASSUME NEW d, Inv(d), NEW u \in BOOLEAN
    PROVE  /\ Inv([d EXCEPT !.refused = TRUE, !.due = FALSE])
           /\ Inv([d EXCEPT !.due = u])
           /\ Inv([d EXCEPT !.rung = u])
           /\ Inv([d EXCEPT !.guard = u])
  <1>1. d \in Device
    BY Zenon DEF Inv, WellFormed
  <1>2. Aside([d EXCEPT !.refused = TRUE, !.due = FALSE], d)
    BY <1>1, Zenon DEF Aside, SameView, Device
  <1>3. Aside([d EXCEPT !.due = u], d)
    BY <1>1, Zenon DEF Aside, SameView, Device
  <1>4. Aside([d EXCEPT !.rung = u], d)
    BY <1>1, Zenon DEF Aside, SameView, Device
  <1>5. Aside([d EXCEPT !.guard = u], d)
    BY <1>1, Zenon DEF Aside, SameView, Device
  <1> QED
    BY <1>2, <1>3, <1>4, <1>5, AsideInv, Zenon

\* The far end picked up.
LEMMA AnsweredInv ==
    ASSUME NEW d, Inv(d), d.state = "CONNECTING"
    PROVE  Inv(Answered(d))
  <1> DEFINE c == CallOver(d)
             e == Answered(d)
  <1>1. Inv(c) /\ c.state = "CONNECTING"
    BY CallOverInv, Zenon
  <1>2. e = [c EXCEPT !.state = "ANSWERING", !.said = FALSE, !.due = FALSE]
    BY Zenon DEF Answered
  <1> HIDE DEF c, e
  <1>3. /\ e.state = "ANSWERING" /\ ~e.said /\ e.tcp = c.tcp
        /\ e.online = c.online /\ e.inq = c.inq /\ e.pluses = c.pluses
        /\ e.out = c.out /\ e.cmd = c.cmd /\ e.owed = c.owed
    BY <1>1, <1>2, Zenon DEF Inv, WellFormed, Device
  <1>4. e \in Device
    BY <1>1, <1>2, Names, ZenonT(40) DEF Inv, WellFormed, Device
  <1>5. ~c.online /\ ~(c.pluses > 0) /\ c.tcp # "none" /\ LineTcp
    BY <1>1, Zenon DEF Inv, LineOK
  <1>6. Inv(e)
    BY <1>1, <1>3, <1>4, <1>5, Zenon
    DEF Inv, WellFormed, LineOK, ConnectPending, ConnectRead
  <1> QED
    BY <1>6 DEF e

\* CONNECT was said and the ring is empty: it has been read, or was dropped.
LEMMA GoOnlineInv ==
    ASSUME NEW d, Inv(d), d.state = "ANSWERING", d.said, d.out = <<>>
    PROVE  Inv(GoOnline(d))
  <1> DEFINE c == CallOver(d)
             e == GoOnline(d)
  <1>1. /\ Inv(c) /\ c.state = "ANSWERING" /\ c.out = d.out
        /\ c.told = d.told /\ c.lost = d.lost
    BY CallOverInv, Zenon
  <1>2. e = [c EXCEPT !.state = "ONLINE", !.online = TRUE]
    BY Zenon DEF GoOnline
  <1>3. d.lost \/ d.told
    BY EmptyFacts, Zenon DEF Inv, ConnectPending
  <1> HIDE DEF c, e
  <1>4. /\ e.state = "ONLINE" /\ e.tcp = c.tcp /\ e.inq = c.inq
        /\ e.out = c.out /\ e.cmd = c.cmd /\ e.owed = c.owed
        /\ e.told = c.told /\ e.lost = c.lost
    BY <1>1, <1>2, Zenon DEF Inv, WellFormed, Device
  <1>5. e \in Device
    BY <1>1, <1>2, Names, Zenon DEF Inv, WellFormed, Device
  <1>6. c.tcp # "none" /\ LineTcp
    BY <1>1, Zenon DEF Inv, LineOK
  <1>7. Inv(e)
    BY <1>1, <1>3, <1>4, <1>5, <1>6, Zenon
    DEF Inv, WellFormed, LineOK, ConnectPending, ConnectRead
  <1> QED
    BY <1>7 DEF e

\* modem_poll_line, CONNECTING.
LEMMA PollConnectingInv ==
    ASSUME NEW d, Inv(d), d.state = "CONNECTING"
    PROVE  Inv(PollConnecting(d))
  <1> FALSE \in BOOLEAN /\ TRUE \in BOOLEAN
    OBVIOUS
  <1>1. CASE d.refused \/ d.tcp = "dead"
    BY <1>1, TimerInv, FailInv, Zenon DEF PollConnecting
  <1>2. CASE ~d.refused /\ d.tcp \in {"up", "eof"}
    <2>1. ~(d.refused \/ d.tcp = "dead")
      BY <1>2
    <2>2. PollConnecting(d) = IF d.rung THEN Answered(d) ELSE d
      BY <1>2, <2>1 DEF PollConnecting
    <2> QED
      BY <2>2, AnsweredInv, Zenon
  <1>3. CASE ~(d.refused \/ d.tcp = "dead") /\ ~(d.tcp \in {"up", "eof"})
    <2>1. PollConnecting(d) =
            IF d.due THEN Result(Hangup(d), "NO CARRIER") ELSE d
      BY <1>3, Zenon DEF PollConnecting
    <2> QED
      BY <2>1, FailInv, Zenon
  <1> QED
    BY <1>1, <1>2, <1>3, Zenon

\* modem_poll_line, ANSWERING: CONNECT goes into the ring.
LEMMA SayConnectInv ==
    ASSUME NEW d, Inv(d), d.state = "ANSWERING"
    PROVE  Inv([Result(d, "CONNECT") EXCEPT !.said = TRUE, !.due = FALSE,
                                            !.told = d.mute])
  <1> DEFINE c == Result(d, "CONNECT")
             e == [c EXCEPT !.said = TRUE, !.due = FALSE, !.told = d.mute]
  <1>1. /\ Inv(c) /\ c.state = "ANSWERING"
        /\ ~d.mute /\ ~c.lost => Among("CONNECT", c.out)
    BY ResultInv, Names, Zenon
  <1>2. d.mute \in BOOLEAN
    BY FieldBooleans, Zenon DEF Inv
  <1> HIDE DEF c
  <1>3. /\ e.state = c.state /\ e.tcp = c.tcp /\ e.online = c.online
        /\ e.inq = c.inq /\ e.pluses = c.pluses /\ e.lost = c.lost
        /\ e.out = c.out /\ e.cmd = c.cmd /\ e.owed = c.owed
        /\ e.told = d.mute
    BY <1>1, Zenon DEF Inv, WellFormed, Device
  <1>4. e \in Device
    BY <1>1, <1>2, Zenon DEF Inv, WellFormed, Device
  <1> HIDE DEF e
  <1>5. WellFormed(e) /\ LineOK(e)
    BY <1>1, <1>3, <1>4, Zenon DEF Inv, WellFormed, LineOK
  <1>6. e.state # "ONLINE"
    BY <1>1, <1>3
  <1>7. Inv(e)
    BY <1>1, <1>3, <1>5, <1>6, Zenon DEF Inv, ConnectPending, ConnectRead
  <1> QED
    BY <1>7 DEF c, e

LEMMA PollAnsweringInv ==
    ASSUME NEW d, Inv(d), d.state = "ANSWERING"
    PROVE  Inv(PollAnswering(d))
  <1>1. CASE ~d.due
    BY <1>1, Zenon DEF PollAnswering
  <1>2. CASE d.due /\ ~d.said
    BY <1>2, SayConnectInv, Zenon DEF PollAnswering
  <1>3. CASE d.due /\ d.said
    BY <1>3, GoOnlineInv, Zenon DEF PollAnswering
  <1> QED
    BY <1>1, <1>2, <1>3

\* modem_poll_line.
LEMMA PollLineInv ==
    ASSUME NEW d, Inv(d)
    PROVE  Inv(PollLine(d))
  <1>1. CASE d.state = "DIALING"
    BY <1>1, FailInv, Zenon DEF PollLine
  <1>2. CASE d.state = "CONNECTING"
    <2>1. PollLine(d) = PollConnecting(d)
      BY <1>2 DEF PollLine
    <2> QED
      BY <1>2, <2>1, PollConnectingInv, Zenon
  <1>3. CASE d.state = "ANSWERING"
    <2>1. PollLine(d) = PollAnswering(d)
      BY <1>3 DEF PollLine
    <2> QED
      BY <1>3, <2>1, PollAnsweringInv, Zenon
  <1>4. CASE d.state \notin {"DIALING", "CONNECTING", "ANSWERING"}
    <2>1. PollLine(d) = d
      BY <1>4 DEF PollLine
    <2> QED
      BY <2>1
  <1> QED
    BY <1>1, <1>2, <1>3, <1>4

-----------------------------------------------------------------------------
(* Data mode.                                                              *)

\* modem_read: the escape.
LEMMA EscapeInv ==
    ASSUME NEW d, Inv(d)
    PROVE  Inv(Escape(d))
  <1> DEFINE left == SubSeq(d.owed, 1, Len(d.owed) - 3)
             e == [d EXCEPT !.pluses = 0, !.online = FALSE, !.owed = left]
  <1>1. d.owed \in Seq(Sent) /\ d \in Device
    BY FieldTypes, Zenon DEF Inv, WellFormed
  <1>2. 3 \in Nat /\ MaxData + 1 \in Nat
    BY ModemAssumption
  <1>3. left \in Seq(Sent) /\ Len(left) <= MaxData + 1
    BY <1>1, <1>2, FrontFacts, Order, Zenon DEF Inv, WellFormed
  <1>4. Escape(d) = d \/ Escape(d) = Result(e, "OK")
    BY Zenon DEF Escape
  <1> HIDE DEF left
  <1>5. /\ e.state = d.state /\ e.tcp = d.tcp /\ ~e.online /\ e.inq = d.inq
        /\ e.pluses = 0 /\ e.said = d.said /\ e.out = d.out /\ e.cmd = d.cmd
        /\ e.owed = left /\ e.told = d.told /\ e.lost = d.lost
    BY <1>1, Zenon DEF Device
  <1>6. e \in Device
    BY <1>1, <1>3, ZeroFacts, Zenon DEF Device
  <1> HIDE DEF e
  <1>7. Inv(e)
    BY <1>3, <1>5, <1>6, ZeroFacts, Zenon
    DEF Inv, WellFormed, LineOK, ConnectPending, ConnectRead
  <1> QED
    BY <1>4, <1>7, ResultInv, Names, Zenon

\* modem_read: what the carrier delivers goes into the room there is.
LEMMA DeliverInv ==
    ASSUME NEW d, Inv(d), d.inq > 0,
           NEW n \in 1 .. IF d.inq < OutSize - 1 - Len(d.out)
                          THEN d.inq ELSE OutSize - 1 - Len(d.out)
    PROVE  Inv(Deliver(d, n))
  <1> DEFINE ring == d.out \o Copies("DATA", n)
             rest == d.inq - n
             e == [d EXCEPT !.inq = rest, !.out = ring]
  <1>1. /\ d.out \in Seq(Cell) /\ d.inq \in 0 .. MaxIn /\ d \in Device
        /\ OutSize \in Nat /\ "DATA" \in Cell
    BY FieldTypes, ModemAssumption, Names, Zenon DEF Inv, WellFormed
  <1>2. Len(d.out) \in Nat
    BY <1>1
  <1>3. n \in Nat /\ rest \in 0 .. MaxIn /\ Len(d.out) + n < OutSize
    BY <1>1, <1>2, TakeFacts, Zenon
  <1>4. /\ ring \in Seq(Cell) /\ Len(ring) = Len(d.out) + n
        /\ \A y : Among(y, d.out) => Among(y, ring)
    BY <1>1, <1>3, RunFacts, ZenonT(40)
  <1>5. Len(ring) < OutSize
    BY <1>3, <1>4, Zenon
  <1>6. Deliver(d, n) = e
    BY Zenon DEF Deliver
  <1> HIDE DEF ring, rest
  <1>7. /\ e.state = d.state /\ e.tcp = d.tcp /\ e.online = d.online
        /\ e.inq = rest /\ e.pluses = d.pluses /\ e.said = d.said
        /\ e.out = ring /\ e.cmd = d.cmd /\ e.owed = d.owed
        /\ e.told = d.told /\ e.lost = d.lost
    BY <1>1, Zenon DEF Device
  <1>8. e \in Device
    BY <1>1, <1>3, <1>4, Zenon DEF Device
  <1> HIDE DEF e
  <1>9. Inv(e)
    BY <1>4, <1>5, <1>7, <1>8, Zenon
    DEF Inv, WellFormed, LineOK, ConnectPending, ConnectRead
  <1> QED
    BY <1>6, <1>9

LEMMA ReceiveInv ==
    ASSUME NEW d, Inv(d), NEW e \in Receive(d)
    PROVE  Inv(e)
  <1> DEFINE room == OutSize - 1 - Len(d.out)
  <1>1. CASE ~d.online \/ d.tcp = "none"
    BY <1>1, Zenon DEF Receive
  <1>2. CASE d.online /\ d.tcp # "none" /\ room > 0 /\ d.inq > 0
    <2>1. e \in {Deliver(d, n) : n \in 1 .. IF d.inq < room THEN d.inq ELSE room}
      <3>1. ~(d.inq = 0)
        BY <1>2, ZeroFacts, Zenon
      <3> QED
        BY <1>2, <3>1, Zenon DEF Receive
    <2> QED
      BY <1>2, <2>1, DeliverInv, Zenon
  <1>3. CASE ~(~d.online \/ d.tcp = "none") /\ ~(room > 0 /\ d.inq > 0)
    <2>1. e = d \/ e = Result(Hangup(d), "NO CARRIER")
      BY <1>3, Zenon DEF Receive
    <2> QED
      BY <2>1, FailInv, Zenon
  <1> QED
    BY <1>1, <1>2, <1>3, Zenon

\* modem_read: one character to the DTE; it may be the CONNECT.
LEMMA HandedInv ==
    ASSUME NEW d, Inv(d)
    PROVE  Inv(Handed(d))
  <1>1. CASE d.out = <<>>
    BY <1>1, Zenon DEF Handed
  <1>2. CASE d.out # <<>>
    <2> DEFINE t == Tail(d.out)
               said == d.told \/ Head(d.out) = "CONNECT"
               e == [d EXCEPT !.out = t, !.told = said]
    <2>1. d.out \in Seq(Cell) /\ d \in Device /\ OutSize \in Nat
      BY FieldTypes, ModemAssumption, Zenon DEF Inv, WellFormed
    <2>2. /\ t \in Seq(Cell) /\ Len(t) < OutSize
          /\ \A x : Among(x, d.out) => x = Head(d.out) \/ Among(x, t)
      BY <1>2, <2>1, TailFacts, Order, Zenon DEF Inv, WellFormed
    <2>3. Handed(d) = e /\ said \in BOOLEAN /\ (d.told => said)
      BY <1>2, Zenon DEF Handed
    <2>4. Among("CONNECT", d.out) => said \/ Among("CONNECT", t)
      BY <2>2, Zenon
    <2> HIDE DEF t, said
    <2>5. /\ e.state = d.state /\ e.tcp = d.tcp /\ e.online = d.online
          /\ e.inq = d.inq /\ e.pluses = d.pluses /\ e.said = d.said
          /\ e.out = t /\ e.cmd = d.cmd /\ e.owed = d.owed
          /\ e.told = said /\ e.lost = d.lost
      BY <2>1, Zenon DEF Device
    <2>6. e \in Device
      BY <2>1, <2>2, <2>3, Zenon DEF Device
    <2> HIDE DEF e
    <2>7. Inv(e)
      BY <2>2, <2>3, <2>4, <2>5, <2>6, Zenon
      DEF Inv, WellFormed, LineOK, ConnectPending, ConnectRead
    <2> QED
      BY <2>3, <2>7
  <1> QED
    BY <1>1, <1>2

\* modem_data_byte.
LEMMA DataByteInv ==
    ASSUME NEW d, Inv(d), d.state = "ONLINE", NEW ch \in Char, NEW taken
    PROVE  Inv(DataByte(d, ch, taken)) /\ DataByte(d, ch, taken).state = "ONLINE"
  <1> DEFINE counted == ch = "+" /\ (d.pluses > 0 \/ d.guard)
             p == IF counted THEN d.pluses + 1 ELSE d.pluses
             w == IF taken THEN d.wire \o Append(Plus(p), ch) ELSE <<>>
             o == IF taken THEN d.owed ELSE <<>>
             e == DataByte(d, ch, taken)
  <1>1. /\ d.pluses \in 0 .. 3 /\ d.wire \in Seq(Char) /\ d.owed \in Seq(Sent)
        /\ d \in Device /\ Len(d.owed) <= MaxData + 1
    BY FieldTypes, Zenon DEF Inv, WellFormed
  <1>2. p \in Nat /\ (counted /\ p <= 3 => p \in 0 .. 3)
    BY <1>1, CountFacts, Zenon
  <1>3. w \in Seq(Char) /\ o \in Seq(Sent) /\ Len(o) <= MaxData + 1
    BY <1>1, <1>2, HeldFacts, EmptyFacts, ZeroFacts, Zenon
  <1>4. \/ p \in 0 .. 3 /\ e = [d EXCEPT !.pluses = p, !.guard = FALSE]
        \/ e = [d EXCEPT !.pluses = 0, !.guard = FALSE, !.wire = w, !.owed = o]
    BY <1>2, Zenon DEF DataByte
  <1> HIDE DEF p, w, o, e
  <1>5. /\ e.state = d.state /\ e.tcp = d.tcp /\ e.online = d.online
        /\ e.inq = d.inq /\ e.said = d.said
        /\ e.out = d.out /\ e.cmd = d.cmd /\ Len(e.owed) <= MaxData + 1
        /\ e.told = d.told /\ e.lost = d.lost
    BY <1>1, <1>3, <1>4, ZenonT(40) DEF Device
  <1>6. e \in Device
    <2>1. CASE p \in 0 .. 3 /\ e = [d EXCEPT !.pluses = p, !.guard = FALSE]
      BY <1>1, <2>1, Zenon DEF Device
    <2>2. CASE e = [d EXCEPT !.pluses = 0, !.guard = FALSE, !.wire = w, !.owed = o]
      BY <1>1, <1>3, <2>2, ZeroFacts, Zenon DEF Device
    <2> QED
      BY <1>4, <2>1, <2>2
  <1>7. Inv(e) /\ e.state = "ONLINE"
    BY <1>5, <1>6, Zenon
    DEF Inv, WellFormed, LineOK, ConnectPending, ConnectRead
  <1> QED
    BY <1>7 DEF e

\* One more character owed to the line, or the fourth escape character twice.
LEMMA OwingFacts ==
    ASSUME NEW d, NEW ch \in Char
    PROVE  /\ Nth(d, ch) \in 0 .. 4
           /\ Owing(ch, Nth(d, ch)) \in Seq(Sent)
           /\ Len(Owing(ch, Nth(d, ch))) \in 1 .. 2
  <1> DEFINE k == Nth(d, ch)
  <1>1. k \in 0 .. 4
    BY DEF Nth
  <1> HIDE DEF k
  <1>2. k \in 0 .. 5 /\ 4 \in 0 .. 5 /\ 5 \in 0 .. 5
    BY <1>1
  <1>3. [ch |-> ch, nth |-> k] \in Sent /\ [ch |-> ch, nth |-> 4] \in Sent
        /\ [ch |-> ch, nth |-> 5] \in Sent
    BY <1>2, Zenon DEF Sent
  <1>4. \A S : \A x, y \in S : /\ <<x>> \in Seq(S) /\ Len(<<x>>) \in 1 .. 2
                               /\ <<x, y>> \in Seq(S) /\ Len(<<x, y>>) \in 1 .. 2
    OBVIOUS
  <1>5. Owing(ch, k) \in Seq(Sent) /\ Len(Owing(ch, k)) \in 1 .. 2
    BY <1>3, <1>4, Zenon DEF Owing
  <1> QED
    BY <1>1, <1>5 DEF k

\* modem_write in data mode: the byte is owed to the line from now on.
Owes(d, ch) == [d EXCEPT !.owed = @ \o Owing(ch, Nth(d, ch))]
LEMMA OwesInv ==
    ASSUME NEW d, Inv(d), NEW ch \in Char, Len(d.owed) < MaxData
    PROVE  /\ Inv(Owes(d, ch)) /\ SameView(Owes(d, ch), d)
           /\ Owes(d, ch).owed = d.owed \o Owing(ch, Nth(d, ch))
           /\ Owes(d, ch).wire = d.wire /\ Owes(d, ch).guard = d.guard
  <1> DEFINE a == Owing(ch, Nth(d, ch))
             o == d.owed \o a
             e == Owes(d, ch)
  <1>1. d.owed \in Seq(Sent) /\ d \in Device /\ MaxData \in Nat
        /\ Len(d.cmd) < CmdSize
    BY FieldTypes, ModemAssumption, Zenon DEF Inv, WellFormed
  <1>2. a \in Seq(Sent) /\ Len(a) \in 1 .. 2
    BY OwingFacts, Zenon
  <1> HIDE DEF a
  <1>3. o \in Seq(Sent) /\ Len(o) <= MaxData + 1
    <2>1. o \in Seq(Sent) /\ Len(d.owed) \in Nat /\ Len(o) = Len(d.owed) + Len(a)
      BY <1>1, <1>2, BehindFacts, ZenonT(40)
    <2>2. \A x, y, z \in Nat : x < z /\ y \in 1 .. 2 => x + y <= z + 1
      OBVIOUS
    <2>3. Len(a) \in Nat
      BY <1>2
    <2> HIDE DEF o
    <2> QED
      BY <1>1, <1>2, <2>1, <2>2, <2>3, Zenon
  <1>4. e = [d EXCEPT !.owed = o]
    BY Zenon DEF Owes, a
  <1> HIDE DEF o
  <1>5. /\ e \in Device /\ SameView(e, d) /\ e.cmd = d.cmd /\ e.owed = o
        /\ e.wire = d.wire /\ e.guard = d.guard
    BY <1>1, <1>3, <1>4, Zenon DEF Device, SameView
  <1> HIDE DEF e
  <1>6. Inv(e)
    BY <1>1, <1>3, <1>5, SameLine, Zenon
  <1> QED
    BY <1>5, <1>6 DEF o, a, e

-----------------------------------------------------------------------------
(* Commands.                                                               *)

\* Settings and the queue of words are nobody's business but their own.
LEMMA SettingsInv ==
    ASSUME NEW d, Inv(d), NEW u \in BOOLEAN, NEW n \in 0 .. 3,
           NEW r \in Seq(AllWords)
    PROVE  /\ Inv([d EXCEPT !.dtrMode = n]) /\ Inv([d EXCEPT !.mute = u])
           /\ n \in 0 .. 1 => Inv([d EXCEPT !.dcdMode = n])
           /\ Inv([d EXCEPT !.dtr = u]) /\ Inv([d EXCEPT !.run = r])
           /\ Inv([d EXCEPT !.busy = u])
           /\ Inv([d EXCEPT !.run = r, !.busy = u])
           /\ Inv([d EXCEPT !.last = r, !.run = r, !.busy = u])
           /\ Inv(Defaults(d))
  <1>1. d \in Device
    BY Zenon DEF Inv, WellFormed
  <1>2. 2 \in 0 .. 3 /\ 1 \in 0 .. 1
    OBVIOUS
  <1>3. Aside([d EXCEPT !.dtrMode = n], d)
    BY <1>1, Zenon DEF Aside, SameView, Device
  <1>4. Aside([d EXCEPT !.mute = u], d)
    BY <1>1, Zenon DEF Aside, SameView, Device
  <1>5. n \in 0 .. 1 => Aside([d EXCEPT !.dcdMode = n], d)
    BY <1>1, Zenon DEF Aside, SameView, Device
  <1>6. Aside([d EXCEPT !.dtr = u], d)
    BY <1>1, Zenon DEF Aside, SameView, Device
  <1>7. Aside([d EXCEPT !.run = r], d)
    BY <1>1, Zenon DEF Aside, SameView, Device
  <1>8. Aside([d EXCEPT !.busy = u], d)
    BY <1>1, Zenon DEF Aside, SameView, Device
  <1>9. Aside([d EXCEPT !.run = r, !.busy = u], d)
    BY <1>1, Zenon DEF Aside, SameView, Device
  <1>10. Aside([d EXCEPT !.last = r, !.run = r, !.busy = u], d)
    BY <1>1, Zenon DEF Aside, SameView, Device
  <1>11. Aside(Defaults(d), d)
    BY <1>1, <1>2, Zenon DEF Aside, SameView, Device, Defaults
  <1> QED
    BY <1>3, <1>4, <1>5, <1>6, <1>7, <1>8, <1>9, <1>10, <1>11, AsideInv,
       Zenon

\* ATO: only from a carrier.
LEMMA ResumeInv ==
    ASSUME NEW d, Inv(d), d.state = "ONLINE"
    PROVE  Inv([d EXCEPT !.online = TRUE])
  <1> DEFINE e == [d EXCEPT !.online = TRUE]
  <1>1. d \in Device
    BY Zenon DEF Inv, WellFormed
  <1>2. /\ e \in Device /\ e.state = d.state /\ e.tcp = d.tcp /\ e.inq = d.inq
        /\ e.pluses = d.pluses /\ e.said = d.said /\ e.out = d.out
        /\ e.cmd = d.cmd /\ e.owed = d.owed /\ e.told = d.told
        /\ e.lost = d.lost
    BY <1>1, Zenon DEF Device
  <1> QED
    BY <1>2, Zenon
    DEF Inv, WellFormed, LineOK, ConnectPending, ConnectRead

\* AT&D1: DTR leaves data mode, the carrier stays.
LEMMA SuspendInv ==
    ASSUME NEW d, Inv(d)
    PROVE  Inv([d EXCEPT !.online = FALSE])
  <1> DEFINE e == [d EXCEPT !.online = FALSE]
  <1>1. d \in Device
    BY Zenon DEF Inv, WellFormed
  <1>2. /\ e \in Device /\ e.state = d.state /\ e.tcp = d.tcp /\ e.inq = d.inq
        /\ e.pluses = d.pluses /\ e.said = d.said /\ e.out = d.out
        /\ e.cmd = d.cmd /\ e.owed = d.owed /\ e.told = d.told
        /\ e.lost = d.lost /\ ~e.online
    BY <1>1, Zenon DEF Device
  <1> QED
    BY <1>2, Zenon
    DEF Inv, WellFormed, LineOK, ConnectPending, ConnectRead

\* modem_info: an information line, or nothing.
LEMMA InfoInv ==
    ASSUME NEW d, Inv(d), NEW n \in 0 .. Size["INFO"]
    PROVE  /\ Inv(Out(d, Copies("TEXT", n)))
           /\ Len(Out(d, Copies("TEXT", n)).out) <= Len(d.out) + n
  <1>1. Size["INFO"] \in Nat
    BY SizeFacts, Names, Zenon
  <1>2. n \in Nat
    BY <1>1
  <1>3. Copies("TEXT", n) \in Seq(Cell) /\ Len(Copies("TEXT", n)) = n
    BY <1>2, TextFacts, Zenon
  <1> HIDE DEF Copies
  <1> QED
    BY <1>3, OutInv, Zenon

\* modem_execute, a word: whatever it does and says, the device is sound.
LEMMA ExecuteOutcome ==
    ASSUME NEW d, Inv(d), NEW w, NEW r \in Execute(d, w)
    PROVE  \E e : /\ Inv(e)
                  /\ \/ r = Go(e) \/ r = Stop(e, "NO CARRIER")
                     \/ r = Stop(e, "ERROR") \/ r = Stop(e, "none")
  <1>0. /\ TRUE \in BOOLEAN /\ FALSE \in BOOLEAN
        /\ 0 \in 0 .. 3 /\ 1 \in 0 .. 3 /\ 2 \in 0 .. 3 /\ 3 \in 0 .. 3
        /\ 0 \in 0 .. 1 /\ 1 \in 0 .. 1
    OBVIOUS
  <1>1. CASE w = "D"
    <2>1. \/ r = Stop(d, "ERROR")
          \/ d.state = "IDLE" /\ \E e \in Dial(d) : r = Stop(e, "none")
      BY <1>1, Zenon DEF Execute
    <2> QED
      BY <2>1, DialInv, Zenon
  <1>2. CASE w = "O"
    <2>1. \/ r = Stop(d, "ERROR")
          \/ /\ d.state = "ONLINE"
             /\ r = Stop([d EXCEPT !.online = TRUE], "none")
      BY <1>2, Zenon DEF Execute
    <2> QED
      BY <2>1, ResumeInv, Zenon
  <1>3. CASE w \in {"H", "Z", "I"}
    <2>1. \/ r = Go(Hangup(d)) \/ r = Go(Defaults(Hangup(d)))
          \/ \E n \in 0 .. Size["INFO"] : r = Go(Out(d, Copies("TEXT", n)))
      BY <1>3 DEF Execute
    <2>2. Inv(Hangup(d)) /\ \A n \in 0 .. Size["INFO"] : Inv(Out(d, Copies("TEXT", n)))
      BY HangupInv, InfoInv, Zenon
    <2>3. Inv(Defaults(Hangup(d)))
      BY <1>0, <2>2, SettingsInv, EmptyFacts, Zenon
    <2> QED
      BY <2>1, <2>2, <2>3, Zenon
  <1>4. CASE w \notin {"D", "O", "H", "Z", "I"}
    <2>1. \/ r = Stop(d, "NO CARRIER") \/ r = Stop(d, "ERROR")
          \/ r = Go([d EXCEPT !.dtrMode = 0]) \/ r = Go([d EXCEPT !.dtrMode = 1])
          \/ r = Go([d EXCEPT !.dtrMode = 2]) \/ r = Go([d EXCEPT !.dtrMode = 3])
          \/ r = Go([d EXCEPT !.dcdMode = 0]) \/ r = Go([d EXCEPT !.dcdMode = 1])
          \/ r = Go([d EXCEPT !.mute = FALSE]) \/ r = Go([d EXCEPT !.mute = TRUE])
      BY <1>4 DEF Execute
    <2>2. \A n \in 0 .. 3 : Inv([d EXCEPT !.dtrMode = n])
      BY <1>0, SettingsInv, EmptyFacts, Zenon
    <2>3. \A n \in 0 .. 1 : Inv([d EXCEPT !.dcdMode = n])
      <3>1. 0 .. 1 \subseteq 0 .. 3
        OBVIOUS
      <3> QED
        BY <1>0, <3>1, SettingsInv, EmptyFacts, Zenon
    <2>4. \A u \in BOOLEAN : Inv([d EXCEPT !.mute = u])
      BY <1>0, SettingsInv, EmptyFacts, Zenon
    <2> QED
      BY <1>0, <2>1, <2>2, <2>3, <2>4, Zenon
  <1> QED
    BY <1>1, <1>2, <1>3, <1>4

Answers == Lines \cup {"more", "none"}
LEMMA ExecuteInv ==
    ASSUME NEW d, Inv(d), NEW w, NEW r \in Execute(d, w)
    PROVE  Inv(r.dev) /\ r.res \in Answers
  <1>1. /\ "NO CARRIER" \in Answers /\ "ERROR" \in Answers
        /\ "more" \in Answers /\ "none" \in Answers
    BY DEF Answers, Lines
  <1>2. PICK e : /\ Inv(e)
                 /\ \/ r = Go(e) \/ r = Stop(e, "NO CARRIER")
                    \/ r = Stop(e, "ERROR") \/ r = Stop(e, "none")
    BY ExecuteOutcome, Zenon
  <1>3. \A x, y : /\ Go(x).dev = x /\ Go(x).res = "more"
                  /\ Stop(x, y).dev = x /\ Stop(x, y).res = y
    BY Zenon DEF Go, Stop
  <1>4. Inv(e)
    BY <1>2
  <1>5. CASE r = Go(e)
    BY <1>1, <1>4, <1>3, <1>5, Zenon
  <1>6. CASE r = Stop(e, "NO CARRIER")
    BY <1>1, <1>4, <1>3, <1>6, Zenon
  <1>7. CASE r = Stop(e, "ERROR")
    BY <1>1, <1>4, <1>3, <1>7, Zenon
  <1>8. CASE r = Stop(e, "none")
    <2>1. r.dev = e /\ r.res = "none"
      BY <1>3, <1>8, Zenon
    <2> QED
      BY <1>1, <1>4, <2>1, Zenon
  <1> QED
    BY <1>2, <1>5, <1>6, <1>7, <1>8, Zenon

\* modem_command_byte: a word, a backspace, a carriage return, A/.
LEMMA TypedInv ==
    ASSUME NEW d, Inv(d), NEW w \in AllWords
    PROVE  Inv(Typed(d, w))
  <1> DEFINE c == Out(d, Line("WORD"))
             line == Append(c.cmd, w)
             e == [c EXCEPT !.cmd = line]
  <1>1. Inv(c)
    BY SaidInv, Names, Zenon
  <1>2. c \in Device /\ c.cmd \in Seq(AllWords) /\ CmdSize \in Nat
    BY <1>1, FieldTypes, ModemAssumption, Zenon DEF Inv, WellFormed
  <1>3. c.cmd = d.cmd
    BY SaidFacts, Zenon
  <1>4. CASE Len(d.cmd) < CmdSize - 1
    <2>1. line \in Seq(AllWords) /\ Len(line) < CmdSize
      <3> HIDE DEF c
      <3>1. /\ line \in Seq(AllWords)
            /\ Len(c.cmd) \in Nat /\ Len(line) = Len(c.cmd) + 1
        BY <1>2, AppendFacts, Zenon
      <3>2. Len(c.cmd) < CmdSize - 1
        BY <1>3, <1>4, Zenon
      <3>3. Len(c.cmd) + 1 < CmdSize
        BY <1>2, <3>1, <3>2, RoomForOne, Zenon
      <3> QED
        BY <3>1, <3>3, Zenon
    <2>2. Typed(d, w) = e
      BY <1>4, Zenon DEF Typed
    <2> HIDE DEF c, line
    <2>3. e \in Device /\ SameView(e, c) /\ e.cmd = line /\ e.owed = c.owed
      BY <1>2, <2>1, Zenon DEF Device, SameView
    <2> HIDE DEF e
    <2>4. Inv(e)
      BY <1>1, <2>1, <2>3, SameLine, Zenon DEF Inv, WellFormed
    <2> QED
      BY <2>2, <2>4
  <1>5. CASE ~(Len(d.cmd) < CmdSize - 1)
    BY <1>1, <1>5, Zenon DEF Typed
  <1> QED
    BY <1>4, <1>5

LEMMA ErasedInv ==
    ASSUME NEW d, Inv(d)
    PROVE  Inv(Erased(d))
  <1> DEFINE c == Out(d, Line("ERASE"))
             line == SubSeq(c.cmd, 1, Len(c.cmd) - 1)
             e == [c EXCEPT !.cmd = line]
  <1>1. Inv(c)
    BY SaidInv, Names, Zenon
  <1>2. /\ c \in Device /\ c.cmd \in Seq(AllWords) /\ CmdSize \in Nat
        /\ 1 \in Nat
    BY <1>1, FieldTypes, ModemAssumption, Zenon DEF Inv, WellFormed
  <1>3. line \in Seq(AllWords) /\ Len(line) < CmdSize
    <2> HIDE DEF c
    <2>1. /\ line \in Seq(AllWords) /\ Len(line) \in Nat
          /\ Len(c.cmd) \in Nat /\ Len(line) <= Len(c.cmd)
      BY <1>2, FrontFacts, Zenon
    <2>2. Len(c.cmd) < CmdSize
      BY <1>1, Zenon DEF Inv, WellFormed
    <2> HIDE DEF line
    <2> QED
      BY <1>2, <2>1, <2>2, Order, Zenon
  <1>4. Erased(d) = d \/ Erased(d) = e
    BY Zenon DEF Erased
  <1> HIDE DEF c, line
  <1>5. e \in Device /\ SameView(e, c) /\ e.cmd = line /\ e.owed = c.owed
    BY <1>2, <1>3, Zenon DEF Device, SameView
  <1> HIDE DEF e
  <1>6. Inv(e)
    BY <1>1, <1>3, <1>5, SameLine, Zenon DEF Inv, WellFormed
  <1> QED
    BY <1>4, <1>6, Zenon

LEMMA StartLineInv ==
    ASSUME NEW d, Inv(d), NEW line \in Seq(AllWords)
    PROVE  Inv(StartLine(d, line))
  <1>1. TRUE \in BOOLEAN /\ 0 \in 0 .. 3
    OBVIOUS
  <1> QED
    BY <1>1, SettingsInv, Zenon DEF StartLine

LEMMA EnteredInv ==
    ASSUME NEW d, Inv(d)
    PROVE  Inv(Entered(d))
  <1> DEFINE c == Out(d, Line("CR"))
             e == [c EXCEPT !.cmd = <<>>]
  <1>1. Inv(c)
    BY SaidInv, Names, Zenon
  <1>2. /\ c \in Device /\ d.cmd \in Seq(AllWords)
        /\ <<>> \in Seq(AllWords) /\ Len(<<>>) < CmdSize
    BY <1>1, FieldTypes, EmptyFacts, ZeroFacts, Zenon DEF Inv, WellFormed
  <1>3. \/ Entered(d) = e \/ Entered(d) = Result(e, "ERROR")
        \/ d.cmd # <<>> /\ Entered(d) = StartLine(e, Tail(d.cmd))
    BY Zenon DEF Entered
  <1> HIDE DEF c
  <1>4. e \in Device /\ SameView(e, c) /\ e.cmd = <<>> /\ e.owed = c.owed
    BY <1>2, Zenon DEF Device, SameView
  <1> HIDE DEF e
  <1>5. Inv(e)
    BY <1>1, <1>2, <1>4, SameLine, Zenon DEF Inv, WellFormed
  <1> QED
    BY <1>2, <1>3, <1>5, ResultInv, StartLineInv, TailFacts, Names, Zenon

-----------------------------------------------------------------------------
(* The actions.                                                            *)

LEMMA InitInv == Init => Inv(m)
  <1> SUFFICES ASSUME Init PROVE Inv(m)
    OBVIOUS
  <1>1. /\ m.state = "IDLE" /\ ~m.online /\ m.tcp = "none" /\ m.inq = 0
        /\ m.pluses = 0 /\ m.out = <<>> /\ m.cmd = <<>> /\ m.owed = <<>>
    BY Zenon DEF Init
  <1>2. /\ "IDLE" \in States /\ "none" \in Tcp
        /\ 0 \in 0 .. MaxIn /\ 0 \in 0 .. 3 /\ 2 \in 0 .. 3 /\ 1 \in 0 .. 1
        /\ <<>> \in Seq(Cell) /\ <<>> \in Seq(AllWords)
        /\ <<>> \in Seq(Char) /\ <<>> \in Seq(Sent)
    <2>1. 2 \in 0 .. 3 /\ 1 \in 0 .. 1
      OBVIOUS
    <2> QED
      BY <2>1, Names, ZeroFacts, EmptyFacts, Zenon
  <1>3. m \in Device
    BY <1>2, Zenon DEF Init, Device
  <1> QED
    BY <1>1, <1>3, EmptyFacts, ZeroFacts, Zenon
    DEF Inv, WellFormed, LineOK, ConnectPending, ConnectRead

LEMMA ReadInv == Inv(m) /\ Read => Inv(m')
  BY PollLineInv, EscapeInv, ReceiveInv, HandedInv, Zenon DEF Read

\* The word that is typed is the next one of a line.
LEMMA NextWord ==
    ASSUME Inv(m), TypeWord
    PROVE  \E w \in AllWords, line \in Commands :
             m' = Typed(m, w) /\ Len(m.cmd) + 1 <= Len(line)
  <1>1. m.cmd \in Seq(AllWords)
    BY FieldTypes, Zenon DEF Inv
  <1>2. PICK line \in Commands :
          Len(m.cmd) < Len(line) /\ m' = Typed(m, line[Len(m.cmd) + 1])
    BY Zenon DEF TypeWord
  <1>3. line \in Seq(AllWords)
    BY ModemAssumption, Zenon
  <1>4. line[Len(m.cmd) + 1] \in AllWords /\ Len(m.cmd) + 1 <= Len(line)
    BY <1>1, <1>2, <1>3
  <1> QED
    BY <1>2, <1>4, Zenon

\* modem_write in command mode.
LEMMA CommandInv ==
    Inv(m) /\ (TypeWord \/ Backspace \/ Enter \/ Again) => Inv(m')
  <1> SUFFICES ASSUME Inv(m), TypeWord \/ Backspace \/ Enter \/ Again
               PROVE  Inv(m')
    OBVIOUS
  <1>1. CASE TypeWord
    <2>1. PICK w \in AllWords : m' = Typed(m, w)
      BY <1>1, NextWord, Zenon
    <2> QED
      BY <2>1, TypedInv, Zenon
  <1>2. CASE Backspace
    BY <1>2, ErasedInv, Zenon DEF Backspace
  <1>3. CASE Enter
    BY <1>3, EnteredInv, Zenon DEF Enter
  <1>4. CASE Again
    <2>1. Inv(Out(m, Line("WORD"))) /\ m.last \in Seq(AllWords)
      BY SaidInv, FieldTypes, Names, Zenon DEF Inv
    <2> QED
      BY <1>4, <2>1, StartLineInv, Zenon DEF Again
  <1> QED
    BY <1>1, <1>2, <1>3, <1>4

\* modem_execute: a word, the end of the line.
LEMMA ExecutionInv == Inv(m) /\ (RunWord \/ EndLine) => Inv(m')
  <1> SUFFICES ASSUME Inv(m), RunWord \/ EndLine PROVE Inv(m')
    OBVIOUS
  <1>1. FALSE \in BOOLEAN /\ 0 \in 0 .. 3 /\ <<>> \in Seq(AllWords)
    OBVIOUS
  <1>2. CASE RunWord
    <2>1. PICK r \in Execute(m, Head(m.run)) :
            m' = CASE r.res = "more" -> [r.dev EXCEPT !.run = Tail(m.run)]
                   [] r.res = "none" ->
                        [r.dev EXCEPT !.run = <<>>, !.busy = FALSE]
                   [] OTHER -> [Result(r.dev, r.res) EXCEPT !.run = <<>>,
                                                            !.busy = FALSE]
      BY <1>2, Zenon DEF RunWord
    <2>2. Inv(r.dev) /\ r.res \in Answers
      BY ExecuteInv, Zenon
    <2>3. CASE r.res = "more"
      <3>1. Tail(m.run) \in Seq(AllWords)
        BY <1>2, FieldTypes, TailFacts, Zenon DEF RunWord, Inv
      <3>2. m' = [r.dev EXCEPT !.run = Tail(m.run)]
        BY <2>1, <2>3, Zenon
      <3> QED
        BY <1>1, <2>2, <3>1, <3>2, SettingsInv, Zenon
    <2>4. CASE r.res = "none"
      <3>1. m' = [r.dev EXCEPT !.run = <<>>, !.busy = FALSE]
        BY <2>1, <2>4
      <3> QED
        BY <1>1, <2>2, <3>1, SettingsInv, Zenon
    <2>5. CASE r.res \notin {"more", "none"}
      <3>1. m' = [Result(r.dev, r.res) EXCEPT !.run = <<>>, !.busy = FALSE]
        BY <2>1, <2>5, Zenon
      <3>2. r.res \in Lines
        BY <2>2, <2>5, Zenon DEF Answers
      <3> QED
        BY <1>1, <2>2, <3>1, <3>2, ResultInv, SettingsInv, Zenon
    <2> QED
      BY <2>3, <2>4, <2>5, Zenon
  <1>3. CASE EndLine
    BY <1>1, <1>3, ResultInv, SettingsInv, Names, Zenon DEF EndLine
  <1> QED
    BY <1>2, <1>3

\* modem_write in data mode.
LEMMA SendOutcome ==
    ASSUME Inv(m), SendData
    PROVE  /\ m.state = "ONLINE" /\ m.online
           /\ \E ch \in Char, taken \in BOOLEAN :
                m' = DataByte(Owes(m, ch), ch, taken) /\ Inv(Owes(m, ch))
  <1>1. m.state = "ONLINE" /\ m.online /\ Len(m.owed) < MaxData
    BY Zenon DEF SendData, Inv, LineOK
  <1>2. PICK ch \in Char, taken \in BOOLEAN : m' = DataByte(Owes(m, ch), ch, taken)
    BY Zenon DEF SendData, Owes
  <1> QED
    BY <1>1, <1>2, OwesInv, Zenon

LEMMA SendInv == Inv(m) /\ SendData => Inv(m')
  <1> SUFFICES ASSUME Inv(m), SendData PROVE Inv(m')
    OBVIOUS
  <1>1. PICK ch \in Char, taken \in BOOLEAN :
          m' = DataByte(Owes(m, ch), ch, taken) /\ Inv(Owes(m, ch))
    BY SendOutcome, Zenon
  <1>2. Owes(m, ch).state = "ONLINE"
    BY SendOutcome, OwesInv, Zenon DEF SameView, SendData
  <1> QED
    BY <1>1, <1>2, DataByteInv, Zenon

\* modem_control.
LEMMA ControlInv == Inv(m) /\ (DtrUp \/ DtrDrop) => Inv(m')
  <1> SUFFICES ASSUME Inv(m), DtrUp \/ DtrDrop PROVE Inv(m')
    OBVIOUS
  <1>1. TRUE \in BOOLEAN /\ FALSE \in BOOLEAN /\ 0 \in 0 .. 3
    OBVIOUS
  <1>2. CASE DtrUp
    BY <1>1, <1>2, SettingsInv, EmptyFacts, Zenon DEF DtrUp
  <1>3. CASE DtrDrop
    <2> DEFINE d == [m EXCEPT !.dtr = FALSE]
    <2>1. Inv(d)
      BY <1>1, SettingsInv, EmptyFacts, Zenon
    <2>2. m' = CASE d.dtrMode = 1 -> [d EXCEPT !.online = FALSE]
                 [] d.dtrMode = 2 -> IF d.state = "IDLE" THEN d
                                     ELSE Result(Hangup(d), "NO CARRIER")
                 [] d.dtrMode = 3 -> Defaults(Hangup(d))
                 [] OTHER -> d
      BY <1>3 DEF DtrDrop
    <2> HIDE DEF d
    <2>3. \/ m' = [d EXCEPT !.online = FALSE] \/ m' = d
          \/ m' = Result(Hangup(d), "NO CARRIER") \/ m' = Defaults(Hangup(d))
      <3>1. 1 # 2 /\ 1 # 3 /\ 2 # 3
        OBVIOUS
      <3>2. CASE d.dtrMode = 1
        BY <2>2, <3>1, <3>2, Zenon
      <3>3. CASE d.dtrMode = 2
        BY <2>2, <3>1, <3>3, Zenon
      <3>4. CASE d.dtrMode = 3
        BY <2>2, <3>1, <3>4, Zenon
      <3>5. CASE ~(d.dtrMode = 1) /\ ~(d.dtrMode = 2) /\ ~(d.dtrMode = 3)
        BY <2>2, <3>5, Zenon
      <3> QED
        BY <3>2, <3>3, <3>4, <3>5, Zenon
    <2>4. Inv(Defaults(Hangup(d)))
      BY <1>1, <2>1, HangupInv, SettingsInv, EmptyFacts, Zenon
    <2> QED
      BY <2>1, <2>3, <2>4, SuspendInv, FailInv, Zenon
  <1> QED
    BY <1>2, <1>3

\* The far end: the socket changes under the modem, nothing else does.
SameButSocket(e, d) ==
    /\ e.state = d.state /\ e.online = d.online /\ e.pluses = d.pluses
    /\ e.said = d.said /\ e.out = d.out /\ e.cmd = d.cmd
    /\ e.owed = d.owed /\ e.told = d.told /\ e.lost = d.lost
LEMMA SocketInv ==
    ASSUME NEW d, Inv(d), d.tcp # "none",
           NEW e \in Device, SameButSocket(e, d), e.tcp # "none",
           e.inq > 0 => e.tcp \in {"up", "eof"}
    PROVE  Inv(e)
  BY Zenon
  DEF Inv, WellFormed, LineOK, ConnectPending, ConnectRead, SameButSocket

LEMMA FarInv ==
    Inv(m) /\ (FarAnswers \/ FarRefuses \/ FarSends \/ FarCloses \/ FarResets)
      => Inv(m')
  <1> SUFFICES ASSUME Inv(m), FarAnswers \/ FarRefuses \/ FarSends
                              \/ FarCloses \/ FarResets
               PROVE  Inv(m')
    OBVIOUS
  <1>1. /\ m.inq \in 0 .. MaxIn /\ m \in Device
        /\ m.inq > 0 => m.tcp \in {"up", "eof"}
    BY FieldTypes, Zenon DEF Inv, WellFormed, LineOK
  <1>2. "syn" # "up" /\ "syn" # "eof" /\ "syn" # "none" /\ "up" # "none"
        /\ "eof" # "none" /\ "dead" # "none"
    OBVIOUS
  <1>3. CASE FarAnswers
    <2>1. m.tcp = "syn" /\ m' = [m EXCEPT !.tcp = "up"]
      BY <1>3 DEF FarAnswers
    <2>2. m' \in Device /\ SameButSocket(m', m) /\ m'.tcp = "up"
      BY <1>1, <2>1, Names, Zenon DEF Device, SameButSocket
    <2> QED
      BY <1>2, <2>1, <2>2, SocketInv, Zenon
  <1>4. CASE FarRefuses
    <2>1. m.tcp = "syn" /\ m' = [m EXCEPT !.tcp = "dead"]
      BY <1>4 DEF FarRefuses
    <2>2. /\ m' \in Device /\ SameButSocket(m', m)
          /\ m'.tcp = "dead" /\ m'.inq = m.inq
      BY <1>1, <2>1, Names, Zenon DEF Device, SameButSocket
    <2>3. ~(m.inq > 0)
      BY <1>1, <1>2, <2>1, Zenon
    <2> QED
      BY <1>2, <2>1, <2>2, <2>3, SocketInv, Zenon
  <1>5. CASE FarSends
    <2>1. m.tcp = "up" /\ m.inq < MaxIn /\ m' = [m EXCEPT !.inq = m.inq + 1]
      BY <1>5 DEF FarSends
    <2>2. \A q \in 0 .. MaxIn : q < MaxIn => q + 1 \in 0 .. MaxIn
      BY ModemAssumption
    <2>3. m.inq + 1 \in 0 .. MaxIn
      BY <1>1, <2>1, <2>2, Zenon
    <2>4. m' \in Device /\ SameButSocket(m', m) /\ m'.tcp = m.tcp
      BY <1>1, <2>1, <2>3, Zenon DEF Device, SameButSocket
    <2> QED
      BY <1>2, <2>1, <2>4, SocketInv, Zenon
  <1>6. CASE FarCloses
    <2>1. m.tcp = "up" /\ m' = [m EXCEPT !.tcp = "eof"]
      BY <1>6 DEF FarCloses
    <2>2. m' \in Device /\ SameButSocket(m', m) /\ m'.tcp = "eof"
      BY <1>1, <2>1, Names, Zenon DEF Device, SameButSocket
    <2> QED
      BY <1>2, <2>1, <2>2, SocketInv, Zenon
  <1>7. CASE FarResets
    <2>1. m.tcp \in {"up", "eof"} /\ m' = [m EXCEPT !.tcp = "dead", !.inq = 0]
      BY <1>7 DEF FarResets
    <2>2. /\ m' \in Device /\ SameButSocket(m', m)
          /\ m'.tcp = "dead" /\ m'.inq = 0
      BY <1>1, <2>1, Names, ZeroFacts, Zenon DEF Device, SameButSocket
    <2>3. ~(m'.inq > 0) /\ m.tcp # "none"
      BY <1>2, <2>1, <2>2, ZeroFacts, Zenon
    <2> QED
      BY <1>2, <2>2, <2>3, SocketInv, Zenon
  <1> QED
    BY <1>3, <1>4, <1>5, <1>6, <1>7

\* The clocks.
LEMMA ClockInv ==
    Inv(m) /\ (DeadlinePasses \/ FirstRingEnds \/ GuardElapses) => Inv(m')
  <1>1. TRUE \in BOOLEAN
    OBVIOUS
  <1> QED
    BY <1>1, TimerInv, Zenon DEF DeadlinePasses, FirstRingEnds, GuardElapses

LEMMA NextInv == Inv(m) /\ [Next]_vars => Inv(m')
  <1>1. Inv(m) /\ UNCHANGED vars => Inv(m')
    BY Zenon DEF vars
  <1> QED
    BY <1>1, ReadInv, CommandInv, ExecutionInv, SendInv, ControlInv, FarInv,
       ClockInv, Zenon DEF Next

-----------------------------------------------------------------------------
(* The data path.                                                          *)

\* What is held back is the end of what the DTE sent, the first of a run of
\* escape characters after a guard time; all before it is on the wire, and no
\* run of less than four is cut there.
HeldBack(d) ==
    /\ Len(d.owed) = Len(d.wire) + d.pluses
    /\ \A i \in 1 .. Len(d.wire) : d.owed[i].ch = d.wire[i]
    /\ \A i \in 1 .. Len(d.owed) :
         i > Len(d.wire) => d.owed[i] = [ch |-> "+", nth |-> i - Len(d.wire)]
    /\ \A i \in 1 .. Len(d.owed) :
         d.owed[i].nth > 1 => i > 1 /\ d.owed[i - 1].nth = d.owed[i].nth - 1
    /\ Len(d.wire) > 0 => d.owed[Len(d.wire)].nth \notin 1 .. 3
Pipe(d) ==
    /\ d.state # "ONLINE" => d.wire = <<>> /\ d.owed = <<>>
    /\ HeldBack(d)

\* A function that has nothing to do with the data, one that leaves the data
\* path as it is, and one that ends the call.
Beside(e, d) ==
    /\ e.wire = d.wire /\ e.owed = d.owed /\ e.pluses = d.pluses
    /\ e.state = d.state /\ e.online = d.online
SamePath(e, d) ==
    /\ e.wire = d.wire /\ e.owed = d.owed /\ e.pluses = d.pluses
    /\ d.state = "ONLINE" => e.state = "ONLINE"
    /\ d.online => e.online
Reset(e) == e.wire = <<>> /\ e.owed = <<>> /\ e.pluses = 0 /\ e.state # "ONLINE"
Settles(e, d) == SamePath(e, d) \/ Reset(e)

LEMMA BesideSettles ==
    ASSUME NEW d, NEW e, NEW f
    PROVE  /\ Beside(d, d)
           /\ Beside(e, d) => Settles(e, d)
           /\ Settles(e, d) /\ Beside(f, e) => Settles(f, d)
           /\ Beside(e, d) /\ Settles(f, e) => Settles(f, d)
           /\ Beside(e, d) /\ Beside(f, e) => Beside(f, d)
  BY Zenon DEF Beside, SamePath, Reset, Settles

LEMMA PipeKept ==
    ASSUME NEW d, NEW e, Pipe(d), Settles(e, d)
    PROVE  Pipe(e)
  <1>1. CASE SamePath(e, d)
    BY <1>1, Zenon DEF SamePath, Pipe, HeldBack
  <1>2. CASE Reset(e)
    <2>1. e.wire = <<>> /\ e.owed = <<>> /\ e.pluses = 0
      BY <1>2 DEF Reset
    <2>2. HeldBack(e)
      BY <2>1 DEF HeldBack
    <2> QED
      BY <2>1, <2>2, Zenon DEF Pipe
  <1> QED
    BY <1>1, <1>2 DEF Settles

\* What the DTE is told, what it types and what it sets.
LEMMA TellingBeside ==
    ASSUME NEW d \in Device, NEW x
    PROVE  Beside(Out(d, x), d) /\ Beside(Result(d, x), d)
  BY Zenon DEF Out, Result, Beside, Device

LEMMA SettingsBeside ==
    ASSUME NEW d \in Device, NEW x, NEW y, NEW z
    PROVE  /\ Beside(CallOver(d), d) /\ Beside(Defaults(d), d) /\ Beside(Handed(d), d)
           /\ Beside(Deliver(d, x), d) /\ Beside(StartLine(d, x), d)
           /\ Beside([d EXCEPT !.cmd = x], d) /\ Beside([d EXCEPT !.dtr = x], d)
           /\ Beside([d EXCEPT !.run = x], d) /\ Beside([d EXCEPT !.run = x, !.busy = y], d)
           /\ Beside([d EXCEPT !.busy = x], d)
           /\ Beside([d EXCEPT !.dtrMode = x], d) /\ Beside([d EXCEPT !.dcdMode = x], d)
           /\ Beside([d EXCEPT !.mute = x], d) /\ Beside([d EXCEPT !.due = x], d)
           /\ Beside([d EXCEPT !.rung = x], d) /\ Beside([d EXCEPT !.guard = x], d)
           /\ Beside([d EXCEPT !.tcp = x], d) /\ Beside([d EXCEPT !.inq = x], d)
           /\ Beside([d EXCEPT !.tcp = x, !.inq = y], d)
           /\ Beside([d EXCEPT !.refused = x, !.due = y], d)
           /\ Beside([d EXCEPT !.said = x, !.due = y, !.told = z], d)
  BY Zenon DEF CallOver, Defaults, Handed, Deliver, StartLine, Beside, Device

\* modem_hangup, and the calls that end with it.
LEMMA HangupResets ==
    ASSUME NEW d, Inv(d), NEW x
    PROVE  /\ Reset(Hangup(d)) /\ Reset(Result(Hangup(d), x)) /\ Reset(Defaults(Hangup(d)))
  <1>1. d \in Device
    BY Zenon DEF Inv, WellFormed
  <1>2. Reset(Hangup(d))
    <2>1. "IDLE" # "ONLINE"
      OBVIOUS
    <2> QED
      BY <1>1, <2>1, Zenon DEF Hangup, CallOver, Reset, Device
  <1>3. Hangup(d) \in Device
    BY HangupInv, Zenon DEF Inv, WellFormed
  <1>4. Beside(Result(Hangup(d), x), Hangup(d)) /\ Beside(Defaults(Hangup(d)), Hangup(d))
    BY <1>3, TellingBeside, SettingsBeside, Zenon
  <1> QED
    BY <1>2, <1>4, Zenon DEF Reset, Beside

\* The call comes up: its data path is still empty.
LEMMA UpSettles ==
    ASSUME NEW d \in Device
    PROVE  /\ d.state # "ONLINE" => Settles(Answered(d), d)
           /\ Settles(GoOnline(d), d)
           /\ d.state # "ONLINE" => \A e \in Dial(d) : Settles(e, d)
           /\ Settles([d EXCEPT !.online = TRUE], d)
  <1>1. d.state # "ONLINE" => SamePath(Answered(d), d)
    BY Zenon DEF Answered, CallOver, SamePath, Device
  <1>2. SamePath(GoOnline(d), d)
    BY Zenon DEF GoOnline, CallOver, SamePath, Device
  <1>3. ASSUME d.state # "ONLINE", NEW e \in Dial(d) PROVE SamePath(e, d)
    <2> DEFINE c == [d EXCEPT !.refused = FALSE, !.rung = FALSE, !.due = FALSE,
                              !.told = FALSE, !.lost = FALSE]
    <2>1. c \in Device /\ Beside(c, d)
      BY Zenon DEF Beside, Device
    <2>2. \/ e = [c EXCEPT !.state = "DIALING"]
          \/ e = [c EXCEPT !.state = "CONNECTING", !.tcp = "syn"]
      BY <1>3, Zenon DEF Dial
    <2> HIDE DEF c
    <2>3. e.wire = c.wire /\ e.owed = c.owed /\ e.pluses = c.pluses /\ e.online = c.online
      BY <2>1, <2>2, Zenon DEF Device
    <2> QED
      BY <1>3, <2>1, <2>3, Zenon DEF SamePath, Beside
  <1>4. SamePath([d EXCEPT !.online = TRUE], d)
    BY Zenon DEF SamePath, Device
  <1> QED
    BY <1>1, <1>2, <1>3, <1>4, Zenon DEF Settles

\* modem_poll_line has nothing to do once there is a carrier.
LEMMA PollSettles ==
    ASSUME NEW d, Inv(d)
    PROVE  Settles(PollLine(d), d) /\ (d.state = "ONLINE" => PollLine(d) = d)
  <1>1. d \in Device
    BY Zenon DEF Inv, WellFormed
  <1>2. Settles(d, d) /\ Settles(Result(Hangup(d), "NO CARRIER"), d)
    BY HangupResets, BesideSettles, Zenon DEF Settles
  <1>3. CASE d.state = "DIALING"
    BY <1>2, <1>3, Zenon DEF PollLine
  <1>4. CASE d.state = "CONNECTING"
    <2>1. PollLine(d) = PollConnecting(d) /\ d.state # "ONLINE"
      BY <1>4 DEF PollLine
    <2>2. \/ PollConnecting(d) \in {d, Answered(d), Result(Hangup(d), "NO CARRIER")}
          \/ PollConnecting(d) = [d EXCEPT !.refused = TRUE, !.due = FALSE]
      BY Zenon DEF PollConnecting
    <2>3. Settles(Answered(d), d)
      BY <1>1, <2>1, UpSettles, Zenon
    <2>4. Settles([d EXCEPT !.refused = TRUE, !.due = FALSE], d)
      BY <1>1, SettingsBeside, BesideSettles, ZenonT(40)
    <2> QED
      BY <1>2, <2>1, <2>2, <2>3, <2>4, Zenon
  <1>5. CASE d.state = "ANSWERING"
    <2> DEFINE c == Result(d, "CONNECT")
               e == [c EXCEPT !.said = TRUE, !.due = FALSE, !.told = d.mute]
    <2>1. PollLine(d) = PollAnswering(d) /\ d.state # "ONLINE"
      BY <1>5 DEF PollLine
    <2>2. PollAnswering(d) \in {d, GoOnline(d), e}
      BY Zenon DEF PollAnswering
    <2>3. c \in Device
      BY ResultInv, Names, Zenon DEF Inv, WellFormed
    <2>4. Settles(e, d)
      <3>1. Beside(c, d)
        BY <1>1, TellingBeside, Zenon
      <3> HIDE DEF c
      <3>2. Beside(e, c)
        BY <2>3, SettingsBeside, Zenon
      <3> HIDE DEF e
      <3> QED
        BY <3>1, <3>2, BesideSettles, Zenon
    <2> HIDE DEF e
    <2> QED
      BY <1>1, <1>2, <2>1, <2>2, <2>4, UpSettles, Zenon
  <1>6. CASE d.state \notin {"DIALING", "CONNECTING", "ANSWERING"}
    <2>1. PollLine(d) = d
      BY <1>6 DEF PollLine
    <2> QED
      BY <1>2, <2>1
  <1> QED
    BY <1>3, <1>4, <1>5, <1>6

\* modem_read, after the escape.
LEMMA ReceiveSettles ==
    ASSUME NEW d, Inv(d), NEW e \in Receive(d)
    PROVE  Settles(Handed(e), d)
  <1>1. d \in Device /\ e \in Device
    BY ReceiveInv, Zenon DEF Inv, WellFormed
  <1>2. \/ e = d \/ e = Result(Hangup(d), "NO CARRIER")
        \/ \E n : e = Deliver(d, n)
    BY Zenon DEF Receive
  <1>3. Settles(e, d)
    <2>1. CASE e = d
      BY <2>1, BesideSettles, Zenon
    <2>2. CASE e = Result(Hangup(d), "NO CARRIER")
      BY <2>2, HangupResets, Zenon DEF Settles
    <2>3. CASE \E n : e = Deliver(d, n)
      BY <1>1, <2>3, SettingsBeside, BesideSettles, Zenon
    <2> QED
      BY <1>2, <2>1, <2>2, <2>3
  <1> QED
    BY <1>1, <1>3, SettingsBeside, BesideSettles, Zenon

\* modem_execute, a word.
LEMMA ExecuteSettles ==
    ASSUME NEW d, Inv(d), NEW w, NEW r \in Execute(d, w)
    PROVE  Settles(r.dev, d)
  <1>1. d \in Device
    BY Zenon DEF Inv, WellFormed
  <1>2. \A x, y : Go(x).dev = x /\ Stop(x, y).dev = x
    BY Zenon DEF Go, Stop
  <1>3. Settles(d, d)
    BY BesideSettles, Zenon
  <1>4. \A x, y : r = Stop(x, y) \/ r = Go(x) => r.dev = x
    BY <1>2, Zenon
  <1>5. CASE w = "D"
    <2>1. \/ r = Stop(d, "ERROR")
          \/ d.state = "IDLE" /\ \E e \in Dial(d) : r = Stop(e, "none")
      BY <1>5, Zenon DEF Execute
    <2>2. d.state = "IDLE" => d.state # "ONLINE"
      OBVIOUS
    <2>3. d.state = "IDLE" => \A e \in Dial(d) : Settles(e, d)
      BY <1>1, <2>2, UpSettles, Zenon
    <2> QED
      BY <1>3, <1>4, <2>1, <2>3, Zenon
  <1>6. CASE w = "O"
    <2>1. r = Stop(d, "ERROR") \/ r = Stop([d EXCEPT !.online = TRUE], "none")
      BY <1>6, Zenon DEF Execute
    <2>2. Settles([d EXCEPT !.online = TRUE], d)
      BY <1>1, UpSettles, Zenon
    <2> QED
      BY <1>3, <1>4, <2>1, <2>2, Zenon
  <1>7. CASE w \in {"H", "Z", "I"}
    <2>1. \/ r = Go(Hangup(d)) \/ r = Go(Defaults(Hangup(d)))
          \/ \E n : r = Go(Out(d, Copies("TEXT", n)))
      BY <1>7, Zenon DEF Execute
    <2>2. Settles(Hangup(d), d) /\ Settles(Defaults(Hangup(d)), d)
      BY HangupResets, Zenon DEF Settles
    <2>3. \A n : Settles(Out(d, Copies("TEXT", n)), d)
      BY <1>1, TellingBeside, BesideSettles, Zenon
    <2> QED
      BY <1>4, <2>1, <2>2, <2>3, Zenon
  <1>8. CASE w \notin {"D", "O", "H", "Z", "I"}
    <2>1. \/ r = Stop(d, "NO CARRIER") \/ r = Stop(d, "ERROR")
          \/ \E n : \/ r = Go([d EXCEPT !.dtrMode = n]) \/ r = Go([d EXCEPT !.dcdMode = n])
                    \/ r = Go([d EXCEPT !.mute = n])
      BY <1>8, Zenon DEF Execute
    <2>2. \A n : /\ Settles([d EXCEPT !.dtrMode = n], d) /\ Settles([d EXCEPT !.dcdMode = n], d)
                 /\ Settles([d EXCEPT !.mute = n], d)
      BY <1>1, SettingsBeside, BesideSettles, Zenon
    <2> QED
      BY <1>3, <1>4, <2>1, <2>2, Zenon
  <1> QED
    BY <1>5, <1>6, <1>7, <1>8

\* modem_read: the escape takes the characters held back out of what is owed.
LEMMA EscapePath ==
    ASSUME NEW d, Inv(d), Pipe(d)
    PROVE  /\ Pipe(Escape(d))
           /\ Beside(Escape(d), d) \/ (d.online /\ d.guard /\ d.pluses = 3)
  <1> DEFINE left == SubSeq(d.owed, 1, Len(d.owed) - 3)
             e == [d EXCEPT !.pluses = 0, !.online = FALSE, !.owed = left]
  <1>1. d \in Device /\ d.owed \in Seq(Sent) /\ d.wire \in Seq(Char) /\ d.pluses \in 0 .. 3
    BY FieldTypes, Zenon DEF Inv, WellFormed
  <1>2. CASE Escape(d) = d
    BY <1>2, BesideSettles, Zenon
  <1>3. CASE d.online /\ d.pluses >= 3 /\ d.guard
    <2>1. d.pluses = 3 /\ d.state = "ONLINE"
      BY <1>1, <1>3 DEF Inv, LineOK
    <2>2. Len(d.owed) = Len(d.wire) + 3 /\ Len(d.wire) \in Nat
      BY <1>1, <2>1 DEF Pipe, HeldBack
    <2>3. Len(left) = Len(d.wire) /\ \A i \in 1 .. Len(d.wire) : left[i] = d.owed[i]
      BY <1>1, <2>2
    <2>4. Escape(d) = Result(e, "OK")
      BY <1>3, Zenon DEF Escape
    <2> HIDE DEF left
    <2>5. /\ e.wire = d.wire /\ e.owed = left /\ e.pluses = 0 /\ e.state = d.state
      BY <1>1, Zenon DEF Device
    <2>6. e \in Device
      <3>1. left \in Seq(Sent)
        BY <1>1, <2>2 DEF left
      <3> QED
        BY <1>1, <3>1, ZeroFacts, Zenon DEF Device
    <2> HIDE DEF e
    <2>7. HeldBack(e)
      <3>1. /\ Len(e.owed) = Len(e.wire) + e.pluses /\ Len(e.owed) = Len(d.wire)
            /\ e.wire = d.wire
            /\ \A i \in 1 .. Len(d.wire) : i \in 1 .. Len(d.owed) /\ e.owed[i] = d.owed[i]
        BY <2>2, <2>3, <2>5
      <3>2. \A i \in 1 .. Len(d.wire) :
              /\ e.owed[i].ch = d.wire[i]
              /\ e.owed[i].nth > 1 => i > 1 /\ e.owed[i - 1].nth = e.owed[i].nth - 1
        <4> SUFFICES ASSUME NEW i \in 1 .. Len(d.wire)
                     PROVE  /\ e.owed[i].ch = d.wire[i]
                            /\ e.owed[i].nth > 1 =>
                                 i > 1 /\ e.owed[i - 1].nth = e.owed[i].nth - 1
          OBVIOUS
        <4>1. /\ d.owed[i].ch = d.wire[i]
              /\ d.owed[i].nth > 1 => i > 1 /\ d.owed[i - 1].nth = d.owed[i].nth - 1
          BY <3>1, Zenon DEF Pipe, HeldBack
        <4>2. i > 1 => i - 1 \in 1 .. Len(d.wire)
          BY <2>2
        <4> QED
          BY <3>1, <4>1, <4>2, Zenon
      <3>3. Len(d.wire) > 0 => e.owed[Len(d.wire)].nth \notin 1 .. 3
        <4>1. Len(d.wire) > 0 => Len(d.wire) \in 1 .. Len(d.wire)
          BY <2>2
        <4> QED
          BY <3>1, <4>1, Zenon DEF Pipe, HeldBack
      <3>4. \A i \in 1 .. Len(d.wire) : ~(i > Len(d.wire))
        BY <2>2
      <3> QED
        BY <3>1, <3>2, <3>3, <3>4, Zenon DEF HeldBack
    <2>8. Pipe(e)
      BY <2>1, <2>5, <2>7, Zenon DEF Pipe
    <2>9. Settles(Result(e, "OK"), e)
      BY <2>6, TellingBeside, BesideSettles, Zenon
    <2> QED
      BY <1>3, <2>1, <2>4, <2>8, <2>9, PipeKept, Zenon
  <1> QED
    BY <1>2, <1>3, Zenon DEF Escape

\* What goes into the line when a character sets those held back free.
Freed(t, w, p, ch) ==
    /\ Len(t) = Len(w) + p + 1
    /\ \A i \in 1 .. Len(w) : t[i] = w[i]
    /\ \A i \in Len(w) + 1 .. Len(w) + p : t[i] = "+"
    /\ t[Len(w) + p + 1] = ch
LEMMA FreedFacts ==
    ASSUME NEW w \in Seq(Char), NEW p \in Nat, NEW ch \in Char
    PROVE  Freed(w \o Append(Plus(p), ch), w, p, ch)
  <1>1. Plus(p) = [i \in 1 .. p |-> "+"]
    BY Zenon DEF Plus, Copies
  <1>2. "+" \in Char
    BY Names
  <1>3. \A S : \A x \in S : [i \in 1 .. p |-> x] \in Seq(S) /\ Len([i \in 1 .. p |-> x]) = p
    OBVIOUS
  <1>4. Plus(p) \in Seq(Char) /\ Len(Plus(p)) = p /\ \A i \in 1 .. p : Plus(p)[i] = "+"
    BY <1>1, <1>2, <1>3, Zenon
  <1> HIDE DEF Plus
  <1>5. /\ Append(Plus(p), ch) \in Seq(Char) /\ Len(Append(Plus(p), ch)) = p + 1
        /\ \A i \in 1 .. p : Append(Plus(p), ch)[i] = "+"
        /\ Append(Plus(p), ch)[p + 1] = ch
    BY <1>4
  <1> DEFINE t == Append(Plus(p), ch)
             v == w \o t
  <1> HIDE DEF t
  <1>6. /\ Len(w) \in Nat /\ Len(v) = Len(w) + Len(t)
        /\ \A i \in 1 .. Len(w) : v[i] = w[i]
        /\ \A i \in 1 .. Len(t) : v[Len(w) + i] = t[i]
    BY <1>5, SMTT(30) DEF t
  <1>7. /\ Len(t) = p + 1 /\ t[p + 1] = ch
        /\ \A i \in 1 .. p : t[i] = "+"
    BY <1>5, Zenon DEF t
  <1> HIDE DEF v
  <1>8. \A i \in Len(w) + 1 .. Len(w) + p :
          i - Len(w) \in 1 .. p /\ i - Len(w) \in 1 .. p + 1 /\ Len(w) + (i - Len(w)) = i
    BY <1>6
  <1>9. \A i \in Len(w) + 1 .. Len(w) + p : v[i] = "+"
    BY <1>6, <1>7, <1>8, Zenon
  <1>10. Len(v) = Len(w) + p + 1 /\ v[Len(w) + p + 1] = ch
    <2>1. p + 1 \in 1 .. p + 1 /\ Len(w) + (p + 1) = Len(w) + p + 1
      BY <1>6
    <2>2. v[Len(w) + (p + 1)] = ch /\ Len(v) = Len(w) + (p + 1)
      BY <1>6, <1>7, <2>1, Zenon
    <2> QED
      BY <2>1, <2>2
  <1>11. Freed(v, w, p, ch)
    BY <1>6, <1>9, <1>10, Zenon DEF Freed
  <1> QED
    BY <1>11 DEF v, t

\* The place of the next character in a run is the count the modem keeps.
Counted(d, ch) == ch = "+" /\ (d.pluses > 0 \/ d.guard)
LEMMA NthFacts ==
    ASSUME NEW d, Inv(d), Pipe(d), NEW ch \in Char
    PROVE  /\ Counted(d, ch) => Nth(d, ch) = d.pluses + 1
           /\ ~Counted(d, ch) => Nth(d, ch) = 0
  <1> DEFINE n == Len(d.owed)
             k == IF n = 0 THEN 0 ELSE d.owed[n].nth
  <1>1. /\ d.owed \in Seq(Sent) /\ d.wire \in Seq(Char) /\ d.pluses \in 0 .. 3
        /\ HeldBack(d)
    BY FieldTypes, Zenon DEF Inv, Pipe
  <1>2. n \in Nat /\ Len(d.wire) \in Nat /\ n = Len(d.wire) + d.pluses
    <2>1. n \in Nat /\ Len(d.wire) \in Nat
      BY <1>1
    <2> QED
      BY <1>1, <2>1, Zenon DEF HeldBack
  <1>3. Nth(d, ch) = CASE ch = "+" /\ k \in 1 .. 3 -> k + 1
                       [] ch = "+" /\ k \notin 1 .. 3 /\ d.guard -> 1
                       [] OTHER -> 0
    BY Zenon DEF Nth
  <1>4. CASE d.pluses > 0
    <2>1. n \in 1 .. n /\ n > Len(d.wire) /\ n - Len(d.wire) = d.pluses
      BY <1>1, <1>2, <1>4
    <2>2. d.owed[n] = [ch |-> "+", nth |-> n - Len(d.wire)]
      BY <1>1, <2>1, Zenon DEF HeldBack
    <2>3. d.owed[n].nth = d.pluses
      <3>1. \A x, y : [ch |-> x, nth |-> y].nth = y
        BY SMT
      <3> QED
        BY <2>1, <2>2, <3>1, ZenonT(40)
    <2>4. n # 0 /\ d.pluses \in 1 .. 3
      BY <1>1, <1>4, <2>1
    <2>5. k = d.pluses
      BY <2>3, <2>4, Zenon
    <2> HIDE DEF k
    <2> QED
      BY <1>3, <1>4, <2>4, <2>5 DEF Counted
  <1>5. CASE ~(d.pluses > 0)
    <2>1. d.pluses = 0 /\ n = Len(d.wire)
      BY <1>1, <1>2, <1>5
    <2>2. n > 0 => d.owed[n].nth \notin 1 .. 3
      BY <1>1, <2>1, Zenon DEF HeldBack
    <2>3. n = 0 \/ n > 0
      BY <1>2
    <2>4. 0 \notin 1 .. 3
      OBVIOUS
    <2>5. k \notin 1 .. 3
      BY <2>2, <2>3, <2>4, Zenon
    <2> HIDE DEF k, n
    <2> QED
      BY <1>3, <1>5, <2>1, <2>5 DEF Counted
  <1> QED
    BY <1>4, <1>5

\* A character goes out behind those that were held back: itself, or itself
\* twice if it is the fourth.
OwesMore(d, o, p, ch) ==
    /\ \A i \in 1 .. Len(d.owed) : o[i] = d.owed[i]
    /\ \/ /\ Len(o) = Len(d.owed) + 1 /\ p = d.pluses
          /\ o[Len(d.owed) + 1] = [ch |-> ch, nth |-> 0]
       \/ /\ Len(o) = Len(d.owed) + 2 /\ d.pluses = 3 /\ p = 4 /\ ch = "+"
          /\ o[Len(d.owed) + 1] = [ch |-> ch, nth |-> 4]
          /\ o[Len(d.owed) + 2] = [ch |-> ch, nth |-> 5]
LEMMA OutBehind ==
    ASSUME NEW d, d.wire \in Seq(Char), d.owed \in Seq(Sent),
           d.pluses \in 0 .. 3, HeldBack(d),
           NEW ch \in Char, NEW o \in Seq(Sent), NEW w, NEW p \in Nat,
           Freed(w, d.wire, p, ch), OwesMore(d, o, p, ch),
           NEW e, e.wire = w, e.owed = o, e.pluses = 0
    PROVE  HeldBack(e)
  <1> DEFINE n == Len(d.owed)
             l == Len(d.wire)
  <1>1. n \in Nat /\ l \in Nat /\ n = l + d.pluses /\ d.pluses \in 0 .. 3
    <2>1. n \in Nat /\ l \in Nat
      OBVIOUS
    <2> QED
      BY <2>1, Zenon DEF HeldBack
  <1>3. /\ \A i \in 1 .. l : d.owed[i].ch = d.wire[i]
        /\ \A i \in 1 .. n : i > l => d.owed[i].ch = "+" /\ d.owed[i].nth = i - l
        /\ \A i \in 1 .. n :
             d.owed[i].nth > 1 => i > 1 /\ d.owed[i - 1].nth = d.owed[i].nth - 1
    <2>1. /\ \A i \in 1 .. l : d.owed[i].ch = d.wire[i]
          /\ \A i \in 1 .. n : i > l => d.owed[i] = [ch |-> "+", nth |-> i - l]
          /\ \A i \in 1 .. n :
               d.owed[i].nth > 1 => i > 1 /\ d.owed[i - 1].nth = d.owed[i].nth - 1
      BY Zenon DEF HeldBack
    <2> HIDE DEF n, l
    <2>2. ASSUME NEW i \in 1 .. n, i > l
          PROVE  d.owed[i].ch = "+" /\ d.owed[i].nth = i - l
      <3>1. d.owed[i] = [ch |-> "+", nth |-> i - l]
        BY <2>1, <2>2, Zenon
      <3> QED
        BY <3>1
    <2> QED
      BY <2>1, <2>2
  <1>4. /\ Len(w) = l + p + 1
        /\ \A i \in 1 .. l : w[i] = d.wire[i]
        /\ \A i \in l + 1 .. l + p : w[i] = "+"
        /\ w[l + p + 1] = ch
    BY Zenon DEF Freed
  <1>5. \/ /\ Len(o) = n + 1 /\ p = d.pluses
           /\ o[n + 1].ch = ch /\ o[n + 1].nth = 0
        \/ /\ Len(o) = n + 2 /\ d.pluses = 3 /\ p = 4 /\ ch = "+"
           /\ o[n + 1].ch = ch /\ o[n + 1].nth = 4
           /\ o[n + 2].ch = ch /\ o[n + 2].nth = 5
    <2>1. CASE /\ Len(o) = n + 1 /\ p = d.pluses
               /\ o[n + 1] = [ch |-> ch, nth |-> 0]
      BY <2>1
    <2>2. CASE /\ Len(o) = n + 2 /\ d.pluses = 3 /\ p = 4 /\ ch = "+"
               /\ o[n + 1] = [ch |-> ch, nth |-> 4]
               /\ o[n + 2] = [ch |-> ch, nth |-> 5]
      BY <2>2
    <2> QED
      BY <2>1, <2>2, Zenon DEF OwesMore
  <1>6. \A i \in 1 .. n : o[i] = d.owed[i]
    BY Zenon DEF OwesMore
  <1> HIDE DEF n, l
  <1>7. Len(o) = Len(w) /\ Len(w) \in Nat /\ Len(w) > 0
    BY <1>1, <1>4, <1>5, SMTT(30)
  <1>8. ASSUME NEW i \in 1 .. Len(w) PROVE o[i].ch = w[i]
    <2>1. CASE i \in 1 .. l
      <3>1. i \in 1 .. n
        BY <1>1, <2>1
      <3> QED
        BY <1>3, <1>4, <1>6, <2>1, <3>1, Zenon
    <2>2. CASE i \in l + 1 .. n
      <3>1. i \in 1 .. n /\ i > l /\ i \in l + 1 .. l + p
        BY <1>1, <1>5, <2>2
      <3> QED
        BY <1>3, <1>4, <1>6, <3>1, ZenonT(40)
    <2>3. CASE i = n + 1
      <3>1. o[i].ch = ch
        BY <1>5, <2>3, Zenon
      <3>2. i = l + p + 1 \/ (i \in l + 1 .. l + p /\ ch = "+")
        <4>1. p = d.pluses \/ (d.pluses = 3 /\ p = 4 /\ ch = "+")
          BY <1>5, Zenon
        <4> QED
          BY <1>1, <2>3, <4>1, SMTT(30)
      <3> QED
        BY <1>4, <3>1, <3>2, Zenon
    <2>4. CASE i = n + 2
      <3>1. Len(o) = n + 2 /\ i = l + p + 1
        BY <1>1, <1>4, <1>5, <1>7, <2>4
      <3>2. n + 2 # n + 1
        BY <1>1
      <3>3. o[i].ch = ch
        BY <1>5, <2>4, <3>1, <3>2, Zenon
      <3> QED
        BY <1>4, <3>1, <3>3, Zenon
    <2>5. \/ i \in 1 .. l \/ i \in l + 1 .. n \/ i = n + 1 \/ i = n + 2
      <3>1. Len(w) = n + 1 \/ Len(w) = n + 2
        BY <1>5, <1>7, Zenon
      <3>2. \A x, y \in Nat : \A z \in 0 .. 3 : x = y + z =>
              \A j \in 1 .. x + 2 :
                /\ j \in 1 .. y \/ j \in y + 1 .. x \/ j = x + 1 \/ j = x + 2
                /\ j \in 1 .. x + 1 =>
                     j \in 1 .. y \/ j \in y + 1 .. x \/ j = x + 1
        OBVIOUS
      <3>3. i \in 1 .. n + 2
        BY <1>1, <3>1
      <3> QED
        BY <1>1, <3>2, <3>3, Zenon
    <2> QED
      BY <2>1, <2>2, <2>3, <2>4, <2>5, Zenon
  <1>9. ASSUME NEW i \in 1 .. Len(o), o[i].nth > 1
        PROVE  i > 1 /\ o[i - 1].nth = o[i].nth - 1
    <2>1. CASE i \in 1 .. n
      <3>1. i > 1 /\ d.owed[i - 1].nth = d.owed[i].nth - 1
        BY <1>3, <1>6, <1>9, <2>1, Zenon
      <3>2. i - 1 \in 1 .. n
        BY <1>1, <2>1, <3>1
      <3> QED
        BY <1>6, <2>1, <3>1, <3>2, Zenon
    <2>2. CASE i = n + 1
      <3>1. d.pluses = 3 /\ o[i].nth = 4
        <4>1. ~(0 > 1)
          OBVIOUS
        <4> QED
          BY <1>5, <1>9, <2>2, <4>1, Zenon
      <3>2. n \in 1 .. n /\ n > l /\ n - l = 3 /\ i > 1 /\ i - 1 = n
        BY <1>1, <2>2, <3>1
      <3>3. o[n].nth = 3
        BY <1>3, <1>6, <3>2, ZenonT(40)
      <3> QED
        BY <3>1, <3>2, <3>3
    <2>3. CASE i = n + 2
      <3>1. Len(o) = n + 2 /\ n + 2 # n + 1 /\ i - 1 = n + 1 /\ i > 1
        BY <1>1, <1>5, <2>3, SMTT(30)
      <3>2. o[i].nth = 5 /\ o[i - 1].nth = 4
        BY <1>5, <2>3, <3>1, Zenon
      <3> QED
        BY <3>1, <3>2
    <2>4. i \in 1 .. n \/ i = n + 1 \/ i = n + 2
      <3>1. Len(o) = n + 1 \/ Len(o) = n + 2
        BY <1>5, Zenon
      <3>2. \A x \in Nat : \A j : j \in 1 .. x + 1 \/ j \in 1 .. x + 2 =>
              j \in 1 .. x \/ j = x + 1 \/ j = x + 2
        BY SMTT(30)
      <3>3. i \in 1 .. n + 1 \/ i \in 1 .. n + 2
        BY <3>1, Zenon
      <3> QED
        BY <1>1, <3>2, <3>3, Zenon
    <2> QED
      BY <2>1, <2>2, <2>3, <2>4, Zenon
  <1>10. o[Len(w)].nth \notin 1 .. 3
    <2>1. o[Len(w)].nth \in {0, 5}
      BY <1>5, <1>7, Zenon
    <2> QED
      BY <2>1
  <1>11. \A i \in 1 .. Len(o) : ~(i > Len(w))
    BY <1>7
  <1>12. Len(e.owed) = Len(e.wire) + e.pluses
    BY <1>7
  <1> QED
    BY <1>7, <1>8, <1>9, <1>10, <1>11, <1>12, Zenon DEF HeldBack

\* A character that is held back joins those that are.
LEMMA HeldOneMore ==
    ASSUME NEW d, d.wire \in Seq(Char), d.owed \in Seq(Sent),
           d.pluses \in 0 .. 2, HeldBack(d), NEW o \in Seq(Sent),
           Len(o) = Len(d.owed) + 1,
           \A i \in 1 .. Len(d.owed) : o[i] = d.owed[i],
           o[Len(d.owed) + 1] = [ch |-> "+", nth |-> d.pluses + 1],
           NEW e, e.wire = d.wire, e.owed = o, e.pluses = d.pluses + 1
    PROVE  HeldBack(e)
  <1> DEFINE n == Len(d.owed)
             l == Len(d.wire)
  <1>1. n \in Nat /\ l \in Nat /\ n = l + d.pluses /\ Len(o) = l + (d.pluses + 1)
    <2>1. n \in Nat /\ l \in Nat
      OBVIOUS
    <2>2. n = l + d.pluses /\ d.pluses \in 0 .. 2 /\ Len(o) = n + 1
      BY Zenon DEF HeldBack
    <2> QED
      BY <2>1, <2>2
  <1>3. \A i \in 1 .. l : i \in 1 .. n
    BY <1>1
  <1>4. \A i \in 1 .. l : o[i].ch = d.wire[i]
    BY <1>3, Zenon DEF HeldBack
  <1>5. ASSUME NEW i \in 1 .. Len(o), i > l
        PROVE  o[i] = [ch |-> "+", nth |-> i - l]
    <2>1. CASE i = n + 1
      <3>1. i - l = d.pluses + 1
        BY <1>1, <2>1
      <3> QED
        BY <2>1, <3>1, Zenon
    <2>2. CASE i # n + 1
      <3>1. i \in 1 .. n
        BY <1>1, <2>2
      <3> QED
        BY <1>5, <3>1, Zenon DEF HeldBack
    <2> QED
      BY <2>1, <2>2
  <1>6. ASSUME NEW i \in 1 .. Len(o), o[i].nth > 1
        PROVE  i > 1 /\ o[i - 1].nth = o[i].nth - 1
    <2>1. CASE i = n + 1
      <3>1. o[i].nth = d.pluses + 1
        <4>1. o[i] = [ch |-> "+", nth |-> d.pluses + 1]
          BY <2>1, Zenon
        <4> QED
          BY <4>1
      <3>2. d.pluses > 0
        BY <1>6, <3>1
      <3>3. n \in 1 .. n /\ n > l /\ n - l = d.pluses /\ i > 1 /\ i - 1 = n
        BY <1>1, <2>1, <3>2, SMTT(30)
      <3>4. o[n].nth = d.pluses
        <4>1. o[n] = d.owed[n] /\ d.owed[n] = [ch |-> "+", nth |-> n - l]
          BY <3>3, Zenon DEF HeldBack
        <4>2. o[n].nth = n - l
          BY <4>1
        <4> QED
          BY <3>3, <4>2, Zenon
      <3> QED
        BY <3>1, <3>3, <3>4
    <2>2. CASE i # n + 1
      <3>1. i \in 1 .. n
        BY <1>1, <2>2
      <3>2. i > 1 /\ d.owed[i - 1].nth = d.owed[i].nth - 1
        BY <1>6, <3>1, Zenon DEF HeldBack
      <3>3. i - 1 \in 1 .. n
        BY <1>1, <3>1, <3>2
      <3> QED
        BY <3>1, <3>2, <3>3, Zenon
    <2> QED
      BY <2>1, <2>2
  <1>7. l > 0 => o[l].nth \notin 1 .. 3
    <2>1. l > 0 => l \in 1 .. n
      BY <1>1
    <2> QED
      BY <2>1, Zenon DEF HeldBack
  <1> QED
    BY <1>1, <1>4, <1>5, <1>6, <1>7, Zenon DEF HeldBack

\* modem_write in data mode: the character is held back, goes out behind those
\* that were, or is refused, and then nothing of this call is owed any more.
LEMMA SendPath ==
    ASSUME Inv(m), Pipe(m), SendData
    PROVE  Pipe(m') /\ m'.online
  <1>1. /\ m.owed \in Seq(Sent) /\ m.wire \in Seq(Char) /\ m.pluses \in 0 .. 3
        /\ m.online /\ m.state = "ONLINE" /\ HeldBack(m) /\ Len(m.owed) < MaxData
    BY FieldTypes, SendOutcome, Zenon DEF Inv, Pipe, SendData
  <1>2. PICK ch \in Char, taken \in BOOLEAN : m' = DataByte(Owes(m, ch), ch, taken)
    BY SendOutcome, Zenon
  <1> DEFINE d == Owes(m, ch)
             k == Nth(m, ch)
             a == Owing(ch, k)
             o == m.owed \o a
             p == IF Counted(m, ch) THEN m.pluses + 1 ELSE m.pluses
             w == m.wire \o Append(Plus(p), ch)
  <1>3. /\ d \in Device /\ d.owed = o /\ d.wire = m.wire /\ d.guard = m.guard
        /\ d.pluses = m.pluses /\ d.state = m.state /\ d.online = m.online
    BY <1>1, OwesInv, Zenon DEF SameView, Inv, WellFormed
  <1>4. a \in Seq(Sent)
    BY OwingFacts, Zenon
  <1>5. /\ Counted(m, ch) => k = m.pluses + 1
        /\ ~Counted(m, ch) => k = 0
    BY NthFacts, Zenon
  <1>6. m' = IF Counted(m, ch) /\ p <= 3 THEN [d EXCEPT !.pluses = p, !.guard = FALSE]
             ELSE [d EXCEPT !.pluses = 0, !.guard = FALSE,
                            !.wire = IF taken THEN w ELSE <<>>,
                            !.owed = IF taken THEN @ ELSE <<>>]
    BY <1>2, <1>3, ZenonT(40) DEF DataByte, Counted
  <1>7. a = IF k = 4 THEN <<[ch |-> ch, nth |-> 4], [ch |-> ch, nth |-> 5]>>
                     ELSE <<[ch |-> ch, nth |-> k]>>
    BY Zenon DEF Owing
  <1> HIDE DEF d, k, a, w
  <1>8. /\ o \in Seq(Sent) /\ Len(m.owed) \in Nat /\ Len(o) = Len(m.owed) + Len(a)
        /\ \A i \in 1 .. Len(m.owed) : o[i] = m.owed[i]
        /\ \A i \in 1 .. Len(a) : o[Len(m.owed) + i] = a[i]
    BY <1>1, <1>4
  <1> HIDE DEF o
  <1>9. p \in Nat
    BY <1>1
  <1>10. CASE Counted(m, ch) /\ p <= 3
    <2>1. p = m.pluses + 1 /\ m.pluses \in 0 .. 2 /\ k = p /\ k # 4
      BY <1>1, <1>5, <1>10
    <2>2. m' = [d EXCEPT !.pluses = p, !.guard = FALSE]
      BY <1>6, <1>10, Zenon
    <2>3. ch = "+"
      BY <1>10 DEF Counted
    <2> HIDE DEF p
    <2>4. /\ m'.wire = m.wire /\ m'.owed = o /\ m'.pluses = p
          /\ m'.state = m.state /\ m'.online = m.online
      BY <1>3, <2>2, Zenon DEF Device
    <2>5. a = <<[ch |-> "+", nth |-> p]>>
      BY <1>7, <2>1, <2>3, Zenon
    <2>6. Len(a) = 1 /\ a[1] = [ch |-> "+", nth |-> p]
      BY <2>5
    <2>7. Len(o) = Len(m.owed) + 1 /\ o[Len(m.owed) + 1] = [ch |-> "+", nth |-> p]
      BY <1>8, <2>6
    <2>8. HeldBack(m')
      BY <1>1, <1>8, <2>1, <2>4, <2>7, HeldOneMore, ZenonT(40)
    <2> QED
      BY <1>1, <2>4, <2>8, Zenon DEF Pipe
  <1>11. CASE ~(Counted(m, ch) /\ p <= 3) /\ taken
    <2>1. m' = [d EXCEPT !.pluses = 0, !.guard = FALSE, !.wire = w]
      <3>1. m' = [d EXCEPT !.pluses = 0, !.guard = FALSE, !.wire = w, !.owed = @]
        BY <1>6, <1>11, Zenon
      <3>2. [d EXCEPT !.pluses = 0, !.guard = FALSE, !.wire = w, !.owed = @]
              = [d EXCEPT !.pluses = 0, !.guard = FALSE, !.wire = w]
        BY <1>3, Zenon DEF Device
      <3> QED
        BY <3>1, <3>2, Zenon
    <2>2. /\ m'.wire = w /\ m'.owed = o /\ m'.pluses = 0
          /\ m'.state = m.state /\ m'.online = m.online
      BY <1>3, <2>1, Zenon DEF Device
    <2>3. Freed(w, m.wire, p, ch)
      BY <1>1, <1>9, FreedFacts, Zenon DEF w
    <2>4. CASE Counted(m, ch)
      <3>1. m.pluses = 3 /\ p = 4 /\ k = 4
        BY <1>1, <1>5, <1>11, <2>4
      <3>2. ch = "+" /\ a = <<[ch |-> ch, nth |-> 4], [ch |-> ch, nth |-> 5]>>
        BY <1>7, <2>4, <3>1, Zenon DEF Counted
      <3>3. Len(a) = 2 /\ a[1] = [ch |-> ch, nth |-> 4] /\ a[2] = [ch |-> ch, nth |-> 5]
        BY <3>2
      <3>4. /\ Len(o) = Len(m.owed) + 2
            /\ o[Len(m.owed) + 1] = [ch |-> ch, nth |-> 4]
            /\ o[Len(m.owed) + 2] = [ch |-> ch, nth |-> 5]
        BY <1>8, <3>3
      <3> HIDE DEF p
      <3>5. HeldBack(m')
        <4>1. OwesMore(m, o, p, ch)
          BY <1>8, <3>1, <3>2, <3>4, Zenon DEF OwesMore
        <4> QED
          BY <1>1, <1>8, <1>9, <2>2, <2>3, <4>1, OutBehind, Zenon
      <3> QED
        BY <1>1, <2>2, <3>5, Zenon DEF Pipe
    <2>5. CASE ~Counted(m, ch)
      <3>1. p = m.pluses /\ k = 0 /\ k # 4
        BY <1>5, <2>5
      <3>2. a = <<[ch |-> ch, nth |-> 0]>>
        BY <1>7, <3>1, Zenon
      <3>3. Len(a) = 1 /\ a[1] = [ch |-> ch, nth |-> 0]
        BY <3>2
      <3>4. Len(o) = Len(m.owed) + 1 /\ o[Len(m.owed) + 1] = [ch |-> ch, nth |-> 0]
        BY <1>8, <3>3
      <3> HIDE DEF p
      <3>5. HeldBack(m')
        <4>1. OwesMore(m, o, p, ch)
          BY <1>8, <3>1, <3>4, Zenon DEF OwesMore
        <4> QED
          BY <1>1, <1>8, <1>9, <2>2, <2>3, <4>1, OutBehind, Zenon
      <3> QED
        BY <1>1, <2>2, <3>5, Zenon DEF Pipe
    <2> QED
      BY <2>4, <2>5
  <1>12. CASE ~(Counted(m, ch) /\ p <= 3) /\ ~taken
    <2>1. m' = [d EXCEPT !.pluses = 0, !.guard = FALSE, !.wire = <<>>, !.owed = <<>>]
      BY <1>6, <1>12, Zenon
    <2>2. /\ m'.wire = <<>> /\ m'.owed = <<>> /\ m'.pluses = 0
          /\ m'.state = m.state /\ m'.online = m.online
      BY <1>3, <2>1, Zenon DEF Device
    <2>3. HeldBack(m')
      BY <2>2 DEF HeldBack
    <2> QED
      BY <1>1, <2>2, <2>3, Zenon DEF Pipe
  <1> QED
    BY <1>10, <1>11, <1>12

\* Only an escape ends data mode with the carrier kept.
Meant ==
    m.online /\ ~m'.online /\ m'.state = "ONLINE" =>
         \/ m.dtr /\ ~m'.dtr
         \/ LET n == Len(m.owed) IN
              /\ n >= 3 /\ m.guard
              /\ \A i \in 1 .. 3 : m.owed[n - 3 + i] = [ch |-> "+", nth |-> i]

LEMMA SettlesMeant ==
    ASSUME Pipe(m), Settles(m', m)
    PROVE  Pipe(m') /\ Meant
  BY PipeKept, Zenon DEF Settles, SamePath, Reset, Meant

LEMMA ReadPath ==
    ASSUME Inv(m), Pipe(m), Read
    PROVE  Pipe(m') /\ Meant
  <1> DEFINE d == PollLine(m)
             e == Escape(d)
  <1>1. PICK f \in Receive(e) : m' = Handed(f)
    BY DEF Read
  <1>2. Inv(d) /\ Inv(e)
    BY PollLineInv, EscapeInv, Zenon
  <1>3. Settles(d, m) /\ Pipe(d) /\ (m.state = "ONLINE" => d = m)
    BY PollSettles, PipeKept, Zenon
  <1>4. Pipe(e) /\ (Beside(e, d) \/ (d.online /\ d.guard /\ d.pluses = 3))
    BY <1>2, <1>3, EscapePath, Zenon
  <1>5. Settles(m', e)
    BY <1>1, <1>2, ReceiveSettles, Zenon
  <1>6. Pipe(m')
    BY <1>4, <1>5, PipeKept, Zenon
  <1> HIDE DEF d, e
  <1>7. Meant
    <2> SUFFICES ASSUME m.online, ~m'.online, m'.state = "ONLINE"
                 PROVE  LET n == Len(m.owed) IN
                          /\ n >= 3 /\ m.guard
                          /\ \A i \in 1 .. 3 : m.owed[n - 3 + i] = [ch |-> "+", nth |-> i]
      BY Zenon DEF Meant
    <2>1. m.state = "ONLINE" /\ d = m
      BY <1>3, Zenon DEF Inv, LineOK
    <2>2. ~Beside(e, m)
      BY <1>5, Zenon DEF Settles, SamePath, Reset, Beside
    <2>3. m.guard /\ m.pluses = 3
      BY <1>4, <2>1, <2>2, Zenon
    <2>4. m.owed \in Seq(Sent) /\ m.wire \in Seq(Char)
      BY FieldTypes, Zenon DEF Inv
    <2>5. Len(m.owed) = Len(m.wire) + 3 /\ Len(m.wire) \in Nat
      BY <2>3, <2>4 DEF Pipe, HeldBack
    <2>6. \A i \in 1 .. Len(m.owed) :
            i > Len(m.wire) => m.owed[i] = [ch |-> "+", nth |-> i - Len(m.wire)]
      BY Zenon DEF Pipe, HeldBack
    <2>7. /\ Len(m.owed) >= 3 /\ Len(m.owed) - 3 = Len(m.wire)
          /\ \A i \in 1 .. 3 : /\ Len(m.wire) + i \in 1 .. Len(m.owed)
                              /\ Len(m.wire) + i > Len(m.wire)
                              /\ (Len(m.wire) + i) - Len(m.wire) = i
      BY <2>5
    <2>8. \A i \in 1 .. 3 : m.owed[Len(m.wire) + i] = [ch |-> "+", nth |-> i]
      BY <2>6, <2>7, Zenon
    <2> QED
      BY <2>3, <2>7, <2>8, Zenon
  <1> QED
    BY <1>6, <1>7

\* A word, a backspace, a carriage return, A/: typed in command mode.
LEMMA CommandPath ==
    ASSUME Inv(m), TypeWord \/ Backspace \/ Enter \/ Again
    PROVE  Beside(m', m)
  <1>1. /\ m \in Device
        /\ \A x \in Lines : Out(m, Line(x)) \in Device /\ Beside(Out(m, Line(x)), m)
    BY SaidInv, TellingBeside, Zenon DEF Inv, WellFormed
  <1>2. ASSUME NEW x \in Lines, NEW y
        PROVE  /\ Beside([Out(m, Line(x)) EXCEPT !.cmd = y], m)
               /\ Beside(StartLine(Out(m, Line(x)), y), m)
    <2> DEFINE c == Out(m, Line(x))
    <2>1. c \in Device /\ Beside(c, m)
      BY <1>1, Zenon
    <2> HIDE DEF c
    <2>2. Beside([c EXCEPT !.cmd = y], c) /\ Beside(StartLine(c, y), c)
      BY <2>1, SettingsBeside, ZenonT(40)
    <2>3. Beside([c EXCEPT !.cmd = y], m) /\ Beside(StartLine(c, y), m)
      BY <2>1, <2>2, BesideSettles, Zenon
    <2> QED
      BY <2>3, Zenon DEF c
  <1>3. CASE TypeWord
    <2> DEFINE c == Out(m, Line("WORD"))
    <2>1. \E w : m' = Typed(m, w)
      BY <1>3, Zenon DEF TypeWord
    <2>2. m' = c \/ \E y : m' = [c EXCEPT !.cmd = y]
      BY <2>1, Zenon DEF Typed
    <2> QED
      BY <1>1, <1>2, <2>2, Names, Zenon
  <1>4. CASE Backspace
    <2>1. m' = m \/ \E y : m' = [Out(m, Line("ERASE")) EXCEPT !.cmd = y]
      BY <1>4, Zenon DEF Backspace, Erased
    <2>2. Beside(m, m) /\ "ERASE" \in Lines
      BY BesideSettles, Names, Zenon
    <2> QED
      BY <1>2, <2>1, <2>2, Zenon
  <1>5. CASE Enter
    <2> DEFINE c == Out(m, Line("CR"))
               e == [c EXCEPT !.cmd = <<>>]
    <2>1. m' = e \/ m' = StartLine(e, Tail(m.cmd)) \/ m' = Result(e, "ERROR")
      BY <1>5, Zenon DEF Enter, Entered
    <2>2. Beside(e, m)
      BY <1>2, Names, Zenon
    <2>3. e \in Device
      <3>1. c \in Device
        BY <1>1, Names, Zenon
      <3> HIDE DEF c
      <3> QED
        BY <3>1, EmptyFacts, Zenon DEF Device
    <2> HIDE DEF e
    <2>4. Beside(Result(e, "ERROR"), e) /\ Beside(StartLine(e, Tail(m.cmd)), e)
      BY <2>3, TellingBeside, SettingsBeside, Zenon
    <2>5. Beside(m', e) \/ m' = e
      BY <2>1, <2>4, Zenon
    <2> QED
      BY <2>2, <2>5, BesideSettles, Zenon
  <1>6. CASE Again
    BY <1>2, <1>6, Names, Zenon DEF Again
  <1> QED
    BY <1>3, <1>4, <1>5, <1>6

\* The line is executed.
LEMMA RunPath ==
    ASSUME Inv(m), RunWord \/ EndLine
    PROVE  Settles(m', m)
  <1>1. CASE RunWord
    <2>1. PICK r \in Execute(m, Head(m.run)) :
            m' = CASE r.res = "more" -> [r.dev EXCEPT !.run = Tail(m.run)]
                   [] r.res = "none" ->
                        [r.dev EXCEPT !.run = <<>>, !.busy = FALSE]
                   [] OTHER -> [Result(r.dev, r.res) EXCEPT !.run = <<>>,
                                                            !.busy = FALSE]
      BY <1>1, Zenon DEF RunWord
    <2>2. Inv(r.dev) /\ r.res \in Answers /\ Settles(r.dev, m)
      BY ExecuteInv, ExecuteSettles, Zenon
    <2>3. r.dev \in Device
      BY <2>2, Zenon DEF Inv, WellFormed
    <2>4. Beside(m', r.dev)
      <3>1. CASE r.res \in {"more", "none"}
        <4>1. \/ m' = [r.dev EXCEPT !.run = Tail(m.run)]
              \/ m' = [r.dev EXCEPT !.run = <<>>, !.busy = FALSE]
          BY <2>1, <3>1, Zenon
        <4>2. Beside([r.dev EXCEPT !.run = Tail(m.run)], r.dev)
          BY <2>3, SettingsBeside, Zenon
        <4>3. Beside([r.dev EXCEPT !.run = <<>>, !.busy = FALSE], r.dev)
          BY <2>3, SettingsBeside, Zenon
        <4> QED
          BY <4>1, <4>2, <4>3, Zenon
      <3>2. CASE r.res \notin {"more", "none"}
        <4>1. m' = [Result(r.dev, r.res) EXCEPT !.run = <<>>, !.busy = FALSE]
          BY <2>1, <3>2, Zenon
        <4>2. r.res \in Lines
          BY <2>2, <3>2, Zenon DEF Answers
        <4>3. Result(r.dev, r.res) \in Device
          BY <2>2, <4>2, ResultInv, Zenon DEF Inv, WellFormed
        <4>4. Beside(Result(r.dev, r.res), r.dev) /\ Beside(m', Result(r.dev, r.res))
          BY <2>3, <4>1, <4>3, TellingBeside, SettingsBeside, Zenon
        <4> QED
          BY <4>4, BesideSettles, Zenon
      <3> QED
        BY <3>1, <3>2
    <2> QED
      BY <2>2, <2>4, BesideSettles, Zenon
  <1>2. CASE EndLine
    <2>1. m' = [Result(m, "OK") EXCEPT !.busy = FALSE]
      BY <1>2, Zenon DEF EndLine
    <2>2. m \in Device /\ Result(m, "OK") \in Device
      BY ResultInv, Names, Zenon DEF Inv, WellFormed
    <2>3. Beside(Result(m, "OK"), m) /\ Beside(m', Result(m, "OK"))
      BY <2>1, <2>2, TellingBeside, SettingsBeside, Zenon
    <2> QED
      BY <2>3, BesideSettles, Zenon
  <1> QED
    BY <1>1, <1>2

\* modem_control, a fall of DTR: nothing, data mode suspended, or the call ended.
Dropped == [m EXCEPT !.dtr = FALSE]
LEMMA DropOutcome ==
    ASSUME Inv(m), DtrDrop
    PROVE  /\ m.dtr
           /\ Inv(Dropped) /\ Dropped \in Device /\ ~Dropped.dtr /\ Beside(Dropped, m)
           /\ \/ m' = [Dropped EXCEPT !.online = FALSE] \/ m' = Dropped
              \/ m' = Result(Hangup(Dropped), "NO CARRIER") \/ m' = Defaults(Hangup(Dropped))
  <1> DEFINE d == Dropped
  <1>1. m \in Device /\ m.dtr
    BY Zenon DEF Inv, WellFormed, DtrDrop
  <1>2. FALSE \in BOOLEAN /\ 0 \in 0 .. 3
    OBVIOUS
  <1>3. Inv(d) /\ d \in Device /\ ~d.dtr /\ Beside(d, m)
    <2>1. Inv(d)
      BY <1>2, SettingsInv, EmptyFacts, Zenon DEF Dropped
    <2>2. ~d.dtr
      BY <1>1, Zenon DEF Device, Dropped
    <2> QED
      BY <1>1, <2>1, <2>2, SettingsBeside, Zenon DEF Inv, WellFormed, Dropped
  <1>4. m' = CASE d.dtrMode = 1 -> [d EXCEPT !.online = FALSE]
               [] d.dtrMode = 2 -> IF d.state = "IDLE" THEN d
                                   ELSE Result(Hangup(d), "NO CARRIER")
               [] d.dtrMode = 3 -> Defaults(Hangup(d))
               [] OTHER -> d
    BY DEF DtrDrop, Dropped
  <1> HIDE DEF d
  <1>5. \/ m' = [d EXCEPT !.online = FALSE] \/ m' = d
        \/ m' = Result(Hangup(d), "NO CARRIER") \/ m' = Defaults(Hangup(d))
    <2>1. 1 # 2 /\ 1 # 3 /\ 2 # 3
      OBVIOUS
    <2>2. CASE d.dtrMode = 1
      BY <1>4, <2>1, <2>2, Zenon
    <2>3. CASE d.dtrMode = 2
      BY <1>4, <2>1, <2>3, Zenon
    <2>4. CASE d.dtrMode = 3
      BY <1>4, <2>1, <2>4, Zenon
    <2>5. CASE ~(d.dtrMode = 1) /\ ~(d.dtrMode = 2) /\ ~(d.dtrMode = 3)
      BY <1>4, <2>5, Zenon
    <2> QED
      BY <2>2, <2>3, <2>4, <2>5, Zenon
  <1> QED
    BY <1>1, <1>3, <1>5, Zenon DEF d

\* A fall of DTR that suspends data mode keeps what is on its way.
LEMMA DropPath ==
    ASSUME Inv(m), Pipe(m), DtrDrop
    PROVE  Pipe(m') /\ Meant
  <1> DEFINE d == Dropped
  <1>1. m.dtr /\ Inv(d) /\ d \in Device /\ ~d.dtr /\ Beside(d, m)
    BY DropOutcome, Zenon
  <1>2. \/ m' = [d EXCEPT !.online = FALSE] \/ m' = d
        \/ m' = Result(Hangup(d), "NO CARRIER") \/ m' = Defaults(Hangup(d))
    BY DropOutcome, Zenon
  <1> HIDE DEF d
  <1>3. CASE m' = [d EXCEPT !.online = FALSE]
    <2>1. /\ m'.wire = d.wire /\ m'.owed = d.owed /\ m'.pluses = d.pluses
          /\ m'.state = d.state /\ ~m'.dtr
      BY <1>1, <1>3, Zenon DEF Device
    <2>2. Pipe(d)
      BY <1>1, BesideSettles, PipeKept, Zenon
    <2> QED
      BY <1>1, <2>1, <2>2, ZenonT(40) DEF Pipe, HeldBack, Meant
  <1>4. CASE \/ m' = d \/ m' = Result(Hangup(d), "NO CARRIER")
             \/ m' = Defaults(Hangup(d))
    <2>1. Settles(d, m)
      BY <1>1, BesideSettles, Zenon
    <2>2. Reset(Result(Hangup(d), "NO CARRIER")) /\ Reset(Defaults(Hangup(d)))
      BY <1>1, HangupResets, Zenon
    <2>3. Settles(m', m)
      BY <1>4, <2>1, <2>2, Zenon DEF Settles
    <2> QED
      BY <2>3, SettlesMeant, Zenon
  <1> QED
    BY <1>2, <1>3, <1>4, Zenon

\* DTR up, the far end, the clocks.
LEMMA OutsidePath ==
    ASSUME Inv(m),
           \/ DtrUp
           \/ FarAnswers \/ FarRefuses \/ FarSends \/ FarCloses \/ FarResets
           \/ DeadlinePasses \/ FirstRingEnds \/ GuardElapses
    PROVE  Beside(m', m)
  <1>1. m \in Device
    BY Zenon DEF Inv, WellFormed
  <1>2. /\ \A x : Beside([m EXCEPT !.dtr = x], m)
        /\ \A x, y : Beside([m EXCEPT !.tcp = x, !.inq = y], m)
        /\ \A x : Beside([m EXCEPT !.tcp = x], m) /\ Beside([m EXCEPT !.inq = x], m)
        /\ \A x : Beside([m EXCEPT !.due = x], m) /\ Beside([m EXCEPT !.rung = x], m)
        /\ \A x : Beside([m EXCEPT !.guard = x], m)
    BY <1>1, SettingsBeside, Zenon
  <1>3. CASE DtrUp
    BY <1>2, <1>3, Zenon DEF DtrUp
  <1>4. CASE FarAnswers \/ FarRefuses \/ FarCloses
    BY <1>2, <1>4, Zenon DEF FarAnswers, FarRefuses, FarCloses
  <1>5. CASE FarSends
    BY <1>2, <1>5, Zenon DEF FarSends
  <1>6. CASE FarResets
    BY <1>2, <1>6, Zenon DEF FarResets
  <1>7. CASE DeadlinePasses \/ FirstRingEnds \/ GuardElapses
    BY <1>2, <1>7, Zenon DEF DeadlinePasses, FirstRingEnds, GuardElapses
  <1> QED
    BY <1>3, <1>4, <1>5, <1>6, <1>7, Zenon

\* Every step keeps the data path, and none but an escape or a DTR drop leaves
\* data mode with the carrier kept.
LEMMA PathStep ==
    ASSUME Inv(m), Pipe(m), [Next]_vars
    PROVE  Pipe(m') /\ Meant
  <1>1. CASE Read
    BY <1>1, ReadPath
  <1>2. CASE TypeWord \/ Backspace \/ Enter \/ Again
    BY <1>2, CommandPath, BesideSettles, SettlesMeant, Zenon
  <1>3. CASE RunWord \/ EndLine
    BY <1>3, RunPath, SettlesMeant, Zenon
  <1>4. CASE SendData
    BY <1>4, SendPath, Zenon DEF Meant
  <1>5. CASE DtrDrop
    BY <1>5, DropPath
  <1>6. CASE \/ DtrUp
             \/ FarAnswers \/ FarRefuses \/ FarSends \/ FarCloses \/ FarResets
             \/ DeadlinePasses \/ FirstRingEnds \/ GuardElapses
    BY <1>6, OutsidePath, BesideSettles, SettlesMeant, Zenon
  <1>7. CASE UNCHANGED vars
    BY <1>7, BesideSettles, SettlesMeant, Zenon DEF vars
  <1> QED
    BY <1>1, <1>2, <1>3, <1>4, <1>5, <1>6, <1>7, Zenon DEF Next

LEMMA InitPath == Init => Pipe(m)
  <1> SUFFICES ASSUME Init PROVE Pipe(m)
    OBVIOUS
  <1>1. m.wire = <<>> /\ m.owed = <<>> /\ m.pluses = 0
    BY Zenon DEF Init
  <1>2. HeldBack(m)
    BY <1>1 DEF HeldBack
  <1> QED
    BY <1>1, <1>2, Zenon DEF Pipe

-----------------------------------------------------------------------------
(* The room in the ring.                                                   *)

\* The ring holds the echo of a line of n words, or the CR that ends one, and
\* n information lines, with a byte to spare.
Asked(n) == n * Size["INFO"]
Fits(n) == \A x \in {"WORD", "CR"} : Size[x] + Asked(n) + 1 < OutSize
\* The command lines the DTE types are that short.
ShortLines == Fits(0) /\ \A line \in Commands : Fits(Len(line))

\* Then, with a DTE that reads what it was told before it types on, no carrier
\* meets a full ring: a line is executed with data mode off, each of its words
\* adds an information line at most, and every read leaves room for one byte.
Room(d) ==
    /\ d.busy => ~d.online
    /\ d.online => Len(d.out) + 1 < OutSize
    /\ d.busy => Len(d.out) + Asked(Len(d.run)) + 1 < OutSize
    /\ Fits(Len(d.cmd)) /\ Fits(Len(d.last))

\* A function that starts and ends no line, and one that in addition adds
\* nothing to the ring and leaves the mode alone.
Idle(e, d) ==
    e.busy = d.busy /\ e.cmd = d.cmd /\ e.last = d.last /\ e.run = d.run
Mute(e, d) == Idle(e, d) /\ e.out = d.out /\ e.online = d.online

LEMMA MuteRoom ==
    ASSUME NEW d, Room(d), NEW e, Mute(e, d)
    PROVE  Room(e)
  BY Zenon DEF Room, Mute, Idle

LEMMA IdleTrans ==
    ASSUME NEW d, NEW e, NEW f, Idle(e, d), Idle(f, e)
    PROVE  Idle(f, d)
  BY Zenon DEF Idle

LEMMA BufferSizes ==
    CmdSize \in Nat /\ OutSize \in Nat /\ CmdSize > 0
  BY ModemAssumption
LEMMA LengthFacts == \A S : \A s \in Seq(S) : Len(s) \in Nat
  OBVIOUS

\* More words ask for more, and each for one line more.
LEMMA AskedFacts ==
    /\ \A n \in Nat : Asked(n) \in Nat
    /\ \A n, k \in Nat : n <= k => Asked(n) <= Asked(k)
    /\ \A n, k \in Nat : k = n + 1 => Asked(k) = Asked(n) + Size["INFO"]
  <1>1. Size["INFO"] \in Nat
    BY SizeFacts, Names, Zenon
  <1>2. \A s \in Nat : /\ \A n \in Nat : n * s \in Nat
                       /\ \A n, k \in Nat : n <= k => n * s <= k * s
                       /\ \A n, k \in Nat : k = n + 1 => k * s = n * s + s
    OBVIOUS
  <1> QED
    BY <1>1, <1>2, Zenon DEF Asked

LEMMA FitsFacts ==
    /\ \A n, k \in Nat : n <= k /\ Fits(k) => Fits(n)
    /\ Fits(0) => 2 <= OutSize
    /\ \A n, o \in Nat : \A x \in {"WORD", "CR"} :
         Fits(n) /\ o <= Size[x] => o + Asked(n) + 1 < OutSize
  <1>1. /\ \A x \in {"WORD", "CR"} : Size[x] \in Nat
        /\ OutSize \in Nat
    BY SizeFacts, Names, ModemAssumption, Zenon
  <1>2. \A n \in Nat : Asked(n) \in Nat
    BY AskedFacts, Zenon
  <1>3. \A s, a, b, o \in Nat : a <= b /\ s + b + 1 < o => s + a + 1 < o
    OBVIOUS
  <1>4. \A s, t, a, o \in Nat : t <= s /\ s + a + 1 < o => t + a + 1 < o
    OBVIOUS
  <1>5. ASSUME NEW n \in Nat, NEW k \in Nat, n <= k, Fits(k) PROVE Fits(n)
    BY <1>1, <1>2, <1>3, <1>5, AskedFacts, Zenon DEF Fits
  <1>6. Fits(0) => 2 <= OutSize
    <2>1. Fits(0) => Size["CR"] + Asked(0) + 1 < OutSize
      BY Zenon DEF Fits
    <2>2. \A s, a, o \in Nat : s + a + 1 < o => 2 <= o
      OBVIOUS
    <2>3. 0 \in Nat
      OBVIOUS
    <2> QED
      BY <1>1, <1>2, <2>1, <2>2, <2>3, Zenon
  <1>7. ASSUME NEW n \in Nat, NEW o \in Nat, NEW x \in {"WORD", "CR"},
               Fits(n), o <= Size[x]
        PROVE  o + Asked(n) + 1 < OutSize
    BY <1>1, <1>2, <1>4, <1>7, Zenon DEF Fits
  <1> QED
    BY <1>5, <1>6, <1>7, Zenon

\* What is said is as long as its text, or shorter.
LEMMA OutRoom ==
    ASSUME NEW d, Inv(d), NEW text
    PROVE  Idle(Out(d, text), d) /\ Out(d, text).online = d.online
  BY Zenon DEF Out, Idle, Inv, WellFormed, Device
LEMMA ResultRoom ==
    ASSUME NEW d, Inv(d), NEW x
    PROVE  Idle(Result(d, x), d) /\ Result(d, x).online = d.online
  BY OutRoom, Zenon DEF Result, Idle

LEMMA HangupRoom ==
    ASSUME NEW d, Inv(d)
    PROVE  /\ Idle(Hangup(d), d) /\ ~Hangup(d).online /\ Hangup(d).out = d.out
           /\ Idle(Defaults(Hangup(d)), d) /\ ~Defaults(Hangup(d)).online
           /\ Defaults(Hangup(d)).out = d.out
           /\ Idle(Result(Hangup(d), "NO CARRIER"), d)
           /\ ~Result(Hangup(d), "NO CARRIER").online
  <1>1. d \in Device
    BY Zenon DEF Inv, WellFormed
  <1> DEFINE h == Hangup(d)
  <1>2. Idle(h, d) /\ ~h.online /\ h.out = d.out
    BY <1>1, Zenon DEF Hangup, CallOver, Idle, Device
  <1>3. Inv(h) /\ h \in Device
    BY HangupInv, Zenon DEF Inv, WellFormed
  <1> HIDE DEF h
  <1>4. Mute(Defaults(h), h)
    BY <1>3, Zenon DEF Defaults, Mute, Idle, Device
  <1>5. Idle(Result(h, "NO CARRIER"), h) /\ ~Result(h, "NO CARRIER").online
    BY <1>2, <1>3, ResultRoom, Zenon
  <1>6. Idle(Defaults(h), d) /\ Idle(Result(h, "NO CARRIER"), d)
    BY <1>2, <1>4, <1>5, IdleTrans, Zenon DEF Mute
  <1>7. ~Defaults(h).online /\ Defaults(h).out = d.out
    BY <1>2, <1>4, Zenon DEF Mute
  <1> QED
    BY <1>2, <1>5, <1>6, <1>7, Zenon DEF h

\* What modem_read calls starts no line.
LEMMA PollIdle ==
    ASSUME NEW d, Inv(d)
    PROVE  Idle(PollLine(d), d)
  <1>1. d \in Device /\ Idle(d, d)
    BY Zenon DEF Inv, WellFormed, Idle
  <1>2. /\ Idle(Answered(d), d) /\ Idle(GoOnline(d), d)
        /\ Idle([d EXCEPT !.refused = TRUE, !.due = FALSE], d)
    BY <1>1, Zenon DEF Answered, GoOnline, CallOver, Idle, Device
  <1>3. Idle(Result(Hangup(d), "NO CARRIER"), d)
    BY HangupRoom, Zenon
  <1> DEFINE c == Result(d, "CONNECT")
             e == [c EXCEPT !.said = TRUE, !.due = FALSE, !.told = d.mute]
  <1>4. Idle(e, d)
    <2>1. Idle(c, d) /\ c \in Device
      BY ResultRoom, ResultInv, Names, Zenon DEF Inv, WellFormed
    <2> HIDE DEF c
    <2>2. Idle(e, c)
      BY <2>1, Zenon DEF Idle, Device
    <2> HIDE DEF e
    <2> QED
      BY <2>1, <2>2, IdleTrans, Zenon
  <1>5. PollConnecting(d) \in {d, Answered(d), Result(Hangup(d), "NO CARRIER"),
                               [d EXCEPT !.refused = TRUE, !.due = FALSE]}
    BY Zenon DEF PollConnecting
  <1>6. PollAnswering(d) \in {d, GoOnline(d), e}
    BY Zenon DEF PollAnswering
  <1> HIDE DEF e
  <1>7. PollLine(d) \in {d, Result(Hangup(d), "NO CARRIER"), PollConnecting(d), PollAnswering(d)}
    BY Zenon DEF PollLine
  <1> QED
    BY <1>1, <1>2, <1>3, <1>4, <1>5, <1>6, <1>7, Zenon

LEMMA EscapeIdle ==
    ASSUME NEW d, Inv(d)
    PROVE  /\ Idle(Escape(d), d) /\ Escape(d).state = d.state
           /\ Escape(d) = d \/ ~Escape(d).online
  <1> DEFINE c == [d EXCEPT !.pluses = 0, !.online = FALSE,
                            !.owed = SubSeq(@, 1, Len(@) - 3)]
  <1>1. d \in Device /\ Idle(d, d)
    BY Zenon DEF Inv, WellFormed, Idle
  <1>2. Escape(d) = d \/ Escape(d) = Result(c, "OK")
    BY Zenon DEF Escape
  <1>3. Idle(c, d) /\ ~c.online /\ c.state = d.state
    BY <1>1, Zenon DEF Idle, Device
  <1>4. /\ Result(c, "OK").state = c.state
        /\ Result(c, "OK").busy = c.busy /\ Result(c, "OK").last = c.last
        /\ Result(c, "OK").run = c.run /\ Result(c, "OK").online = c.online
        /\ Result(c, "OK").cmd = c.cmd
    BY <1>1, Zenon DEF Result, Out, Device
  <1> HIDE DEF c
  <1>5. Idle(Result(c, "OK"), c) /\ ~Result(c, "OK").online
    BY <1>3, <1>4, Zenon DEF Idle
  <1>6. Idle(Result(c, "OK"), d) /\ Result(c, "OK").state = d.state
    BY <1>3, <1>4, <1>5, IdleTrans, Zenon
  <1> QED
    BY <1>1, <1>2, <1>5, <1>6, Zenon

LEMMA ReceiveIdle ==
    ASSUME NEW d, Inv(d), NEW f \in Receive(d)
    PROVE  Idle(f, d)
  <1>1. d \in Device /\ Idle(d, d)
    BY Zenon DEF Inv, WellFormed, Idle
  <1>2. \/ f = d \/ f = Result(Hangup(d), "NO CARRIER")
        \/ \E n : f = Deliver(d, n)
    BY Zenon DEF Receive
  <1>3. \A n : Idle(Deliver(d, n), d)
    BY <1>1, Zenon DEF Deliver, Idle, Device
  <1> QED
    BY <1>1, <1>2, <1>3, HangupRoom, Zenon

\* The character that modem_read hands over makes room for another.
LEMMA HandedRoom ==
    ASSUME NEW f, Inv(f), 2 <= OutSize
    PROVE  Idle(Handed(f), f) /\ Len(Handed(f).out) + 1 < OutSize
  <1>1. f \in Device /\ f.out \in Seq(Cell) /\ Len(f.out) < OutSize
    BY FieldTypes, Zenon DEF Inv, WellFormed
  <1>2. Idle(Handed(f), f)
    BY <1>1, Zenon DEF Handed, Idle, Device
  <1>3. CASE f.out = <<>>
    BY <1>3, <1>2, EmptyFacts, ModemAssumption DEF Handed
  <1>4. CASE f.out # <<>>
    <2>1. Handed(f).out = Tail(f.out)
      BY <1>1, <1>4, Zenon DEF Handed, Device
    <2>2. Len(Tail(f.out)) = Len(f.out) - 1 /\ Len(f.out) \in Nat
      BY <1>1, <1>4
    <2> QED
      BY <1>1, <1>2, <2>1, <2>2, ModemAssumption
  <1> QED
    BY <1>3, <1>4

LEMMA ReadRoom ==
    ASSUME Inv(m), Room(m), 2 <= OutSize, Read
    PROVE  Room(m')
  <1> DEFINE d == PollLine(m)
             e == Escape(d)
  <1>1. PICK f \in Receive(e) : m' = Handed(f)
    BY DEF Read
  <1>2. Inv(d) /\ Inv(e) /\ Inv(f)
    BY PollLineInv, EscapeInv, ReceiveInv, Zenon
  <1>3. Idle(d, m) /\ Idle(e, d) /\ Idle(f, e)
    BY <1>2, PollIdle, EscapeIdle, ReceiveIdle, Zenon
  <1>4. Idle(m', f) /\ Len(m'.out) + 1 < OutSize
    BY <1>1, <1>2, HandedRoom, Zenon
  <1> HIDE DEF d, e
  <1>5. Idle(m', m)
    BY <1>3, <1>4, IdleTrans, Zenon
  <1> QED
    BY <1>4, <1>5, Zenon DEF Room, Idle, Read

\* A line that is typed is short, and starts with the ring drained but for its
\* echo.
LEMMA CommandRoom ==
    ASSUME Paced, ShortLines, Inv(m), Room(m),
           TypeWord \/ Backspace \/ Enter \/ Again
    PROVE  Room(m')
  <1>1. /\ ~m.busy /\ ~m.online /\ m.out = <<>>
        /\ Fits(Len(m.cmd)) /\ Fits(Len(m.last))
    BY Zenon DEF Commanding, TypeWord, Backspace, Enter, Again, Room
  <1>2. ~m'.online
    BY <1>1, CommandPath, Zenon DEF Beside
  <1>3. /\ m \in Device /\ m.cmd \in Seq(AllWords) /\ m.last \in Seq(AllWords)
        /\ Len(m.cmd) \in Nat /\ Len(m.last) \in Nat
    BY FieldTypes, LengthFacts, Zenon DEF Inv, WellFormed
  <1>4. ASSUME NEW x \in Lines
        PROVE  LET c == Out(m, Line(x)) IN
                 /\ c \in Device /\ Idle(c, m)
                 /\ Len(c.out) \in Nat /\ Len(c.out) <= Size[x]
    <2> DEFINE c == Out(m, Line(x))
    <2>1. Inv(c) /\ Idle(c, m)
      BY SaidInv, OutRoom, Zenon
    <2>2. Len(c.out) <= Len(m.out) + Len(Line(x)) /\ Len(Line(x)) = Size[x]
      BY LineFacts, OutInv, Zenon
    <2>3. Len(m.out) = 0 /\ Size[x] \in Nat
      BY <1>1, SizeFacts, EmptyFacts, Zenon
    <2>4. Len(c.out) \in Nat /\ c \in Device
      BY <2>1, FieldTypes, LengthFacts, Zenon DEF Inv, WellFormed
    <2> HIDE DEF c
    <2>5. Len(c.out) <= Size[x]
      BY <2>2, <2>3
    <2> QED
      BY <2>1, <2>4, <2>5, Zenon DEF c
  <1>5. "WORD" \in Lines /\ "CR" \in Lines /\ "ERASE" \in Lines
    BY Names
  <1>6. ASSUME NEW c, c \in Device, Idle(c, m), NEW line, Fits(Len(line)),
               m' = [c EXCEPT !.cmd = line]
        PROVE  Room(m')
    <2>1. m'.cmd = line /\ m'.busy = m.busy /\ m'.last = m.last
      BY <1>6, Zenon DEF Idle, Device
    <2> QED
      BY <1>1, <1>2, <1>6, <2>1, Zenon DEF Room
  <1>7. ASSUME NEW c, c \in Device, Fits(Len(c.cmd)), NEW line \in Seq(AllWords),
               NEW x \in {"WORD", "CR"}, Fits(Len(line)),
               Len(c.out) \in Nat, Len(c.out) <= Size[x], m' = StartLine(c, line)
        PROVE  Room(m')
    <2>1. m'.cmd = c.cmd /\ m'.last = line /\ m'.run = line /\ m'.out = c.out
      BY <1>7, Zenon DEF StartLine, Device
    <2>2. Len(line) \in Nat
      BY LengthFacts, Zenon
    <2>3. Len(c.out) + Asked(Len(line)) + 1 < OutSize
      BY <1>7, <2>2, FitsFacts, Zenon
    <2> QED
      BY <1>2, <1>7, <2>1, <2>3, Zenon DEF Room
  <1>8. CASE TypeWord
    <2> DEFINE c == Out(m, Line("WORD"))
    <2>1. PICK w \in AllWords, line \in Commands :
            m' = Typed(m, w) /\ Len(m.cmd) + 1 <= Len(line)
      BY <1>8, NextWord, Zenon
    <2>2. m' = c \/ m' = [c EXCEPT !.cmd = Append(c.cmd, w)]
      BY <2>1, Zenon DEF Typed
    <2>3. c \in Device /\ Idle(c, m) /\ c.cmd = m.cmd
      BY <1>4, <1>5, Zenon DEF Idle
    <2> HIDE DEF c
    <2>4. Fits(Len(Append(c.cmd, w)))
      <3>1. Len(Append(c.cmd, w)) = Len(m.cmd) + 1 /\ Len(m.cmd) + 1 \in Nat
        BY <1>3, <2>3, AppendFacts
      <3>2. Len(line) \in Nat /\ Fits(Len(line))
        BY ModemAssumption, LengthFacts, Zenon DEF ShortLines
      <3> QED
        BY <2>1, <3>1, <3>2, FitsFacts, Zenon
    <2>5. CASE m' = c
      BY <1>1, <1>2, <2>3, <2>5, Zenon DEF Room, Idle
    <2> QED
      BY <1>6, <2>2, <2>3, <2>4, <2>5, Zenon
  <1>9. CASE Backspace
    <2> DEFINE c == Out(m, Line("ERASE"))
               line == SubSeq(c.cmd, 1, Len(c.cmd) - 1)
    <2>1. m' = m \/ m' = [c EXCEPT !.cmd = line]
      BY <1>9, Zenon DEF Backspace, Erased
    <2>2. c \in Device /\ Idle(c, m) /\ c.cmd = m.cmd
      BY <1>4, <1>5, Zenon DEF Idle
    <2> HIDE DEF c
    <2>3. Len(line) \in Nat /\ Len(line) <= Len(m.cmd)
      BY <1>3, <2>2, FrontFacts
    <2> HIDE DEF line
    <2>4. Fits(Len(line))
      BY <1>1, <1>3, <2>3, FitsFacts, Zenon
    <2>5. CASE m' = m
      BY <1>1, <1>2, <2>5, Zenon DEF Room
    <2> QED
      BY <1>6, <2>1, <2>2, <2>4, <2>5, Zenon
  <1>10. CASE Enter
    <2> DEFINE c == Out(m, Line("CR"))
               e == [c EXCEPT !.cmd = <<>>]
    <2>1. \/ m' = e \/ m' = Result(e, "ERROR")
          \/ m.cmd # <<>> /\ m' = StartLine(e, Tail(m.cmd))
      BY <1>10, Zenon DEF Enter, Entered
    <2>2. c \in Device /\ Idle(c, m) /\ Len(c.out) \in Nat /\ Len(c.out) <= Size["CR"]
      BY <1>4, <1>5, Zenon
    <2> HIDE DEF c
    <2>3. /\ e \in Device /\ e.cmd = <<>> /\ e.out = c.out
          /\ e.busy = m.busy /\ e.last = m.last
      BY <2>2, EmptyFacts, Zenon DEF Idle, Device
    <2>4. Fits(Len(e.cmd))
      BY <2>3, EmptyFacts, Zenon DEF ShortLines
    <2> HIDE DEF e
    <2>5. CASE m' = e \/ m' = Result(e, "ERROR")
      <3>1. Idle(Result(e, "ERROR"), e)
        BY <2>3, Zenon DEF Result, Out, Idle, Device
      <3>2. m'.busy = e.busy /\ m'.cmd = e.cmd /\ m'.last = e.last
        BY <2>5, <3>1, Zenon DEF Idle
      <3> QED
        BY <1>1, <1>2, <2>3, <2>4, <3>2, Zenon DEF Room
    <2>6. CASE m.cmd # <<>> /\ m' = StartLine(e, Tail(m.cmd))
      <3>1. /\ Tail(m.cmd) \in Seq(AllWords) /\ Len(Tail(m.cmd)) \in Nat
            /\ Len(Tail(m.cmd)) <= Len(m.cmd)
        BY <1>3, <2>6
      <3>2. Fits(Len(Tail(m.cmd)))
        BY <1>1, <1>3, <3>1, FitsFacts, Zenon
      <3> QED
        BY <1>7, <2>2, <2>3, <2>4, <2>6, <3>1, <3>2, Zenon
    <2> QED
      BY <2>1, <2>5, <2>6
  <1>11. CASE Again
    <2> DEFINE c == Out(m, Line("WORD"))
    <2>1. m' = StartLine(c, m.last)
      BY <1>11, Zenon DEF Again
    <2>2. /\ c \in Device /\ c.cmd = m.cmd
          /\ Len(c.out) \in Nat /\ Len(c.out) <= Size["WORD"]
      BY <1>4, <1>5, Zenon DEF Idle
    <2> HIDE DEF c
    <2> QED
      BY <1>1, <1>3, <1>7, <2>1, <2>2, Zenon
  <1> QED
    BY <1>8, <1>9, <1>10, <1>11

\* A word says nothing, or an information line and goes on; only ATO goes on
\* line.
LEMMA ExecuteRoom ==
    ASSUME NEW d, Inv(d), ~d.online, NEW w, NEW r \in Execute(d, w)
    PROVE  /\ Idle(r.dev, d)
           /\ r.res # "none" => ~r.dev.online
           /\ r.res = "more" => Len(r.dev.out) <= Len(d.out) + Size["INFO"]
           /\ r.res # "more" => r.dev.out = d.out
  <1>1. d \in Device /\ d.out \in Seq(Cell) /\ Idle(d, d)
    BY FieldTypes, Zenon DEF Inv, WellFormed, Idle
  <1>2. \A x, y : /\ Go(x).dev = x /\ Go(x).res = "more"
                  /\ Stop(x, y).dev = x /\ Stop(x, y).res = y
    BY Zenon DEF Go, Stop
  <1>3. "none" # "more" /\ "ERROR" # "more" /\ "NO CARRIER" # "more" /\ "none" # "ERROR"
        /\ Len(d.out) <= Len(d.out) + Size["INFO"] /\ Size["INFO"] \in Nat
    <2>1. Size["INFO"] \in Nat
      BY SizeFacts, Names, Zenon
    <2> QED
      BY <1>1, <2>1
  <1>4. CASE w = "D"
    <2>1. r = Stop(d, "ERROR") \/ \E e \in Dial(d) : r = Stop(e, "none")
      BY <1>4, Zenon DEF Execute
    <2>2. \A e \in Dial(d) : Idle(e, d) /\ e.out = d.out
      <3> SUFFICES ASSUME NEW e \in Dial(d) PROVE Idle(e, d) /\ e.out = d.out
        OBVIOUS
      <3> DEFINE c == [d EXCEPT !.refused = FALSE, !.rung = FALSE, !.due = FALSE,
                                !.told = FALSE, !.lost = FALSE]
      <3>1. c \in Device /\ Mute(c, d)
        BY <1>1, Zenon DEF Mute, Idle, Device
      <3>2. \/ e = [c EXCEPT !.state = "DIALING"]
            \/ e = [c EXCEPT !.state = "CONNECTING", !.tcp = "syn"]
        BY Zenon DEF Dial
      <3> HIDE DEF c
      <3>3. Mute(e, c)
        BY <3>1, <3>2, Zenon DEF Mute, Idle, Device
      <3> QED
        BY <3>1, <3>3, Zenon DEF Mute, Idle
    <2>3. CASE r = Stop(d, "ERROR")
      <3>1. r.dev = d /\ r.res = "ERROR"
        BY <1>2, <2>3, Zenon
      <3> QED
        BY <1>1, <1>3, <3>1, Zenon
    <2>4. CASE \E e \in Dial(d) : r = Stop(e, "none")
      <3>0. PICK e \in Dial(d) : r = Stop(e, "none")
        BY <2>4
      <3>1. r.res = "none" /\ Idle(r.dev, d) /\ r.dev.out = d.out
        <4>1. r.res = "none" /\ r.dev = e
          BY <1>2, <3>0, Zenon
        <4> QED
          BY <2>2, <4>1, Zenon
      <3> QED
        BY <1>3, <3>1, Zenon
    <2> QED
      BY <2>1, <2>3, <2>4
  <1>5. CASE w = "O"
    <2>1. r = Stop(d, "ERROR") \/ r = Stop([d EXCEPT !.online = TRUE], "none")
      BY <1>5, Zenon DEF Execute
    <2>2. CASE r = Stop(d, "ERROR")
      <3>1. r.dev = d /\ r.res = "ERROR"
        BY <1>2, <2>2, Zenon
      <3> QED
        BY <1>1, <1>3, <3>1, Zenon
    <2>3. CASE r = Stop([d EXCEPT !.online = TRUE], "none")
      <3>1. r.dev = [d EXCEPT !.online = TRUE] /\ r.res = "none"
        BY <1>2, <2>3, Zenon
      <3>2. Idle(r.dev, d) /\ r.dev.out = d.out
        BY <1>1, <3>1, Zenon DEF Idle, Device
      <3> QED
        BY <1>3, <3>1, <3>2, Zenon
    <2> QED
      BY <2>1, <2>2, <2>3
  <1>6. CASE w \in {"H", "Z", "I"}
    <2> DEFINE info(n) == Out(d, Copies("TEXT", n))
    <2>1. \/ \E x : r = Go(x) /\ x \in {Hangup(d), Defaults(Hangup(d))}
          \/ \E n \in 0 .. Size["INFO"] : r = Go(info(n))
      BY <1>6 DEF Execute
    <2>2. /\ r.res = "more"
          /\ \/ r.dev \in {Hangup(d), Defaults(Hangup(d))}
             \/ \E n \in 0 .. Size["INFO"] : r.dev = info(n)
      BY <1>2, <2>1, Zenon
    <2>3. ASSUME NEW n \in 0 .. Size["INFO"], r.dev = info(n)
          PROVE  /\ Idle(r.dev, d) /\ ~r.dev.online
                 /\ Len(r.dev.out) <= Len(d.out) + Size["INFO"]
      <3>1. Idle(info(n), d) /\ info(n).online = d.online
        BY OutRoom, Zenon
      <3>2. Inv(info(n)) /\ Len(info(n).out) <= Len(d.out) + n
        BY InfoInv, Zenon
      <3>3. Len(info(n).out) \in Nat
        BY <3>2, FieldTypes, LengthFacts, Zenon DEF Inv
      <3> HIDE DEF info
      <3>4. Len(info(n).out) <= Len(d.out) + Size["INFO"]
        BY <1>1, <1>3, <3>2, <3>3
      <3> QED
        BY <2>3, <3>1, <3>4, Zenon
    <2> HIDE DEF info
    <2>4. CASE r.dev \in {Hangup(d), Defaults(Hangup(d))}
      <3>1. Idle(r.dev, d) /\ ~r.dev.online /\ r.dev.out = d.out
        BY <2>4, HangupRoom, Zenon
      <3> QED
        BY <1>3, <2>2, <3>1, Zenon
    <2> QED
      BY <1>3, <2>2, <2>3, <2>4, Zenon
  <1>7. CASE w \notin {"D", "O", "H", "Z", "I"}
    <2>1. \/ r = Stop(d, "NO CARRIER") \/ r = Stop(d, "ERROR")
          \/ \E n : \/ r = Go([d EXCEPT !.dtrMode = n]) \/ r = Go([d EXCEPT !.dcdMode = n])
                    \/ r = Go([d EXCEPT !.mute = n])
      BY <1>7, Zenon DEF Execute
    <2>2. \A n : /\ Mute([d EXCEPT !.dtrMode = n], d) /\ Mute([d EXCEPT !.dcdMode = n], d)
                 /\ Mute([d EXCEPT !.mute = n], d)
      BY <1>1, Zenon DEF Mute, Idle, Device
    <2>3. Mute(d, d)
      BY Zenon DEF Mute, Idle
    <2>4. Mute(r.dev, d)
      <3>1. \A x : r = Go(x) => r.dev = x
        BY <1>2, Zenon
      <3>2. CASE r = Stop(d, "NO CARRIER") \/ r = Stop(d, "ERROR")
        <4>0. Stop(d, "NO CARRIER").dev = d /\ Stop(d, "ERROR").dev = d
          BY <1>2, Zenon
        <4>1. r.dev = d
          BY <3>2, <4>0, Zenon
        <4> QED
          BY <2>3, <4>1, Zenon
      <3>3. ASSUME NEW n, r = Go([d EXCEPT !.dtrMode = n]) PROVE Mute(r.dev, d)
        BY <2>2, <3>1, <3>3, Zenon
      <3>4. ASSUME NEW n, r = Go([d EXCEPT !.dcdMode = n]) PROVE Mute(r.dev, d)
        BY <2>2, <3>1, <3>4, Zenon
      <3>5. ASSUME NEW n, r = Go([d EXCEPT !.mute = n]) PROVE Mute(r.dev, d)
        BY <2>2, <3>1, <3>5, Zenon
      <3> QED
        BY <2>1, <3>2, <3>3, <3>4, <3>5, Zenon
    <2> QED
      BY <1>3, <2>4, Zenon DEF Mute
  <1> QED
    BY <1>4, <1>5, <1>6, <1>7

LEMMA RunRoom ==
    ASSUME Inv(m), Room(m), RunWord
    PROVE  Room(m')
  <1>1. PICK r \in Execute(m, Head(m.run)) :
          m' = CASE r.res = "more" -> [r.dev EXCEPT !.run = Tail(m.run)]
                 [] r.res = "none" ->
                      [r.dev EXCEPT !.run = <<>>, !.busy = FALSE]
                 [] OTHER -> [Result(r.dev, r.res) EXCEPT !.run = <<>>,
                                                          !.busy = FALSE]
    BY Zenon DEF RunWord
  <1>2. /\ m.busy /\ ~m.online /\ m.run # <<>>
        /\ Fits(Len(m.last)) /\ Fits(Len(m.cmd))
        /\ Len(m.out) + Asked(Len(m.run)) + 1 < OutSize
    BY Zenon DEF RunWord, Room
  <1>3. Inv(r.dev) /\ r.res \in Answers
    BY ExecuteInv, Zenon
  <1>4. /\ Idle(r.dev, m) /\ (r.res # "none" => ~r.dev.online)
        /\ r.res = "more" => Len(r.dev.out) <= Len(m.out) + Size["INFO"]
        /\ r.res # "more" => r.dev.out = m.out
    BY <1>2, ExecuteRoom, Zenon
  <1>5. r.dev \in Device /\ r.dev.out \in Seq(Cell)
        /\ m.run \in Seq(AllWords) /\ m.out \in Seq(Cell)
    BY <1>3, FieldTypes, Zenon DEF Inv, WellFormed
  <1>6. r.dev.last = m.last /\ r.dev.cmd = m.cmd
    BY <1>4, Zenon DEF Idle
  <1>7. CASE r.res = "more"
    <2>1. m' = [r.dev EXCEPT !.run = Tail(m.run)]
      BY <1>1, <1>7, Zenon
    <2>2. /\ m'.run = Tail(m.run) /\ m'.out = r.dev.out /\ m'.last = m.last
          /\ m'.cmd = m.cmd /\ m'.online = r.dev.online
      BY <1>5, <1>6, <2>1, Zenon DEF Device
    <2>3. ~m'.online
      <3>1. "more" # "none"
        OBVIOUS
      <3> QED
        BY <1>4, <1>7, <2>2, <3>1, Zenon
    <2>4. /\ Len(m.run) = Len(Tail(m.run)) + 1
          /\ Len(m.run) \in Nat /\ Len(Tail(m.run)) \in Nat
      BY <1>2, <1>5
    <2>5. Len(r.dev.out) + Asked(Len(Tail(m.run))) + 1 < OutSize
      <3>1. Len(r.dev.out) \in Nat /\ Len(m.out) \in Nat
        BY <1>5, LengthFacts, Zenon
      <3>2. Asked(Len(m.run)) = Asked(Len(Tail(m.run))) + Size["INFO"]
        BY <2>4, AskedFacts, Zenon
      <3>3. /\ Asked(Len(Tail(m.run))) \in Nat /\ Size["INFO"] \in Nat
            /\ OutSize \in Nat
        BY <2>4, AskedFacts, SizeFacts, Names, BufferSizes, Zenon
      <3>4. Len(r.dev.out) <= Len(m.out) + Size["INFO"]
        BY <1>4, <1>7, Zenon
      <3>5. \A o, k, a, i, b \in Nat :
              o <= k + i /\ k + (a + i) + 1 < b => o + a + 1 < b
        OBVIOUS
      <3> QED
        BY <1>2, <3>1, <3>2, <3>3, <3>4, <3>5, Zenon
    <2> QED
      BY <1>2, <2>2, <2>3, <2>5, Zenon DEF Room
  <1>8. CASE r.res = "none"
    <2>1. m' = [r.dev EXCEPT !.run = <<>>, !.busy = FALSE]
      BY <1>1, <1>8
    <2>2. /\ ~m'.busy /\ m'.out = r.dev.out /\ m'.last = m.last
          /\ m'.cmd = m.cmd
      BY <1>5, <1>6, <2>1, Zenon DEF Device
    <2>3. Len(m'.out) + 1 < OutSize
      <3>1. m'.out = m.out
        <4>1. "none" # "more"
          OBVIOUS
        <4> QED
          BY <1>4, <1>8, <2>2, <4>1, Zenon
      <3>2. Len(m.run) \in Nat /\ Len(m.out) \in Nat
        BY <1>5, LengthFacts, Zenon
      <3>3. Asked(Len(m.run)) \in Nat /\ OutSize \in Nat
        BY <3>2, AskedFacts, BufferSizes, Zenon
      <3>4. Len(m.out) + 1 < OutSize
        BY <1>2, <3>2, <3>3
      <3> QED
        BY <3>1, <3>4, Zenon
    <2> QED
      BY <1>2, <2>2, <2>3, Zenon DEF Room
  <1>9. CASE r.res \notin {"more", "none"}
    <2> DEFINE c == Result(r.dev, r.res)
    <2>1. m' = [c EXCEPT !.run = <<>>, !.busy = FALSE]
      BY <1>1, <1>9, Zenon
    <2>2. r.res \in Lines
      BY <1>3, <1>9, Zenon DEF Answers
    <2>3. c \in Device
      BY <1>3, <2>2, ResultInv, Zenon DEF Inv, WellFormed
    <2>4. Idle(c, r.dev) /\ ~c.online
      <3>1. r.res # "none"
        BY <1>9
      <3>2. Idle(c, r.dev) /\ c.online = r.dev.online
        BY <1>3, ResultRoom, Zenon
      <3> QED
        BY <1>4, <3>1, <3>2, Zenon
    <2> HIDE DEF c
    <2>5. ~m'.busy /\ ~m'.online /\ m'.last = c.last /\ m'.cmd = c.cmd
      BY <2>1, <2>3, <2>4, Zenon DEF Device
    <2> QED
      BY <1>2, <1>6, <2>4, <2>5, Zenon DEF Room, Idle
  <1> QED
    BY <1>7, <1>8, <1>9

\* The rest adds nothing, or nothing while there is a line to execute.
LEMMA OtherRoom ==
    ASSUME Inv(m), Room(m),
           \/ EndLine \/ SendData \/ DtrUp \/ DtrDrop
           \/ FarAnswers \/ FarRefuses \/ FarSends \/ FarCloses \/ FarResets
           \/ DeadlinePasses \/ FirstRingEnds \/ GuardElapses \/ UNCHANGED vars
    PROVE  Room(m')
  <1>1. m \in Device
    BY Zenon DEF Inv, WellFormed
  <1>2. CASE EndLine
    <2>1. m' = [Result(m, "OK") EXCEPT !.busy = FALSE] /\ ~m.online
      BY <1>2, Zenon DEF EndLine, Room
    <2>2. Idle(Result(m, "OK"), m) /\ ~Result(m, "OK").online /\ Result(m, "OK") \in Device
      BY <2>1, ResultRoom, ResultInv, Names, Zenon DEF Inv, WellFormed
    <2>3. ~m'.busy /\ ~m'.online /\ m'.last = m.last /\ m'.cmd = m.cmd
      BY <2>1, <2>2, Zenon DEF Idle, Device
    <2> QED
      BY <2>3, Zenon DEF Room
  <1>3. CASE SendData
    <2>1. PICK ch \in Char, taken \in BOOLEAN :
            m' = DataByte(Owes(m, ch), ch, taken) /\ Inv(Owes(m, ch))
      BY <1>3, SendOutcome, Zenon
    <2> DEFINE d == Owes(m, ch)
    <2>2. d \in Device /\ Mute(d, m)
      BY <1>1, <2>1, Zenon DEF Owes, Mute, Idle, Inv, WellFormed, Device
    <2> HIDE DEF d
    <2>3. Mute(DataByte(d, ch, taken), d)
      BY <2>2, Zenon DEF DataByte, Mute, Idle, Device
    <2> QED
      BY <2>1, <2>2, <2>3, MuteRoom, Zenon DEF d
  <1>4. CASE DtrDrop
    <2> DEFINE d == Dropped
    <2>1. Inv(d) /\ d \in Device /\ Mute(d, m) /\ ~m.busy
      BY <1>1, <1>4, DropOutcome, Zenon DEF Dropped, Mute, Idle, Device, DtrDrop
    <2>3. \/ m' = [d EXCEPT !.online = FALSE] \/ m' = d
          \/ m' = Result(Hangup(d), "NO CARRIER") \/ m' = Defaults(Hangup(d))
      BY <1>4, DropOutcome, Zenon
    <2> HIDE DEF d
    <2>4. CASE m' = d
      BY <2>1, <2>4, MuteRoom, Zenon
    <2>5. CASE m' # d
      <3>1. Idle([d EXCEPT !.online = FALSE], d) /\ ~[d EXCEPT !.online = FALSE].online
        BY <2>1, Zenon DEF Idle, Device
      <3>2. Idle(m', d) /\ ~m'.online
        BY <2>1, <2>3, <2>5, <3>1, HangupRoom, Zenon
      <3> QED
        BY <2>1, <3>2, Zenon DEF Room, Mute, Idle
    <2> QED
      BY <2>4, <2>5
  <1>5. CASE \/ DtrUp \/ UNCHANGED vars
             \/ FarAnswers \/ FarRefuses \/ FarSends \/ FarCloses \/ FarResets
             \/ DeadlinePasses \/ FirstRingEnds \/ GuardElapses
    <2>1. \/ m' = m
          \/ \E x, y : \/ m' = [m EXCEPT !.dtr = x]
                       \/ m' = [m EXCEPT !.tcp = x] \/ m' = [m EXCEPT !.inq = x]
                       \/ m' = [m EXCEPT !.tcp = x, !.inq = y]
                       \/ m' = [m EXCEPT !.due = x] \/ m' = [m EXCEPT !.rung = x]
                       \/ m' = [m EXCEPT !.guard = x]
      BY <1>5, Zenon
      DEF DtrUp, vars, FarAnswers, FarRefuses, FarSends, FarCloses, FarResets,
          DeadlinePasses, FirstRingEnds, GuardElapses
    <2>2. Mute(m', m)
      BY <1>1, <2>1, Zenon DEF Mute, Idle, Device
    <2> QED
      BY <2>2, MuteRoom, Zenon
  <1> QED
    BY <1>2, <1>3, <1>4, <1>5, Zenon

LEMMA RoomStep ==
    ASSUME Paced, ShortLines, Inv(m), Room(m), [Next]_vars
    PROVE  Room(m')
  <1>1. 2 <= OutSize
    BY FitsFacts, Zenon DEF ShortLines
  <1> QED
    BY <1>1, ReadRoom, CommandRoom, RunRoom, OtherRoom, Zenon DEF Next

\* With room in the ring, what ends a carrier is the far end, a command or DTR.
Carried ==
    m.state = "ONLINE" /\ m'.state # "ONLINE" =>
      m.tcp \in {"eof", "dead"} \/ m.busy \/ (m.dtr /\ ~m'.dtr)

LEMMA CarriedStep ==
    ASSUME Inv(m), Room(m), [Next]_vars
    PROVE  Carried
  <1>1. m \in Device
    BY Zenon DEF Inv, WellFormed
  <1>2. CASE Read
    <2> SUFFICES ASSUME m.state = "ONLINE", m'.state # "ONLINE"
                 PROVE  m.tcp \in {"eof", "dead"}
      BY DEF Carried
    <2>1. PollLine(m) = m
      BY PollSettles, Zenon
    <2> DEFINE e == Escape(m)
    <2>2. PICK f \in Receive(e) : m' = Handed(f)
      BY <1>2, <2>1, Zenon DEF Read
    <2>3. Inv(e) /\ Inv(f) /\ e.state = "ONLINE"
      BY EscapeInv, ReceiveInv, EscapeIdle, Zenon
    <2>4. f.state # "ONLINE"
      <3>1. f \in Device
        BY <2>3, Zenon DEF Inv, WellFormed
      <3> QED
        BY <2>2, <3>1, SettingsBeside, Zenon DEF Beside
    <2>5. e = m \/ ~e.online
      BY EscapeIdle, Zenon
    <2> HIDE DEF e
    <2>6. \/ f = e \/ \E n : f = Deliver(e, n)
          \/ /\ e.online /\ f = Result(Hangup(e), "NO CARRIER")
             /\ ~(OutSize - 1 - Len(e.out) > 0 /\ e.inq > 0)
             /\ ~(e.tcp \in {"syn", "up"} /\ OutSize - 1 - Len(e.out) > 0 /\ e.inq = 0)
      BY Zenon DEF Receive
    <2>7. \A n : Deliver(e, n).state = e.state
      <3>1. e \in Device
        BY <2>3, Zenon DEF Inv, WellFormed
      <3> QED
        BY <3>1, SettingsBeside, ZenonT(40) DEF Beside
    <2>8. /\ e.online
          /\ ~(OutSize - 1 - Len(e.out) > 0 /\ e.inq > 0)
          /\ ~(e.tcp \in {"syn", "up"} /\ OutSize - 1 - Len(e.out) > 0 /\ e.inq = 0)
      BY <2>3, <2>4, <2>6, <2>7, Zenon
    <2>9. e = m /\ Len(m.out) + 1 < OutSize
      BY <2>5, <2>8, Zenon DEF Room
    <2>10. OutSize - 1 - Len(m.out) > 0
      <3>1. Len(m.out) \in Nat /\ Len(m.out) + 1 < OutSize
        BY <2>9, FieldTypes, LengthFacts, Zenon DEF Inv
      <3> QED
        <4>1. \A n, k \in Nat : n + 1 < k => k - 1 - n > 0
          OBVIOUS
        <4> QED
          BY <3>1, <4>1, BufferSizes, Zenon
    <2>11. m.inq = 0
      <3>1. m.inq \in 0 .. MaxIn /\ ~(m.inq > 0)
        BY <2>8, <2>9, <2>10, FieldTypes, Zenon DEF Inv
      <3> QED
        BY <3>1, ModemAssumption
    <2>12. m.tcp \notin {"syn", "up"} /\ m.tcp # "none" /\ m.tcp \in Tcp
      <3>1. m.tcp \in Tcp
        BY FieldTypes, Zenon DEF Inv
      <3>2. m.tcp # "none"
        BY Zenon DEF Inv, LineOK
      <3> QED
        BY <2>8, <2>9, <2>10, <2>11, <3>1, <3>2, Zenon
    <2> QED
      BY <2>12 DEF Tcp
  <1>3. CASE TypeWord \/ Backspace \/ Enter \/ Again
    BY <1>3, CommandPath, Zenon DEF Beside, Carried
  <1>4. CASE RunWord \/ EndLine
    BY <1>4, Zenon DEF RunWord, EndLine, Carried
  <1>5. CASE SendData
    <2>1. m.state = "ONLINE"
      BY <1>5, Zenon DEF SendData, Inv, LineOK
    <2>2. PICK ch \in Char, taken \in BOOLEAN :
            m' = DataByte(Owes(m, ch), ch, taken) /\ Inv(Owes(m, ch))
      BY <1>5, SendOutcome, Zenon
    <2>3. Owes(m, ch).state = "ONLINE"
      BY <1>1, <2>1, Zenon DEF Owes, Device
    <2>4. m'.state = "ONLINE"
      BY <2>2, <2>3, DataByteInv, Zenon
    <2> QED
      BY <2>1, <2>4, Zenon DEF Carried
  <1>6. CASE DtrDrop
    <2>1. m.dtr
      BY <1>6 DEF DtrDrop
    <2>2. ~m'.dtr
      <3> DEFINE d == Dropped
      <3>1. d \in Device /\ Inv(d) /\ ~d.dtr
        BY <1>6, DropOutcome, Zenon
      <3>2. \/ m' = [d EXCEPT !.online = FALSE] \/ m' = d
            \/ m' = Result(Hangup(d), "NO CARRIER") \/ m' = Defaults(Hangup(d))
        BY <1>6, DropOutcome, Zenon
      <3> HIDE DEF d
      <3> DEFINE h == Hangup(d)
      <3>3. h \in Device /\ h.dtr = d.dtr
        <4>1. h.dtr = d.dtr
          BY <3>1, Zenon DEF Hangup, CallOver, Device
        <4> QED
          BY <3>1, <4>1, HangupInv, Zenon DEF Inv, WellFormed
      <3> HIDE DEF h
      <3>4. Result(h, "NO CARRIER").dtr = h.dtr /\ Defaults(h).dtr = h.dtr
        BY <3>3, Zenon DEF Result, Out, Defaults, Device
      <3>5. [d EXCEPT !.online = FALSE].dtr = d.dtr
        BY <3>1, Zenon DEF Device
      <3> QED
        BY <3>1, <3>2, <3>3, <3>4, <3>5, Zenon DEF h
    <2> QED
      BY <2>1, <2>2, Zenon DEF Carried
  <1>7. CASE \/ DtrUp
             \/ FarAnswers \/ FarRefuses \/ FarSends \/ FarCloses \/ FarResets
             \/ DeadlinePasses \/ FirstRingEnds \/ GuardElapses
    BY <1>7, OutsidePath, Zenon DEF Beside, Carried
  <1>8. CASE UNCHANGED vars
    BY <1>8, Zenon DEF vars, Carried
  <1> QED
    BY <1>2, <1>3, <1>4, <1>5, <1>6, <1>7, <1>8, Zenon DEF Next

LEMMA InitRoom == ShortLines /\ Init => Room(m)
  <1> SUFFICES ASSUME ShortLines, Init PROVE Room(m)
    OBVIOUS
  <1>1. ~m.busy /\ ~m.online /\ m.last = <<>> /\ m.cmd = <<>>
    BY Zenon DEF Init
  <1> QED
    BY <1>1, EmptyFacts, Zenon DEF Room, ShortLines

-----------------------------------------------------------------------------
(* The theorems.                                                           *)

\* The invariant holds of every state of the modem.
IInv == Inv(m)
THEOREM InvHolds == Spec => []IInv
  <1>1. Init => IInv
    BY InitInv DEF IInv
  <1>2. IInv /\ [Next]_vars => IInv'
    BY NextInv DEF IInv
  <1> QED
    BY <1>1, <1>2, PTL DEF Spec

\* For every ring, buffer and vocabulary, modem_t keeps its type and its
\* buffers their bounds, whatever the DTE types and the far end does.
THEOREM TypeSafe == Spec => []TypeOK
  <1>1. IInv => TypeOK
    BY Zenon DEF IInv, Inv, TypeOK
  <1> QED
    BY <1>1, InvHolds, PTL

\* Line, socket, mode and escape count agree at all times.
THEOREM LineSafe == Spec => []LineConsistent
  <1>1. IInv => LineConsistent
    BY Zenon DEF IInv, Inv, LineConsistent
  <1> QED
    BY <1>1, InvHolds, PTL

\* A carrier is up only once the DTE has read its CONNECT.
THEOREM CarrierSafe == Spec => []CarrierAfterConnect
  <1>1. IInv => CarrierAfterConnect
    BY Zenon DEF IInv, Inv, ConnectRead, CarrierAfterConnect
  <1> QED
    BY <1>1, InvHolds, PTL

\* "The modem becomes a transparent pipe", but for a byte that the socket
\* refuses and the fourth escape character of a run, which goes out twice:
\* what went into the line, followed by what is held back, is what the DTE
\* meant to send, however long the runs of escape characters.
THEOREM PipeHolds == Spec => [](IInv /\ Pipe(m))
  <1>1. Init => IInv /\ Pipe(m)
    BY InitInv, InitPath DEF IInv
  <1>2. IInv /\ Pipe(m) /\ [Next]_vars => (IInv /\ Pipe(m))'
    BY NextInv, PathStep, Zenon DEF IInv
  <1> QED
    BY <1>1, <1>2, PTL DEF Spec
THEOREM TransparentPipe == Spec => []Transparent
  <1>1. IInv /\ Pipe(m) => Transparent
    <2> SUFFICES ASSUME IInv, Pipe(m) PROVE Transparent
      OBVIOUS
    <2>1. /\ m.owed \in Seq(Sent) /\ m.wire \in Seq(Char) /\ m.pluses \in 0 .. 3
      BY FieldTypes, Zenon DEF IInv, Inv
    <2>2. Plus(m.pluses) = [i \in 1 .. m.pluses |-> "+"]
      BY Zenon DEF Plus, Copies
    <2>3. m.pluses \in Nat
      BY <2>1
    <2>4. /\ Plus(m.pluses) \in Seq(Char) /\ Len(Plus(m.pluses)) = m.pluses
          /\ \A i \in 1 .. m.pluses : Plus(m.pluses)[i] = "+"
      <3>1. \A S : \A x \in S : /\ [i \in 1 .. m.pluses |-> x] \in Seq(S)
                                /\ Len([i \in 1 .. m.pluses |-> x]) = m.pluses
        BY <2>3
      <3> QED
        BY <2>2, <3>1, Names, Zenon
    <2> DEFINE w == m.wire \o Plus(m.pluses)
               q == Plus(m.pluses)
    <2> HIDE DEF Plus, q
    <2>5. /\ q \in Seq(Char) /\ Len(q) = m.pluses
          /\ \A i \in 1 .. m.pluses : q[i] = "+"
      BY <2>4, Zenon DEF q
    <2>6. w = m.wire \o q
      BY Zenon DEF q
    <2> HIDE DEF w
    <2>7. /\ w \in Seq(Char) /\ Len(w) = Len(m.wire) + m.pluses
          /\ \A i \in 1 .. Len(m.wire) : w[i] = m.wire[i]
          /\ \A i \in Len(m.wire) + 1 .. Len(m.wire) + m.pluses : w[i] = "+"
      BY <2>1, <2>5, <2>6, SMTT(30)
    <2>8. Len(w) = Len(m.owed) /\ \A i \in 1 .. Len(m.owed) : w[i] = m.owed[i].ch
      <3>1. /\ Len(m.owed) = Len(m.wire) + m.pluses
            /\ \A i \in 1 .. Len(m.wire) : m.owed[i].ch = m.wire[i]
            /\ \A i \in 1 .. Len(m.owed) :
                 i > Len(m.wire) => m.owed[i] = [ch |-> "+", nth |-> i - Len(m.wire)]
        BY Zenon DEF Pipe, HeldBack
      <3>2. ASSUME NEW i \in 1 .. Len(m.owed), i > Len(m.wire)
            PROVE  m.owed[i].ch = "+"
        <4>1. m.owed[i] = [ch |-> "+", nth |-> i - Len(m.wire)]
          BY <3>1, <3>2, Zenon
        <4> QED
          BY <4>1
      <3>3. Len(m.wire) \in Nat
        BY <2>1
      <3>4. \A i \in 1 .. Len(m.owed) :
              \/ i \in 1 .. Len(m.wire)
              \/ i > Len(m.wire) /\ i \in Len(m.wire) + 1 .. Len(m.wire) + m.pluses
        BY <2>3, <3>1, <3>3
      <3> QED
        BY <2>7, <3>1, <3>2, <3>4, Zenon
    <2>9. w = [i \in DOMAIN m.owed |-> m.owed[i].ch]
      BY <2>1, <2>7, <2>8
    <2>10. \A i \in DOMAIN m.owed :
             m.owed[i].nth > 1 => i > 1 /\ m.owed[i - 1].nth = m.owed[i].nth - 1
      <3>1. DOMAIN m.owed = 1 .. Len(m.owed)
        BY <2>1
      <3> QED
        BY <3>1, Zenon DEF Pipe, HeldBack
    <2> QED
      BY <2>9, <2>10, Zenon DEF w, Transparent
  <1> QED
    BY <1>1, PipeHolds, PTL

\* Only a real escape, or a DTR drop, leaves data mode with the carrier kept.
THEOREM EscapesMeant == Spec => EscapeMeant
  <1>1. IInv /\ Pipe(m) /\ [Next]_vars => [Meant]_vars
    BY PathStep, Zenon DEF IInv
  <1>2. Spec => [][Meant]_vars
    BY <1>1, PipeHolds, PTL DEF Spec
  <1> QED
    BY <1>2, Zenon DEF EscapeMeant, Meant

\* The counterpart of the full ring that hangs up: a carrier is lost only to
\* the far end, a command or DTR if the DTE reads what it was told before it
\* types on, and types no line whose words could fill the ring, an information
\* line each.  In the code that is a ring of MODEM_OUT_SIZE 4096 bytes and a
\* line of some ninety words; ATI4I4...O may be longer, and then it is lost.
THEOREM CarrierLasts == ASSUME Paced, ShortLines PROVE Spec => CarrierKept
  <1>1. Init => IInv /\ Room(m)
    BY InitInv, InitRoom DEF IInv
  <1>2. IInv /\ Room(m) /\ [Next]_vars => (IInv /\ Room(m))'
    BY NextInv, RoomStep, Zenon DEF IInv
  <1>3. IInv /\ Room(m) /\ [Next]_vars => [Carried]_vars
    BY CarriedStep, Zenon DEF IInv
  <1>4. Spec => [][Carried]_vars
    BY <1>1, <1>2, <1>3, PTL DEF Spec
  <1> QED
    BY <1>4, Zenon DEF CarrierKept, Carried

=============================================================================
