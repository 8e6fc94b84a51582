------------------------------- MODULE Modem -------------------------------
(***************************************************************************)
(* The serial modem on COM4 (src/char/char_modem.c): command mode, the     *)
(* call set-up, data mode with its +++ escape, and the ring the DTE reads. *)
(*                                                                         *)
(* m is modem_t: each function of the source is an operator from a device  *)
(* to a device, composed in the order the source calls them, and each char *)
(* device hook (modem_read, modem_write, modem_control) is one action.     *)
(* The TCP connection moves on its own between them.  A command line is    *)
(* executed a word a step (m.busy): only the line can move in between.     *)
(*                                                                         *)
(* The ring holds bytes: of text, of what the carrier delivered, and the   *)
(* last byte of a CONNECT.  Size gives the bytes a line of each kind takes, *)
(* its framing included.                                                   *)
(***************************************************************************)
EXTENDS Integers, Sequences

CONSTANTS
    LineTcp,      \* a host stands in for the PSTN (else the line is dead)
    Commands,     \* command lines the DTE types, whole or in part
    Size,         \* bytes of each line; of an information line, at most
    OutSize,      \* MODEM_OUT_SIZE
    CmdSize,      \* MODEM_CMD_SIZE, in words
    MaxIn,        \* bound: bytes the far end has in flight
    MaxData,      \* bound: characters the DTE sends in one call
    Paced         \* the DTE reads what it was told before it types on

\* The words of a command line; "AT" begins one.
AllWords == {"AT", "D", "H", "I", "O", "Z", "&D0", "&D1", "&D2", "&D3",
             "&C0", "&C1", "Q0", "Q1", "?"}
\* What the modem says: the echo of a word, of CR and of backspace, a result
\* code, an information line.
Lines == {"WORD", "CR", "ERASE", "OK", "CONNECT", "NO CARRIER", "ERROR", "INFO"}

ASSUME ModemAssumption ==
    /\ LineTcp \in BOOLEAN /\ Paced \in BOOLEAN
    /\ Commands \subseteq Seq(AllWords)
    /\ Size \in [Lines -> Nat \ {0}]
    /\ OutSize \in Nat \ {0} /\ CmdSize \in Nat \ {0}
    /\ MaxIn \in Nat /\ MaxData \in Nat

VARIABLE m
vars == <<m>>

States == {"IDLE", "DIALING", "CONNECTING", "ANSWERING", "ONLINE"}
\* What the socket calls would say: "none" is sock == -1.
Tcp == {"none", "syn", "up", "eof", "dead"}
Cell == {"TEXT", "CONNECT", "DATA"}
Char == {"+", "x"}
\* A character the DTE sent.  nth: its place in a run of escape characters that
\* began after a guard time, 0 outside one; 5 is the fourth, owed once more.
Sent == [ch : Char, nth : 0 .. 5]

Device == [
    state : States, online : BOOLEAN, tcp : Tcp,
    inq : 0 .. MaxIn,          \* bytes waiting in the socket
    due : BOOLEAN,             \* deadline has passed
    rung : BOOLEAN,            \* answer_at has passed
    refused : BOOLEAN, said : BOOLEAN,
    pluses : 0 .. 3,
    guard : BOOLEAN,           \* now - last_data >= the guard time of S12
    dtr : BOOLEAN, dtrMode : 0 .. 3, dcdMode : 0 .. 1, mute : BOOLEAN,
    out : Seq(Cell),
    cmd : Seq(AllWords), last : Seq(AllWords),
    busy : BOOLEAN, run : Seq(AllWords),    \* the line being executed
    \* History, of this call: what went into the line and what is owed to it,
    \* since the socket last refused a byte; whether the DTE has read CONNECT;
    \* whether the ring dropped anything.
    wire : Seq(Char), owed : Seq(Sent),
    told : BOOLEAN, lost : BOOLEAN ]

-----------------------------------------------------------------------------
(* Output.                                                                 *)

Copies(x, n) == [i \in 1 .. n |-> x]
Line(x) ==
    IF x = "CONNECT" THEN Append(Copies("TEXT", Size[x] - 1), "CONNECT")
                     ELSE Copies("TEXT", Size[x])

\* modem_out_str, modem_out_line: byte by byte, and a full ring drops the rest.
Out(d, text) ==
    LET room == OutSize - 1 - Len(d.out) IN
    IF Len(text) <= room
    THEN [d EXCEPT !.out = @ \o text]
    ELSE [d EXCEPT !.out = @ \o SubSeq(text, 1, room), !.lost = TRUE]

\* modem_result: ATQ1 silences it.
Result(d, x) == IF d.mute THEN d ELSE Out(d, Line(x))

-----------------------------------------------------------------------------
(* The line.                                                               *)

\* What only a call in progress reads; every call sets it before it does.
CallOver(d) ==
    [d EXCEPT !.due = FALSE, !.rung = FALSE, !.refused = FALSE, !.said = FALSE]

\* Seeded fault: the escape count survives the call.
HangupKeepsPluses(d) ==
    [CallOver(d) EXCEPT
       !.state = "IDLE", !.online = FALSE, !.tcp = "none", !.inq = 0,
       !.wire = <<>>, !.owed = <<>>, !.told = FALSE, !.lost = FALSE]
Hangup(d) ==
    [CallOver(d) EXCEPT
       !.state = "IDLE", !.online = FALSE, !.tcp = "none", !.inq = 0,
       !.pluses = 0,
       !.wire = <<>>, !.owed = <<>>, !.told = FALSE, !.lost = FALSE]

Answered(d) ==
    [CallOver(d) EXCEPT !.state = "ANSWERING", !.said = FALSE, !.due = FALSE]
GoOnline(d) == [CallOver(d) EXCEPT !.state = "ONLINE", !.online = TRUE]

\* modem_dial: over TCP the connect may fail at once, and then it rings on.
Dial(d) ==
    LET off == [d EXCEPT !.refused = FALSE, !.rung = FALSE, !.due = FALSE,
                         !.told = FALSE, !.lost = FALSE]
        failed == [off EXCEPT !.state = "DIALING"]
    IN  IF LineTcp
        THEN {failed, [off EXCEPT !.state = "CONNECTING", !.tcp = "syn"]}
        ELSE {failed}

\* modem_poll_line, by state.  CONNECTING: a refused call rings until a later
\* deadline; an answered one is picked up at answer_at.
\* Seeded fault: the deadline of a refused call is put off at every poll.
PollConnectingRearms(d) ==
    CASE d.refused \/ d.tcp = "dead" ->
           [d EXCEPT !.refused = TRUE, !.due = FALSE]
      [] ~d.refused /\ d.tcp \in {"up", "eof"} ->
           IF d.rung THEN Answered(d) ELSE d
      [] OTHER -> IF d.due THEN Result(Hangup(d), "NO CARRIER") ELSE d
PollConnecting(d) ==
    CASE d.refused \/ d.tcp = "dead" ->
           IF d.refused /\ d.due THEN Result(Hangup(d), "NO CARRIER")
           ELSE [d EXCEPT !.refused = TRUE, !.due = FALSE]
      [] ~d.refused /\ d.tcp \in {"up", "eof"} ->
           IF d.rung THEN Answered(d) ELSE d
      [] OTHER -> IF d.due THEN Result(Hangup(d), "NO CARRIER") ELSE d

\* ANSWERING: say CONNECT, let the DTE drain it, then go on line.
\* Seeded fault: on line as soon as CONNECT has been queued.
PollAnsweringAtOnce(d) ==
    CASE ~d.due -> d
      [] ~d.said ->
           [Result(d, "CONNECT") EXCEPT !.said = TRUE, !.due = FALSE,
                                        !.told = d.mute]
      [] OTHER -> GoOnline(d)
PollAnswering(d) ==
    CASE ~d.due -> d
      [] d.due /\ ~d.said ->
           [Result(d, "CONNECT") EXCEPT !.said = TRUE, !.due = FALSE,
                                        !.told = d.mute]
      [] OTHER -> IF d.out = <<>> THEN GoOnline(d) ELSE d

PollLine(d) ==
    CASE d.state = "DIALING" ->
           IF d.due THEN Result(Hangup(d), "NO CARRIER") ELSE d
      [] d.state = "CONNECTING" -> PollConnecting(d)
      [] d.state = "ANSWERING" -> PollAnswering(d)
      [] OTHER -> d

-----------------------------------------------------------------------------
(* Data mode.                                                              *)

Plus(n) == Copies("+", n)

\* modem_data_byte: the first three escape characters after a guard time are
\* held back; anything else sends them, then itself.  The fourth is counted
\* and sent, so it goes out twice.  What the socket refuses (~taken) is gone.
\* Seeded fault: the held characters are not sent first.
DataByteForgetsPluses(d, ch, taken) ==
    LET counted == ch = "+" /\ (d.pluses > 0 \/ d.guard)
        p == IF counted THEN d.pluses + 1 ELSE d.pluses
    IN  IF counted /\ p <= 3 THEN [d EXCEPT !.pluses = p, !.guard = FALSE]
        ELSE [d EXCEPT !.pluses = 0, !.guard = FALSE,
                       !.wire = IF taken THEN Append(@, ch) ELSE <<>>,
                       !.owed = IF taken THEN @ ELSE <<>>]
DataByte(d, ch, taken) ==
    LET counted == ch = "+" /\ (d.pluses > 0 \/ d.guard)
        p == IF counted THEN d.pluses + 1 ELSE d.pluses
    IN  IF counted /\ p <= 3 THEN [d EXCEPT !.pluses = p, !.guard = FALSE]
        ELSE [d EXCEPT !.pluses = 0, !.guard = FALSE,
                       !.wire = IF taken THEN @ \o Append(Plus(p), ch) ELSE <<>>,
                       !.owed = IF taken THEN @ ELSE <<>>]

\* modem_read: three of them and a guard time of silence are an escape.
\* Seeded fault: two are enough.
EscapeOnTwo(d) ==
    IF d.online /\ d.pluses >= 2 /\ d.guard
    THEN Result([d EXCEPT !.pluses = 0, !.online = FALSE,
                          !.owed = SubSeq(@, 1, Len(@) - 3)], "OK")
    ELSE d
Escape(d) ==
    IF d.online /\ d.pluses >= 3 /\ d.guard
    THEN Result([d EXCEPT !.pluses = 0, !.online = FALSE,
                          !.owed = SubSeq(@, 1, Len(@) - 3)], "OK")
    ELSE d

\* modem_read: as much of what the carrier delivers as the ring can hold.  The
\* ret == 0 of a ring with no room is taken for the far end's hangup.
Deliver(d, n) ==
    [d EXCEPT !.inq = @ - n, !.out = @ \o Copies("DATA", n)]
\* Seeded fault: nothing to read is taken for a hangup as well.
ReceiveNoWouldBlock(d) ==
    LET room == OutSize - 1 - Len(d.out) IN
    CASE ~d.online \/ d.tcp = "none" -> {d}
      [] d.online /\ d.tcp # "none" /\ room > 0 /\ d.inq > 0 ->
           {Deliver(d, n) : n \in 1 .. IF d.inq < room THEN d.inq ELSE room}
      [] OTHER -> {Result(Hangup(d), "NO CARRIER")}
Receive(d) ==
    LET room == OutSize - 1 - Len(d.out) IN
    CASE ~d.online \/ d.tcp = "none" -> {d}
      [] d.online /\ d.tcp # "none" /\ room > 0 /\ d.inq > 0 ->
           {Deliver(d, n) : n \in 1 .. IF d.inq < room THEN d.inq ELSE room}
      [] d.online /\ d.tcp \in {"syn", "up"} /\ room > 0 /\ d.inq = 0 -> {d}
      [] OTHER -> {Result(Hangup(d), "NO CARRIER")}

\* modem_read: the serial port asks for one character.
Handed(d) ==
    IF d.out = <<>> THEN d
    ELSE [d EXCEPT !.out = Tail(@), !.told = @ \/ Head(d.out) = "CONNECT"]

-----------------------------------------------------------------------------
(* Commands.                                                               *)

\* modem_load_defaults.
Defaults(d) == [d EXCEPT !.dtrMode = 2, !.dcdMode = 1, !.mute = FALSE]

\* modem_execute, one word.  [dev |-> ..., res |-> ...]: "more" goes on with
\* the line, "none" ends it without a result code.
Go(d) == [dev |-> d, res |-> "more"]
Stop(d, res) == [dev |-> d, res |-> res]
Execute(d, w) ==
    CASE w = "AT" -> {Stop(d, "NO CARRIER")}     \* A, with nobody calling
      [] w = "D" -> IF d.state # "IDLE" THEN {Stop(d, "ERROR")}
                    ELSE {Stop(e, "none") : e \in Dial(d)}
      [] w = "H" -> {Go(Hangup(d))}
      [] w = "I" -> {Go(Out(d, Copies("TEXT", n))) : n \in 0 .. Size["INFO"]}
      [] w = "O" -> IF d.state # "ONLINE" THEN {Stop(d, "ERROR")}
                    ELSE {Stop([d EXCEPT !.online = TRUE], "none")}
      [] w = "Z" -> {Go(Defaults(Hangup(d)))}
      [] w = "&D0" -> {Go([d EXCEPT !.dtrMode = 0])}
      [] w = "&D1" -> {Go([d EXCEPT !.dtrMode = 1])}
      [] w = "&D2" -> {Go([d EXCEPT !.dtrMode = 2])}
      [] w = "&D3" -> {Go([d EXCEPT !.dtrMode = 3])}
      [] w = "&C0" -> {Go([d EXCEPT !.dcdMode = 0])}
      [] w = "&C1" -> {Go([d EXCEPT !.dcdMode = 1])}
      [] w = "Q0" -> {Go([d EXCEPT !.mute = FALSE])}
      [] w = "Q1" -> {Go([d EXCEPT !.mute = TRUE])}
      [] OTHER -> {Stop(d, "ERROR")}

\* modem_command_byte: the echo, then the character, if the line has room.
\* Seeded fault: the full line goes unnoticed.
TypedNoCheck(d, w) == [Out(d, Line("WORD")) EXCEPT !.cmd = Append(@, w)]
Typed(d, w) ==
    IF Len(d.cmd) < CmdSize - 1
    THEN [Out(d, Line("WORD")) EXCEPT !.cmd = Append(@, w)]
    ELSE Out(d, Line("WORD"))
Erased(d) ==
    IF d.cmd = <<>> THEN d
    ELSE [Out(d, Line("ERASE")) EXCEPT !.cmd = SubSeq(@, 1, Len(@) - 1)]
StartLine(d, line) == [d EXCEPT !.last = line, !.run = line, !.busy = TRUE]
Entered(d) ==
    LET e == [Out(d, Line("CR")) EXCEPT !.cmd = <<>>] IN
    CASE d.cmd = <<>> -> e
      [] d.cmd # <<>> /\ Head(d.cmd) = "AT" -> StartLine(e, Tail(d.cmd))
      [] OTHER -> Result(e, "ERROR")

-----------------------------------------------------------------------------
Init ==
    m = [state |-> "IDLE", online |-> FALSE, tcp |-> "none", inq |-> 0,
         due |-> FALSE, rung |-> FALSE, refused |-> FALSE, said |-> FALSE,
         pluses |-> 0, guard |-> TRUE,
         dtr |-> FALSE, dtrMode |-> 2, dcdMode |-> 1, mute |-> FALSE,
         out |-> <<>>, cmd |-> <<>>, last |-> <<>>,
         busy |-> FALSE, run |-> <<>>,
         wire |-> <<>>, owed |-> <<>>, told |-> FALSE, lost |-> FALSE]

\* modem_read, once a character time.
Read ==
    /\ ~m.busy
    /\ \E d \in Receive(Escape(PollLine(m))) : m' = Handed(d)

\* modem_write in command mode: a word, backspace, CR, A/.
Commanding == ~m.busy /\ ~m.online /\ (Paced => m.out = <<>>)
TypeWord ==
    /\ Commanding
    /\ \E line \in Commands :
         /\ Len(m.cmd) < Len(line) /\ m.cmd = SubSeq(line, 1, Len(m.cmd))
         /\ m' = Typed(m, line[Len(m.cmd) + 1])
Backspace == Commanding /\ m' = Erased(m)
Enter == Commanding /\ m' = Entered(m)
Again == Commanding /\ m.cmd = <<>> /\ m' = StartLine(Out(m, Line("WORD")), m.last)

\* modem_execute: the next word, or OK at the end of the line.
RunWord ==
    /\ m.busy /\ m.run # <<>>
    /\ \E r \in Execute(m, Head(m.run)) :
         m' = CASE r.res = "more" -> [r.dev EXCEPT !.run = Tail(m.run)]
                [] r.res = "none" -> [r.dev EXCEPT !.run = <<>>, !.busy = FALSE]
                [] OTHER -> [Result(r.dev, r.res) EXCEPT !.run = <<>>,
                                                         !.busy = FALSE]
EndLine ==
    m.busy /\ m.run = <<>> /\ m' = [Result(m, "OK") EXCEPT !.busy = FALSE]

\* modem_write in data mode.  What it owes the line: every character once, the
\* fourth of a run of escape characters after a guard time twice.
Nth(d, ch) ==
    LET n == Len(d.owed)
        k == IF n = 0 THEN 0 ELSE d.owed[n].nth
    IN  CASE ch = "+" /\ k \in 1 .. 3 -> k + 1
          [] ch = "+" /\ k \notin 1 .. 3 /\ d.guard -> 1
          [] OTHER -> 0
Owing(ch, nth) ==
    IF nth = 4 THEN <<[ch |-> ch, nth |-> 4], [ch |-> ch, nth |-> 5]>>
               ELSE <<[ch |-> ch, nth |-> nth]>>
SendData ==
    /\ ~m.busy /\ m.online /\ Len(m.owed) < MaxData
    /\ \E ch \in Char, taken \in BOOLEAN :
         LET d == [m EXCEPT !.owed = @ \o Owing(ch, Nth(m, ch))] IN
           m' = DataByte(d, ch, taken)

\* modem_control: only the fall of DTR does anything.
DtrUp == ~m.busy /\ ~m.dtr /\ m' = [m EXCEPT !.dtr = TRUE]
DtrDrop ==
    /\ ~m.busy /\ m.dtr
    /\ LET d == [m EXCEPT !.dtr = FALSE] IN
         m' = CASE d.dtrMode = 1 -> [d EXCEPT !.online = FALSE]
                [] d.dtrMode = 2 -> IF d.state = "IDLE" THEN d
                                    ELSE Result(Hangup(d), "NO CARRIER")
                [] d.dtrMode = 3 -> Defaults(Hangup(d))
                [] OTHER -> d

-----------------------------------------------------------------------------
(* The far end of the TCP connection, and the clock.                       *)
FarAnswers == m.tcp = "syn" /\ m' = [m EXCEPT !.tcp = "up"]
FarRefuses == m.tcp = "syn" /\ m' = [m EXCEPT !.tcp = "dead"]
FarSends == m.tcp = "up" /\ m.inq < MaxIn /\ m' = [m EXCEPT !.inq = @ + 1]
FarCloses == m.tcp = "up" /\ m' = [m EXCEPT !.tcp = "eof"]
FarResets ==
    m.tcp \in {"up", "eof"} /\ m' = [m EXCEPT !.tcp = "dead", !.inq = 0]

DeadlinePasses ==
    /\ m.state \in {"DIALING", "CONNECTING", "ANSWERING"} /\ ~m.due
    /\ m' = [m EXCEPT !.due = TRUE]
FirstRingEnds ==
    m.state = "CONNECTING" /\ ~m.rung /\ m' = [m EXCEPT !.rung = TRUE]
GuardElapses == m.state = "ONLINE" /\ ~m.guard /\ m' = [m EXCEPT !.guard = TRUE]

Next ==
    \/ Read \/ TypeWord \/ Backspace \/ Enter \/ Again \/ RunWord \/ EndLine
    \/ SendData \/ DtrUp \/ DtrDrop
    \/ FarAnswers \/ FarRefuses \/ FarSends \/ FarCloses \/ FarResets
    \/ DeadlinePasses \/ FirstRingEnds \/ GuardElapses

Spec == Init /\ [][Next]_vars

-----------------------------------------------------------------------------
(***************************************************************************)
(* Properties.                                                             *)
(***************************************************************************)

\* The device keeps its type and its buffers their bounds (out, cmd).
WellFormed(d) ==
    /\ d \in Device
    /\ Len(d.out) < OutSize /\ Len(d.cmd) < CmdSize
    /\ Len(d.owed) <= MaxData + 1
TypeOK == WellFormed(m)

\* The line state, the socket, the mode and the escape count agree: data mode
\* and held-back escape characters only on a carrier, a socket only in a call,
\* a call over TCP only where there is a host.
LineOK(d) ==
    /\ d.tcp # "none" <=> d.state \in {"CONNECTING", "ANSWERING", "ONLINE"}
    /\ d.online => d.state = "ONLINE"
    /\ d.pluses > 0 => d.state = "ONLINE"
    /\ d.inq > 0 => d.tcp \in {"up", "eof"}
    /\ ~LineTcp => d.state \in {"IDLE", "DIALING"}
LineConsistent == LineOK(m)

\* "Say CONNECT, let the DTE drain it, and only then raise DCD and go on line":
\* whenever there is a carrier, the DTE has read the CONNECT of this call,
\* whatever it typed, aborted or redialled while the call was being set up.
CarrierAfterConnect == m.state = "ONLINE" /\ ~m.lost => m.told

\* ... which rests on this: until it is read, the CONNECT that was said is
\* still in the ring.
Among(x, s) == \E i \in DOMAIN s : s[i] = x
ConnectPending(d) ==
    d.state = "ANSWERING" /\ d.said /\ ~d.lost /\ ~d.told =>
      Among("CONNECT", d.out)

\* "The modem becomes a transparent pipe", with two exceptions: a byte the
\* socket refuses is gone, and the fourth of a run of escape characters after a
\* guard time goes out twice.  What went into the line since a byte was last
\* refused, followed by the escape characters held back, is what the DTE sent
\* since then, less the escape sequences that took effect, across escapes, ATO
\* and DTR drops; the one extra character stands behind four of one run.
Transparent ==
    m.state = "ONLINE" =>
      /\ m.wire \o Plus(m.pluses) = [i \in DOMAIN m.owed |-> m.owed[i].ch]
      /\ \A i \in DOMAIN m.owed :
           m.owed[i].nth > 1 => i > 1 /\ m.owed[i - 1].nth = m.owed[i].nth - 1

\* Only a real escape leaves data mode with the carrier kept: three escape
\* characters, the first after a guard time, silence after the last, and not
\* the beginning of a longer run.  (AT&D1 does so on a DTR drop.)
EscapeMeant ==
    [][m.online /\ ~m'.online /\ m'.state = "ONLINE" =>
         \/ m.dtr /\ ~m'.dtr
         \/ LET n == Len(m.owed) IN
              /\ n >= 3 /\ m.guard
              /\ \A i \in 1 .. 3 : m.owed[n - 3 + i] = [ch |-> "+", nth |-> i]]_vars

\* A carrier is lost only for a reason: the far end went, the DTE said so in a
\* command, or it dropped DTR.  An idle line and a full ring are no reasons.
CarrierKept ==
    [][m.state = "ONLINE" /\ m'.state # "ONLINE" =>
         m.tcp \in {"eof", "dead"} \/ m.busy \/ (m.dtr /\ ~m'.dtr)]_vars

\* The serial port reads for ever, and now and then finds the ring drained; the
\* clock moves on; a command line comes to its end.
FairSpec ==
    /\ Spec
    /\ WF_vars(Read) /\ SF_vars(Read /\ m.out = <<>>)
    /\ WF_vars(RunWord \/ EndLine)
    /\ WF_vars(DeadlinePasses) /\ WF_vars(FirstRingEnds)

\* Every call ends: on line, or with the line hung up.
CallResolves ==
    m.state \in {"DIALING", "CONNECTING", "ANSWERING"} ~>
      m.state \in {"IDLE", "ONLINE"}
=============================================================================
