------------------------------- MODULE Timer -------------------------------
(***************************************************************************)
(* The timers every emulated device runs on (src/timer.c, timer.h): a      *)
(* doubly linked list of the enabled ones, the soonest at the head, and    *)
(* timer_target, which tells the CPU when to call timer_process.           *)
(*                                                                         *)
(* q is the state timer.c keeps; each of its functions is an operator from *)
(* q to q.  A timer's callback is open-ended: while it runs, any sequence  *)
(* of the calls a device may make.  Fractions of a cycle are left out, and *)
(* one microsecond is one cycle.                                           *)
(***************************************************************************)
EXTENDS Integers, FiniteSets

CONSTANTS
    Timers,
    NoTimer,      \* NULL
    Perpetual,    \* timers whose callback always sets them again
    Periodic,     \* timers that are given to timer_on_auto
    MaxPeriod,    \* MAX_USEC: the longest delay that is not split
    Half,         \* 2^31: from there on a delay is taken for a negative one
    MaxDelay,     \* bound: delays a device asks for
    MaxAuto,      \* bound: periods timer_on_auto is given
    MaxTsc,       \* bound: the clock
    MaxBlock      \* bound: cycles the CPU runs between two looks at the target

\* The last timer of the list is never removed (timer_remove_head would follow
\* a NULL): two timers that are always set again see to that.
ASSUME TimerAssumption ==
    /\ IsFiniteSet(Timers) /\ NoTimer \notin Timers
    /\ Perpetual \subseteq Timers /\ Periodic \subseteq Timers \ Perpetual
    /\ \E t, u \in Perpetual : t # u
\* "The timer period can only be at most 0x7fffffff CPU cycles."
ASSUME DelayAssumption ==
    /\ MaxPeriod \in Nat \ {0} /\ MaxDelay \in Nat \ {0} /\ MaxAuto \in Nat
    /\ MaxTsc \in Nat /\ MaxBlock \in Nat \ {0} /\ Half \in Nat
    /\ MaxPeriod < Half /\ MaxDelay < Half

VARIABLES
    q,        \* tsc and what timer.c keeps
    phase,    \* where the emulation thread is
    running,  \* whose callback runs, or NoTimer
    added     \* the timers their devices have added since timer_init

vars == <<q, phase, running, added>>

Phases == {"boot", "cpu", "process", "callback", "crashed", "off"}
MaxTime == MaxTsc + MaxDelay + MaxAuto
Link == Timers \cup {NoTimer}
List == [
    tsc : Int, target : Int, inited : BOOLEAN,
    head : Link, next : [Timers -> Link], prev : [Timers -> Link],
    enabled : [Timers -> BOOLEAN], split : [Timers -> BOOLEAN],
    inCallback : [Timers -> BOOLEAN],
    ts : [Timers -> Int], period : [Timers -> Nat] ]

-----------------------------------------------------------------------------
(* timer.c and the inline functions of timer.h.                            *)

\* timer_disable.  timer_target is left as it is.
\* Seeded fault: the timer after it keeps its prev.
DisableKeepsPrev(l, t) ==
    IF ~l.inited \/ ~l.enabled[t] THEN l
    ELSE [l EXCEPT
            !.enabled[t] = FALSE, !.inCallback[t] = FALSE,
            !.head = IF l.prev[t] = NoTimer THEN l.next[t] ELSE @,
            !.next = [u \in Timers |->
                        IF u = t THEN NoTimer
                        ELSE IF u = l.prev[t] THEN l.next[t] ELSE @[u]],
            !.prev[t] = NoTimer]
Disable(l, t) ==
    IF ~l.inited \/ ~l.enabled[t] THEN l
    ELSE [l EXCEPT
            !.enabled[t] = FALSE, !.inCallback[t] = FALSE,
            !.head = IF l.prev[t] = NoTimer THEN l.next[t] ELSE @,
            !.next = [u \in Timers |->
                        IF u = t THEN NoTimer
                        ELSE IF u = l.prev[t] THEN l.next[t] ELSE @[u]],
            !.prev = [u \in Timers |->
                        IF u = t THEN NoTimer
                        ELSE IF u = l.next[t] THEN l.prev[t] ELSE @[u]]]

\* The list from its head, as far as it goes.
Chain(l) ==
    LET node[i \in 1 .. Cardinality(Timers) + 1] ==
          IF i = 1 THEN l.head
          ELSE IF node[i - 1] = NoTimer THEN NoTimer ELSE l.next[node[i - 1]]
    IN  node

\* timer_enable's walk ends at the first timer not sooner, or at the last.
Stop(l, t, u) == l.ts[t] <= l.ts[u] \/ l.next[u] = NoTimer
WalkEnd(l, t) ==
    LET c == Chain(l)
        i == CHOOSE i \in DOMAIN c :
               /\ c[i] # NoTimer /\ Stop(l, t, c[i])
               /\ \A j \in 1 .. i - 1 : ~Stop(l, t, c[j])
    IN  c[i]

\* Seeded fault: a new head leaves the target alone.
InsertBeforeKeepsTarget(l, t, u) ==
    [l EXCEPT
       !.prev = [@ EXCEPT ![t] = l.prev[u], ![u] = t],
       !.next = [v \in Timers |-> IF v = t THEN u
                                  ELSE IF v = l.prev[u] THEN t ELSE @[v]],
       !.head = IF l.prev[u] = NoTimer THEN t ELSE @]
InsertBefore(l, t, u) ==
    [l EXCEPT
       !.prev = [@ EXCEPT ![t] = l.prev[u], ![u] = t],
       !.next = [v \in Timers |-> IF v = t THEN u
                                  ELSE IF v = l.prev[u] THEN t ELSE @[v]],
       !.head = IF l.prev[u] = NoTimer THEN t ELSE @,
       !.target = IF l.prev[u] = NoTimer THEN l.ts[t] ELSE @]
InsertAfter(l, t, u) == [l EXCEPT !.next[u] = t, !.prev[t] = u]

\* timer_enable.
Enable(l, t) ==
    LET off == IF l.enabled[t] THEN Disable(l, t) ELSE l
        on == [off EXCEPT !.enabled[t] = TRUE]
        u == WalkEnd(off, t)
    IN  IF off.head = NoTimer
        THEN [on EXCEPT !.head = t, !.next[t] = NoTimer, !.prev[t] = NoTimer,
                        !.target = off.ts[t]]
        ELSE IF off.ts[t] <= off.ts[u] THEN InsertBefore(on, t, u)
        ELSE InsertAfter(on, t, u)

\* timer_remove_head, of a list with more than one timer.
\* Seeded fault: the timer is still marked as enabled.
RemoveHeadKeepsEnabled(l) ==
    LET t == l.head IN
    [l EXCEPT !.head = l.next[t], !.prev[l.next[t]] = NoTimer,
              !.next[t] = NoTimer]
RemoveHead(l) ==
    LET t == l.head IN
    [l EXCEPT !.head = l.next[t], !.prev[l.next[t]] = NoTimer,
              !.next[t] = NoTimer, !.enabled[t] = FALSE]

\* Bit 31 of a delay in cycles is its sign.
Signed(d) == IF d >= Half THEN d - 2 * Half ELSE d
\* timer_set_delay_u64, timer_advance_u64.
SetDelay(l, t, d) == Enable([l EXCEPT !.ts[t] = l.tsc + Signed(d)], t)
Advance(l, t, d) == Enable([l EXCEPT !.ts[t] = @ + Signed(d)], t)
DoPeriod(l, t, d, start) == IF start THEN SetDelay(l, t, d) ELSE Advance(l, t, d)

\* timer_advance_ex.
\* Seeded fault: a split period is not marked as one.
AdvanceExUnmarked(l, t, start) ==
    LET p == l.period[t] IN
    IF p > MaxPeriod
    THEN [DoPeriod(l, t, MaxPeriod, start) EXCEPT !.period[t] = p - MaxPeriod]
    ELSE [IF p > 0 THEN DoPeriod(l, t, p, start) ELSE Disable(l, t)
            EXCEPT !.period[t] = 0, !.split[t] = FALSE]
AdvanceEx(l, t, start) ==
    LET p == l.period[t] IN
    IF p > MaxPeriod
    THEN [DoPeriod(l, t, MaxPeriod, start) EXCEPT !.period[t] = p - MaxPeriod,
                                                  !.split[t] = TRUE]
    ELSE [IF p > 0 THEN DoPeriod(l, t, p, start) ELSE Disable(l, t)
            EXCEPT !.period[t] = 0, !.split[t] = FALSE]

\* timer_stop, timer_on_auto.
StopTimer(l, t) ==
    [Disable(l, t) EXCEPT !.period[t] = 0, !.split[t] = FALSE,
                          !.inCallback[t] = FALSE]
OnAuto(l, t, p) ==
    IF p > 0
    THEN AdvanceEx([l EXCEPT !.period[t] = p], t,
                   l.period[t] = 0 /\ ~l.inCallback[t])
    ELSE StopTimer(l, t)

\* timer_add: the structure is cleared, and started with no delay.
AddTimer(l, t, start) ==
    LET clear == [l EXCEPT
          !.next[t] = NoTimer, !.prev[t] = NoTimer, !.enabled[t] = FALSE,
          !.split[t] = FALSE, !.inCallback[t] = FALSE,
          !.ts[t] = 0, !.period[t] = 0]
    IN  IF start THEN SetDelay(clear, t, 0) ELSE clear

\* timer_close: clearing a timer's links before following them, it only
\* reaches the first.
Close(l) ==
    LET first == [l EXCEPT !.next[l.head] = NoTimer, !.prev[l.head] = NoTimer]
    IN  [IF l.head = NoTimer THEN l ELSE first
           EXCEPT !.head = NoTimer, !.inited = FALSE]

\* timer_set_new_tsc.
NewTsc(l, n) ==
    IF l.head = NoTimer THEN [l EXCEPT !.tsc = n]
    ELSE LET c == Chain(l)
             linked == {c[i] : i \in DOMAIN c}
         IN  [l EXCEPT
                !.tsc = n, !.target = n + (l.ts[l.head] - l.tsc),
                !.ts = [t \in Timers |-> IF t \in linked
                                         THEN n + (@[t] - l.tsc) ELSE @[t]]]
-----------------------------------------------------------------------------
Init ==
    /\ q = [tsc |-> 0, target |-> 0, inited |-> TRUE, head |-> NoTimer,
            next |-> [t \in Timers |-> NoTimer],
            prev |-> [t \in Timers |-> NoTimer],
            enabled |-> [t \in Timers |-> FALSE],
            split |-> [t \in Timers |-> FALSE],
            inCallback |-> [t \in Timers |-> FALSE],
            ts |-> [t \in Timers |-> 0], period |-> [t \in Timers |-> 0]]
    /\ phase = "boot" /\ running = NoTimer /\ added = {}

\* The devices are created: each adds its timers.
Add(t) ==
    /\ phase = "boot" /\ t \notin added
    /\ \E start \in IF t \in Perpetual THEN {TRUE} ELSE {FALSE, t \notin Periodic} :
         q' = AddTimer(q, t, start)
    /\ added' = added \cup {t}
    /\ UNCHANGED <<phase, running>>
Booted ==
    phase = "boot" /\ added = Timers /\ phase' = "cpu" /\ UNCHANGED <<q, running, added>>

\* The CPU executes a block, then compares the clock with the target.
\* Seeded fault: at the target it does not call timer_process yet.
AtTargetNotYet(l) ==
    IF l.target < l.tsc /\ l.head # NoTimer THEN "process" ELSE "cpu"
AtTarget(l) ==
    IF l.target <= l.tsc /\ l.head # NoTimer THEN "process" ELSE "cpu"
Run ==
    /\ phase = "cpu"
    /\ \E n \in 1 .. MaxBlock :
         q.tsc + n <= MaxTsc /\ q' = [q EXCEPT !.tsc = @ + n]
    /\ phase' = AtTarget(q')
    /\ UNCHANGED <<running, added>>

\* timer_process: the head is due.  A part of a split period goes on with the
\* next part; any other timer's callback is called.  timer_remove_head follows
\* the NULL after the last timer of the list.
Due == phase = "process" /\ q.head # NoTimer /\ q.ts[q.head] <= q.tsc
Crash == phase' = "crashed" /\ UNCHANGED <<q, running>>
ProcessPart ==
    /\ Due /\ q.split[q.head]
    /\ IF q.next[q.head] = NoTimer THEN Crash
       ELSE /\ q' = AdvanceEx(RemoveHead(q), q.head, FALSE)
            /\ UNCHANGED <<phase, running>>
    /\ UNCHANGED added
ProcessCall ==
    /\ Due /\ ~q.split[q.head]
    /\ IF q.next[q.head] = NoTimer THEN Crash
       ELSE /\ q' = [RemoveHead(q) EXCEPT !.inCallback[q.head] = TRUE]
            /\ phase' = "callback" /\ running' = q.head
    /\ UNCHANGED added
\* The head is not due.  (A callback that left no timer at all ends in a NULL.)
ProcessEnd ==
    /\ phase = "process"
    /\ IF q.head = NoTimer THEN Crash
       ELSE /\ q.ts[q.head] > q.tsc
            /\ q' = [q EXCEPT !.target = q.ts[q.head]]
            /\ phase' = "cpu" /\ UNCHANGED running
    /\ UNCHANGED added

CallbackReturns ==
    /\ phase = "callback"
    /\ running \in Perpetual => q.enabled[running]
    /\ q' = [q EXCEPT !.inCallback[running] = FALSE]
    /\ phase' = "process" /\ running' = NoTimer
    /\ UNCHANGED added

\* What a device calls, from an instruction or from a callback.  While a long
\* period runs it sticks to timer_on_auto and timer_stop: timer_disable would
\* leave the timer marked as split.
Devices(l) ==
    phase \in {"cpu", "callback"} /\ q' = l /\ UNCHANGED <<phase, running, added>>
Delay(t) ==
    ~q.split[t] /\ \E d \in 1 .. MaxDelay : Devices(SetDelay(q, t, d))
\* "Used to resume a recurring timer in a callback routine."
Resume(t) ==
    /\ t = running /\ ~q.split[t]
    /\ \E d \in 1 .. MaxDelay :
         q.ts[t] + d <= MaxTime /\ Devices(Advance(q, t, d))
Cease(t) == t \notin Perpetual /\ ~q.split[t] /\ Devices(Disable(q, t))
On(t) ==
    t \in Periodic /\ \E p \in 0 .. MaxAuto :
      q.ts[t] + p <= MaxTime /\ Devices(OnAuto(q, t, p))
Halt(t) == t \in Periodic /\ Devices(StopTimer(q, t))

\* The guest writes the TSC; the target is looked at after this instruction too.
WriteTsc ==
    /\ phase = "cpu"
    /\ \E n \in 0 .. MaxTsc :
         /\ \A t \in Timers : q.enabled[t] => q.ts[t] + n - q.tsc <= MaxTime
         /\ q' = NewTsc(q, n)
    /\ phase' = AtTarget(q')
    /\ UNCHANGED <<running, added>>

\* A hard reset: timer_close, and later timer_init.
HardReset ==
    /\ phase = "cpu"
    /\ q' = Close(q)
    /\ phase' = "off" /\ added' = {} /\ UNCHANGED running
PowerOn ==
    /\ phase = "off"
    /\ q' = [q EXCEPT !.tsc = 0, !.target = 0, !.inited = TRUE]
    /\ phase' = "boot" /\ UNCHANGED <<running, added>>

Next ==
    \/ Booted \/ Run \/ ProcessPart \/ ProcessCall \/ ProcessEnd
    \/ CallbackReturns \/ WriteTsc \/ HardReset \/ PowerOn
    \/ \E t \in Timers :
         Add(t) \/ Delay(t) \/ Resume(t) \/ Cease(t) \/ On(t) \/ Halt(t)

Spec == Init /\ [][Next]_vars
-----------------------------------------------------------------------------
(***************************************************************************)
(* Properties.                                                             *)
(***************************************************************************)

\* Every variable keeps its type, and the list never runs out.
TypeOK ==
    /\ q \in List
    /\ phase \in Phases \ {"crashed"}
    /\ running \in Link /\ (running # NoTimer <=> phase = "callback")
    /\ added \subseteq Timers

\* Whatever the devices call, and from whichever callback: the list from the
\* head holds exactly the enabled timers, soonest first, prev undoes next, and
\* a timer outside it has no links.  (A timer not added yet may hold anything.)
ListOK ==
    LET c == Chain(q)
        on == {t \in added : q.enabled[t]}
    IN  /\ {c[i] : i \in DOMAIN c} = on \cup {NoTimer}
        /\ q.head # NoTimer => q.prev[q.head] = NoTimer
        /\ \A t \in on : q.next[t] # NoTimer =>
             q.prev[q.next[t]] = t /\ q.ts[t] <= q.ts[q.next[t]]
        /\ \A t \in added \ on : q.next[t] = NoTimer /\ q.prev[t] = NoTimer

\* "CPU emulation must call timer_process() when TSC matches or exceeds this":
\* the target is never later than the soonest timer while the CPU runs.
TargetNotLate ==
    phase = "cpu" =>
      \A t \in added : q.enabled[t] => q.target <= q.ts[t]

\* The list implements an alarm clock; the parts of a split period do not show.
Deadline(t) == q.ts[t] + IF q.split[t] THEN q.period[t] ELSE 0
Alarms == INSTANCE AlarmClock WITH
    Alarm <- Timers, NoAlarm <- NoTimer, now <- q.tsc, ringing <- running,
    deadline <- [t \in {u \in added : q.enabled[u]} |-> Deadline(t)]
KeepsTime == Alarms!Spec

\* "Set all timers' prev and next to NULL": after a hard reset no timer points
\* to one that its device may have freed.
CloseUnlinks ==
    [][phase' = "off" =>
         \A t \in Timers : q'.next[t] = NoTimer /\ q'.prev[t] = NoTimer]_vars

\* The CPU goes on, timer_process goes on, callbacks return, and the callback
\* of a perpetual timer sets it again.
FairSpec ==
    /\ Spec
    /\ WF_vars(Run) /\ WF_vars(ProcessPart) /\ WF_vars(ProcessCall)
    /\ WF_vars(ProcessEnd) /\ WF_vars(CallbackReturns)
    /\ WF_vars(\E t \in Perpetual : ~q.enabled[t] /\ Resume(t))

\* A timer whose time has come is served: its callback is called, its next
\* part begins, or a device has stopped it.
Waiting(t) == q.enabled[t] /\ q.ts[t] <= q.tsc /\ phase \in {"cpu", "process", "callback"}
DueIsServed == \A t \in Timers : Waiting(t) ~> ~Waiting(t)
=============================================================================
