----------------------------- MODULE AlarmClock -----------------------------
(***************************************************************************)
(* What the timers of src/timer.c promise a device: an alarm that is set   *)
(* rings once, not before its deadline, in the order of the deadlines, and *)
(* the emulated machine makes no progress past an alarm that is overdue.   *)
(***************************************************************************)
EXTENDS Integers

CONSTANTS
    Alarm,
    NoAlarm       \* none of them

VARIABLES
    now,        \* the emulated clock
    deadline,   \* the alarms that are set, each with its time
    ringing     \* the alarm a device is being told of, or NoAlarm

vars == <<now, deadline, ringing>>
Armed == DOMAIN deadline
Cleared == [a \in {} |-> 0]

Init == now = 0 /\ deadline = Cleared /\ ringing = NoAlarm

\* The machine runs: nothing is overdue.
Pass ==
    /\ ringing = NoAlarm
    /\ \A a \in Armed : now <= deadline[a]
    /\ now' \in Int /\ now' > now
    /\ UNCHANGED <<deadline, ringing>>

\* A device sets an alarm; only the one that rings, or one that was set
\* already, may be set for a time that has passed.
Set(a) ==
    /\ DOMAIN deadline' = Armed \cup {a}
    /\ deadline'[a] \in Int
    /\ a \in Armed \cup {ringing} \/ deadline'[a] >= now
    /\ \A b \in Armed \ {a} : deadline'[b] = deadline[b]
    /\ UNCHANGED <<now, ringing>>

Cancel(a) ==
    /\ a \in Armed
    /\ deadline' = [b \in Armed \ {a} |-> deadline[b]]
    /\ UNCHANGED <<now, ringing>>

\* The earliest alarm, when its time has come.
Ring(a) ==
    /\ ringing = NoAlarm /\ a \in Armed
    /\ deadline[a] <= now
    /\ \A b \in Armed : deadline[a] <= deadline[b]
    /\ deadline' = [b \in Armed \ {a} |-> deadline[b]]
    /\ ringing' = a
    /\ now' = now

Silence ==
    ringing # NoAlarm /\ ringing' = NoAlarm /\ UNCHANGED <<now, deadline>>

\* The clock is set; what is left of every alarm stays the same.
SetClock ==
    /\ ringing = NoAlarm
    /\ now' \in Int
    /\ deadline' = [a \in Armed |-> deadline[a] + (now' - now)]
    /\ ringing' = ringing

\* The machine is reset.
Reset ==
    ringing = NoAlarm /\ deadline' = Cleared /\ ringing' = NoAlarm /\ now' \in Int

Next ==
    \/ Pass \/ Silence \/ SetClock \/ Reset
    \/ \E a \in Alarm : Set(a) \/ Cancel(a) \/ Ring(a)

Spec == Init /\ [][Next]_vars
=============================================================================
