----------------------------- MODULE PacketPipe -----------------------------
(***************************************************************************)
(* What either direction of an emulated network card promises of the       *)
(* packets it has accepted: they come out once each and in order, and      *)
(* those it drops are the oldest it holds, dropped while it may.           *)
(***************************************************************************)
EXTENDS Naturals, Sequences

CONSTANT Capacity

VARIABLES
    queue,      \* the packets accepted and not yet out
    taken,      \* the last one accepted; the numbers of packets grow
    out,        \* the last one that came out
    mayDrop

vars == <<queue, taken, out>>

Init == queue = <<>> /\ taken = 0 /\ out = 0

Take ==
    /\ Len(queue) < Capacity
    /\ taken' > taken
    /\ queue' = Append(queue, taken')
    /\ UNCHANGED out

Leave ==
    /\ queue # <<>>
    /\ out' = Head(queue)
    /\ queue' = Tail(queue)
    /\ UNCHANGED taken

Drop ==
    /\ mayDrop
    /\ \E n \in 1 .. Len(queue) : queue' = SubSeq(queue, n + 1, Len(queue))
    /\ UNCHANGED <<taken, out>>

Next == Take \/ Leave \/ Drop
Spec == Init /\ [][Next]_vars
=============================================================================
