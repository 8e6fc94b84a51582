------------------------------ MODULE ByteLine ------------------------------
(***************************************************************************)
(* What a program expects of the transmitter of a serial port: a bounded   *)
(* queue.  Every byte it takes goes onto the line once, in order, and in   *)
(* the end; nothing else does.                                             *)
(***************************************************************************)
EXTENDS Naturals, Sequences

CONSTANT Capacity

VARIABLES
    queue,      \* the bytes taken and not yet on the line
    taken,      \* how many were taken; they are numbered from 1
    sent        \* the last byte that went onto the line

vars == <<queue, taken, sent>>

Init == queue = <<>> /\ taken = 0 /\ sent = 0

Take ==
    /\ Len(queue) < Capacity
    /\ taken' = taken + 1
    /\ queue' = Append(queue, taken')
    /\ UNCHANGED sent

Send ==
    /\ queue # <<>>
    /\ sent' = Head(queue)
    /\ queue' = Tail(queue)
    /\ UNCHANGED taken

Next == Take \/ Send
Spec == Init /\ [][Next]_vars /\ WF_vars(Send)
=============================================================================
