----------------------------- MODULE MCFunLink -----------------------------
(* Instances of the fun.link bus for TLC. *)
EXTENDS FunLink, TLC

CONSTANTS c0, c1, c2, c3, pc1, pc2, k1, k2, k3, k4

\* Everybody on one machine, over the loopback.
OnePC == [c \in Cabinet |-> pc1]
FirstPC == [c \in Cabinet |-> pc1]
\* c0 hosts, the others join.
OneHost == [c \in Cabinet |-> IF c = c0 THEN "HOST" ELSE "JOIN"]
AllAuto == [c \in Cabinet |-> "AUTO"]

\* A bus that has formed: c0 hosts and every other cabinet is in its table.
\* Reached from Init when each in turn dials, is answered, accepted and joins.
Joined == CHOOSE s \in [1 .. Cardinality(Cabinet) - 1 -> Cabinet \ {c0}] :
            \A i, j \in DOMAIN s : i # j => s[i] # s[j]
Links == CHOOSE s \in [DOMAIN Joined -> Conn] :
           \A i, j \in DOMAIN s : i # j => s[i] # s[j]
FormedInit ==
    /\ state = [c \in Cabinet |-> IF c = c0 THEN "LISTENING" ELSE "CLIENT"]
    /\ hold = [c \in Cabinet |-> FALSE]
    /\ listener = [c \in Cabinet |-> c = c0]
    /\ peer = [c \in Cabinet |->
                 IF c = c0 THEN Links
                 ELSE <<Links[CHOOSE i \in DOMAIN Joined : Joined[i] = c]>>]
    /\ net = [k \in Conn |->
                IF k \in SeqMembers(Links)
                THEN [FreeConn EXCEPT !.c = "open", !.s = "open", !.srv = c0,
                        !.cli = Joined[CHOOSE i \in DOMAIN Links : Links[i] = k]]
                ELSE FreeConn]
    /\ port = [p \in PC |-> c0]
    /\ backlog = [p \in PC |-> <<>>]
    /\ rx = [c \in Cabinet |-> <<>>] /\ tx = [c \in Cabinet |-> <<>>]
    /\ at = [c \in Cabinet |-> Out]
    /\ sent = [c \in Cabinet |-> 0]
    /\ heard = [c \in Cabinet |-> [o \in Cabinet |-> <<>>]]
    /\ faults = 0
FormedSpec == FormedInit /\ [][Next]_vars

ConnSymmetry == Permutations(Conn)
=============================================================================
