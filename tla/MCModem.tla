------------------------------ MODULE MCModem ------------------------------
(* Instances of the modem for TLC. *)
EXTENDS Modem

\* A CONNECT and an information line take more than one byte of the ring.
SomeSizes ==
    [x \in Lines |-> IF x \in {"CONNECT", "INFO"} THEN 2 ELSE 1]

\* Dial, ask and resume (one word more than the command buffer takes), and keep
\* the carrier when DTR falls.
Talk ==
    {<<"AT", "D">>, <<"AT", "I", "O", "?">>, <<"AT", "&D1">>}
\* Two information lines before going back on line.
AskTwice == {<<"AT", "D">>, <<"AT", "I", "I", "O">>}
=============================================================================
