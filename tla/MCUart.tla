------------------------------- MODULE MCUart -------------------------------
(* Instances of the UART for TLC. *)
EXTENDS Uart

\* What a driver writes to IER and MCR, and what a modem's carrier does.
SomeIer == {{}, {"LSI", "RDA", "THRE", "MSI"}}
SomeMcr == {{"OUT2"}, {"LOOP", "OUT2"}}
Carrier == {{}, {"DCD"}}
=============================================================================
