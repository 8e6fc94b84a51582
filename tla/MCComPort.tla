----------------------------- MODULE MCComPort ------------------------------
(* An instance of the COM port for TLC. *)
EXTENDS ComPort

SomeIer == {{}, {"LSI", "RDA", "THRE", "MSI"}}
OnlyOut2 == {{"OUT2"}}
Carrier == {{}, {"DCD"}}
=============================================================================
