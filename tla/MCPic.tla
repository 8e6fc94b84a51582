------------------------------- MODULE MCPic --------------------------------
(* Instances of the interrupt controllers for TLC: three channels a chip.   *)
EXTENDS Pic, TLC

\* A timer that pulses IRQ 0, two PCI devices that share a level on the slave.
CONSTANTS timer, pci1, pci2

SomeDevices == {timer, pci1, pci2}
SomeHolders == {pci1, pci2}
SomeWire == [d \in SomeDevices |-> IF d = timer THEN <<Master, 0>> ELSE <<Slave, 2>>]
SomeLevel == [i \in Chips |-> IF i = Slave THEN {2} ELSE {}]
AnyMask == {{}, {0}}
Interchangeable == Permutations(SomeHolders)
=============================================================================
