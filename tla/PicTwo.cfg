\* Two chips, three devices, nested handlers, polls and initialisations.
CONSTANTS
    timer = timer
    pci1 = pci1
    pci2 = pci2
    Last = 2
    Cascade = 1
    Level <- SomeLevel
    Devices <- SomeDevices
    Wire <- SomeWire
    Holders <- SomeHolders
    Masks <- AnyMask
    Rotations = {TRUE, FALSE}
    AutoEois = {TRUE, FALSE}
    LineWrap = 4
    MaxDepth = 2
SPECIFICATION Spec
SYMMETRY Interchangeable
INVARIANTS TypeOK ServiceMatchesStack IntIsExact LevelFollowsLines
PROPERTIES RequestStands OnlyTheHighest
CHECK_DEADLOCK FALSE
