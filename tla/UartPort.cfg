\* A driver at the port: both modes, both directions, loopback, a carrier.
CONSTANTS
    Depth = 2
    Triggers = {1, 2}
    CharBits = {2}
    BaudWrap = 4
    IerValues <- SomeIer
    McrValues <- SomeMcr
    LineStates <- Carrier
    MaxIn = 3
    MaxOut = 2
    MaxBytes = 3
    Careful = TRUE
SPECIFICATION FairSpec
INVARIANTS TypeOK ReadyIsFresh NoSilentByte IrqAsserted LineChangeTold
PROPERTIES IsByteLine ReceiveServed
CHECK_DEADLOCK FALSE
