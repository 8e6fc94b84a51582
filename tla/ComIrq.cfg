\* A port that is served by interrupts: bytes both ways and a carrier.
CONSTANTS
    Depth = 2
    Triggers = {2}
    CharBits = {2}
    BaudWrap = 4
    IerValues <- SomeIer
    McrValues <- OnlyOut2
    LineStates <- Carrier
    MaxIn = 2
    MaxOut = 1
    MaxBytes = 2
    Careful = TRUE
SPECIFICATION ComSpec
INVARIANTS EdgeLatched
PROPERTIES ComesToRest
CHECK_DEADLOCK FALSE
