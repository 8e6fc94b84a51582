\* One host and two joined cabinets, one fault; the guest of c1 transmits.
CONSTANTS
    c0 = c0
    c1 = c1
    c2 = c2
    c3 = c3
    pc1 = pc1
    pc2 = pc2
    k1 = k1
    k2 = k2
    k3 = k3
    k4 = k4
    None = None
    Cabinet = {c0, c1, c2}
    Conn = {k1, k2, k3}
    Site <- OnePC
    Dials <- OnePC
    Role <- OneHost
    Talkers = {c1}
    Echo = TRUE
    MaxPeers = 2
    RxSize = 2
    TxSize = 1
    SockCap = 2
    Backlog = 2
    MaxBytes = 2
    MaxFaults = 1
    PromptNet = FALSE
SPECIFICATION FormedSpec
SYMMETRY ConnSymmetry
INVARIANTS TypeOK StateMatchesSockets TableIsExact HearsInOrder SplitHorizon
PROPERTIES ListenerStays
