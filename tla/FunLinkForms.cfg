\* Two AUTO cabinets on one machine, silent guests, two faults.
CONSTANTS
    c0 = c0
    c1 = c1
    c2 = c2
    c3 = c3
    pc1 = pc1
    pc2 = pc2
    k1 = k1
    k2 = k2
    k3 = k3
    k4 = k4
    None = None
    Cabinet = {c1, c2}
    Conn = {k1, k2, k3}
    Site <- OnePC
    Dials <- OnePC
    Role <- AllAuto
    Talkers = {}
    Echo = TRUE
    MaxPeers = 2
    RxSize = 2
    TxSize = 1
    SockCap = 1
    Backlog = 2
    MaxBytes = 1
    MaxFaults = 2
    PromptNet = TRUE
SPECIFICATION FairSpec
PROPERTIES BusForms
