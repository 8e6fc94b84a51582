\* A listener with three peers, two of which fail while it relays the third.
CONSTANTS
    c0 = c0
    c1 = c1
    c2 = c2
    c3 = c3
    pc1 = pc1
    pc2 = pc2
    k1 = k1
    k2 = k2
    k3 = k3
    k4 = k4
    None = None
    Cabinet = {c0, c1, c2, c3}
    Conn = {k1, k2, k3}
    Site <- OnePC
    Dials <- OnePC
    Role <- OneHost
    Talkers = {c1, c2, c3}
    Echo = TRUE
    MaxPeers = 3
    RxSize = 2
    TxSize = 1
    SockCap = 1
    Backlog = 3
    MaxBytes = 1
    MaxFaults = 2
    PromptNet = FALSE
SPECIFICATION FormedSpec
PROPERTIES ListenerStays
