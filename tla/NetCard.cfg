\* One card, both directions, a link that fails and comes back, and a close.
CONSTANTS
    QueueLen = 3
    EventMax = 2
    MaxTx = 3
    MaxRx = 3
    MaxLink = 1
SPECIFICATION FairSpec
INVARIANTS TypeOK Exclusive NoLostWakeup
PROPERTIES TxIsPipe RxIsPipe Settles
CHECK_DEADLOCK FALSE
