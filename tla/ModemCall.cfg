\* A DTE that dials, talks, escapes, resumes and hangs up.
CONSTANTS
    LineTcp = TRUE
    Commands <- Talk
    Size <- SomeSizes
    OutSize = 5
    CmdSize = 4
    MaxIn = 1
    MaxData = 4
    Paced = TRUE
SPECIFICATION FairSpec
INVARIANTS TypeOK LineConsistent CarrierAfterConnect Transparent
PROPERTIES EscapeMeant CarrierKept CallResolves
