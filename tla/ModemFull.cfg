\* A DTE that asks for more than the ring holds and then resumes data mode.
CONSTANTS
    LineTcp = TRUE
    Commands <- AskTwice
    Size <- SomeSizes
    OutSize = 5
    CmdSize = 5
    MaxIn = 0
    MaxData = 3
    Paced = TRUE
SPECIFICATION Spec
PROPERTIES CarrierKept
