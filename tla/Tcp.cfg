SPECIFICATION FairSpec
CONSTANTS
    SeqSpace = 32
    MSS = 2
    TCP_WND = 6
    TCP_SND_BUF = 4
    TCP_MAXRTX = 2
    TCP_SYNMAXRTX = 1
    Client = "client"
    Server = "server"
    Scenarios <- Passing
CHECK_DEADLOCK FALSE
INVARIANTS StreamIntact SendQueuesSound EndIsClean
PROPERTIES OoseqSound WindowKept EverythingArrives PcbsEnd
