CONSTANTS
    c1 = c1
    Calls = {c1}
    Sends = {}
    Start = Start
    Ack = Ack
    Frame = Frame
    None = None
    Capacity = 1
    Socket = 1
    MaxAttempts = 1
    MaxConnections = 2
SPECIFICATION FairSpec
CHECK_DEADLOCK FALSE
PROPERTIES CallsEnd ReaderReturns LoopsStop
