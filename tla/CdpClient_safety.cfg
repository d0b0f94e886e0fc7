CONSTANTS
    c1 = c1
    c2 = c2
    Calls = {c1, c2}
    Sends = {}
    Start = Start
    Ack = Ack
    Frame = Frame
    None = None
    Capacity = 1
    Socket = 1
    MaxAttempts = 1
    MaxConnections = 2
SPECIFICATION Spec
CHECK_DEADLOCK FALSE
SYMMETRY Symmetry
INVARIANTS CdpTypeOK PendingMatchesCalls  ScreencastNotForgotten
PROPERTIES ImplementsCalls
