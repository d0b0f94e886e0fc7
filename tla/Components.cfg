CONSTANTS
    peer = peer
    player = player
    Peers = {peer}
    Players = {player}
    EncodeQueue = 2
    BroadcastSize = 2
    Mtu = 4
    RtpHeader = 1
    FuHeader = 1
    Descriptor = 1
    Structure = 1
    SeqNumbers = 8
    Timestamps = 5
    Tick = 2
    NalSizes = {1, 3, 4, 6}
    FrameSizes = {0, 1, 2, 3, 7}
    MaxFrames = 3
    SignalingSize = 2
    MaxOffers = 2
    MaxRemote = 3
    MaxLocal = 3
    m1 = m1
    m2 = m2
    Callers = {m1, m2}
    MaxShots = 2
    MaxEntries = 2
    MaxPage = 2
    MaxMessages = 2
    TotalShots = 3
    TotalMessages = 3
    Nothing = Nothing
    p1 = p1
    p2 = p2
    p3 = p3
    Procs = {p1, p2, p3}
    NoProc = NoProc
    s1 = s1
    s2 = s2
    t1 = t1
    t2 = t2
    Sessions = {s1, s2}
    Tasks = {t1, t2}
    Nobody = Nobody
    MaxLoops = 1
    Inner = 4
    Margin = 1
    MaxView = 2
    Targets = {0, 5}
SPECIFICATION MCSpec
SYMMETRY Symmetry
CHECK_DEADLOCK FALSE
INVARIANTS
    RequestNotForgotten  FramesArriveWhole CandidatesInOrder AnswerBeforeCandidates
    MemoryTypeOK IndexNeverOlder ReportedOnce NothingLeftBehind
    ToolsTypeOK  
PROPERTIES RecordedIsSwept
