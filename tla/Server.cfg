CONSTANTS
    dev = dev
    i2 = i2
    i3 = i3
    r1 = r1
    r2 = r2
    Ids = {dev, i2, i3}
    Dev = dev
    Requests = {r1, r2}
    MaxInstances = 1
    Nobody = Nobody
    s1 = s1
    video = video
    t1 = t1
    t2 = t2
    c1 = c1
    p1 = p1
    reaper = reaper
    Sids = {s1}
    Tracks = {video}
    Senders = {t1, t2}
    Clients = {c1}
    Ports = {p1}
    Tcp = Tcp
    Reapers = {reaper}
    Run = Run
    None = None
SPECIFICATION MCSpec
CHECK_DEADLOCK FALSE
INVARIANTS LimitNearlyKept RtspTypeOK SendersBelong
PROPERTIES SupervisorEnds ShutdownEnds SendersEnd ExpiredSessionsEnd
