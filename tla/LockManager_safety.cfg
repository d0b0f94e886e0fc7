CONSTANTS
    s1 = s1
    s2 = s2
    t1 = t1
    t2 = t2
    t3 = t3
    i1 = i1
    Sessions = {s1, s2}
    Tasks = {t1, t2, t3}
    Instances = {i1}
    Reaper = Reaper
    NoLock = NoLock
    NoRequest = NoRequest
SPECIFICATION Spec
SYMMETRY Symmetry
INVARIANTS TypeOK WaitersAreLive LocksCompatible
PROPERTIES NoOvertaking ImplementsLeases
