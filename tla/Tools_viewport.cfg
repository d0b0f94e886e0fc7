CONSTANTS
    s1 = s1
    s2 = s2
    t1 = t1
    Sessions = {s1, s2}
    Tasks = {t1}
    Nobody = Nobody
    MaxLoops = 1
    Inner = 4
    Margin = 1
    MaxView = 2
    Targets = {0, 5}
SPECIFICATION Spec
INVARIANTS SeenPointsAreHit
