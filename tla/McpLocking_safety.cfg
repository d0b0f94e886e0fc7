CONSTANTS
    s1 = s1
    s2 = s2
    t1 = t1
    t2 = t2
    i1 = i1
    Sessions = {s1, s2}
    Tasks = {t1, t2}
    Instances = {i1}
    Reaper = Reaper
    NoLock = NoLock
    NoRequest = NoRequest
    NoTool = NoTool
SPECIFICATION MSpec
SYMMETRY Symmetry
INVARIANTS McpTypeOK DeadSessionsHoldNothing
PROPERTIES ToolsEnterWithAccess
