CONSTANTS
    c1 = c1
    c2 = c2
    bus = bus
    car = car
    tree = tree
    Cells = {c1, c2}
    Images = {bus, car, tree}
    Targets = {bus, car}
    Unseen = Unseen
    MaxRounds = 3
    Capacity = 2
SPECIFICATION Spec
CHECK_DEADLOCK FALSE
INVARIANTS OnlyNewTilesAreClicked
