SPECIFICATION FairSpec
CONSTANTS
    x = x y = y p = p q = q
    Block = Block
    Address = {x, y}
    App = {p, q}
    Writes <- MCWrites
    Fixed <- MCFixed
    Loose <- MCLoose
    MaxFileLines = 1
    ReadMax = 2
    MaxCrash = 1
    MaxDown = 1
    MaxRepeat = 1
    MaxRequest = 2
CHECK_DEADLOCK FALSE
INVARIANTS TypeOK NoEventSkipped RepeatsOnlyAfterFault
PROPERTY EventsArrive
