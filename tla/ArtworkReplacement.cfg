SPECIFICATION Spec
SYMMETRY Symmetry
CONSTANTS
    o1 = o1
    o2 = o2
    Operators = {o1, o2}
    NumColors = 2
    MaxCommands = 3
    Polls = 2
    EditKinds = {"approved", "placement"}
    Overdue = FALSE
INVARIANTS
    TypeOK
    SoldAsPrinted
    PublishedIsLive
PROPERTIES
    PhotosAreReplaceable
CHECK_DEADLOCK FALSE
