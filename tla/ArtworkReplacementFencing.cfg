SPECIFICATION Spec
SYMMETRY Symmetry
CONSTANTS
    o1 = o1
    o2 = o2
    Operators = {o1, o2}
    NumColors = 1
    MaxCommands = 3
    Polls = 1
    EditKinds = {}
    Overdue = TRUE
PROPERTIES
    LeaseFences
CHECK_DEADLOCK FALSE
