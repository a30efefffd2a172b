CONSTANTS
    Rows = {1, 2, 3, 4}
    Times = {1, 2}
    Limits = {1, 2}
    NoRow = NoRow
    MaxChanges = 2
    Organizations = {o1, o2}
    Runs = {1, 2}
    Nowhere = Nowhere
    MaxMoves = 5
SPECIFICATION Spec
INVARIANTS TypeOK PagesAreComplete ConsoleFollowsSelection
CHECK_DEADLOCK FALSE
