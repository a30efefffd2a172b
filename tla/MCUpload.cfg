SPECIFICATION Spec
CONSTANTS
    Documents = {1, 2}
    Requests = {3}
    Batches = {b1}
    Nobody = Nobody
    Limit = 2
    MaxRemoved = 1
INVARIANTS
    TypeOK
    ObjectsMatchRows
PROPERTIES
    EventsArePublished
CHECK_DEADLOCK FALSE
