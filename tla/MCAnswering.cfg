SPECIFICATION Spec
CONSTANTS
    Questions = {q1, q2}
    Documents = {d1}
    RetrievalDays = 1
    AnswerDays = 2
    MaxDay = 2
    MaxChanges = 1
SYMMETRY Symmetry
INVARIANTS
    TypeOK
    PassagesWereReadable
    TracesStayComplete
    DailyMetricsAreComplete
CHECK_DEADLOCK FALSE
