CONSTANTS
    Executions <- MCExecutions
    MaxCases = 3
    Unit = 600
    Authorized = {1, 2, 3}
    Home = {1, 2, 3, 4}
    Expected = {1, 2}
    Low = 2
    High = 4
    Required = {"required"}
    Forbidden = {"forbidden"}
    Price <- MCPrice
    Minimum <- MCMinimum
    Maximum <- MCMaximum
    Limit <- MCLimit
SPECIFICATION Spec
INVARIANTS TypeOK VerdictsAgree RegressionsAreReported
PROPERTIES PerfectCasesNeverHurt
CHECK_DEADLOCK FALSE
