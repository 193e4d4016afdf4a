SPECIFICATION CoreSpec
CONSTANTS
    Nodes = {1, 2, 3, 4, 5, 6}
    Parents <- Diamond
    Unknown = 0
    NodeOrder <- Four
    ParentLists <- UpToTwo
    Keys = {a, b, c}
    Values = {1, 2}
    Capacities = {0, 1, 2, 3}
    MaxNesting = 2
    head = head
    tail = tail
    Nil = Nil
    Nothing = Nothing
    Types = {"none", "fixed", "exponential", "Fixed", "other"}
    Amounts <- AllAmounts
    Attempts = {0, 1, 4}
    Unset = Unset
    MAX_DELAY_SECONDS = 5
    ExponentCap = 2
INVARIANTS
    PendingExact
    NoStall
    AnswerIsRight
    ListIsSound
    BudgetIsAsked
PROPERTIES
    DeltaIsExact
    GraphIsJudged
    ImplementsRecency
    BackoffNeverShrinks
CHECK_DEADLOCK FALSE
