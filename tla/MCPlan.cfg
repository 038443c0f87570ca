CONSTANTS
    a = a
    b = b
    c = c
    d = d
    e = e
    Nil = Nil
    Mistake = Mistake
    Name <- MCName
    Jobs <- AllJobs
SPECIFICATION PlanSpec
INVARIANTS
    PlanTypeOK
    
    AccountsBalance
    EachOnce
    MoveOrderRight
    DeletionsApproved
    NoChainCopies
    NoHopelessReplacement
    AbortAllOrNothing
    NoNullDelete
    AppendOrderRight
PROPERTY PlanningEnds
CHECK_DEADLOCK FALSE
