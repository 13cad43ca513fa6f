SPECIFICATION AccessSpec
CONSTANTS
    u1 = u1  u2 = u2  u3 = u3
    p1 = p1  p2 = p2
    t1 = t1  t2 = t2
    Nil = Nil
    NoRow = NoRow
    UserId <- MCUserId
    ProjectId <- MCProjectId
    TaskId <- MCTaskId
    Name <- MCName
    Req = {r1, r2, r3}
    InitialStores <- AssignedElsewhere
    Calls <- RaceAndAccessCalls
SYMMETRY ReqSymmetry
INVARIANTS
    IInv
    ReferentialIntegrity
    AckedTaskSurvives
    EachRowDeletedOnce
    DraftBuiltOnCommitted
    AccessDecidedAsOne
PROPERTIES
    PatchKeepsOtherColumns
