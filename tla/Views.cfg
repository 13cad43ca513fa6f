SPECIFICATION Spec
CONSTANTS
    u1 = u1  u2 = u2
    p1 = p1  p2 = p2
    t1 = t1  t2 = t2  t3 = t3
    Nil = Nil
    NoRow = NoRow
    Absent = Absent
    Width = 16
    UserId <- MCUserId
    ProjectId <- MCProjectId
    TaskId <- MCTaskId
    Name <- MCName
    InitialStores <- Seed
    Rows <- MCRows
    Asks <- MCAsks
INVARIANTS
    IInv
    HalvesAgree
PROPERTIES
    RefusedOnlyUnlisted
