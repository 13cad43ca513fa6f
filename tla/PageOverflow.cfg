SPECIFICATION MCSpec
CONSTANTS
    Width = 9
    Absent = Absent
    Params <- MCParams
    Sizes <- MCSizes
    Row = {x1, x2, x3, x4}
    Stamp <- MCStamp
    limit = 2
    MaxChanges = 3
SYMMETRY RowSymmetry
INVARIANTS
    EveryPageAccepted
