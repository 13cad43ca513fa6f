SPECIFICATION Spec
CONSTANTS
    seed = seed
    NoRow = NoRow
    Req = {r1, r2, r3}
    UserId <- MCUserId
    Spelling <- MCSpelling
    Canon <- MCCanon
    WellFormed <- MCWellFormed
    Password <- MCPassword
    RuneCount <- MCRuneCount
    ByteCount <- MCByteCount
    Digest <- MCDigest
    InitialUsers <- Seed
SYMMETRY ReqSymmetry
INVARIANTS
    IInv
    OneIdentityPerEmail
    AnswersBacked
PROPERTIES
    RefusedOnlyStrangers
