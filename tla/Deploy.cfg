SPECIFICATION FairSpec
CONSTANT MaxTries = 2
INVARIANTS
    IInv
    CleanVersionIsTrue
    ApiHasItsSchema
    EveryFileApplies
PROPERTIES
    CommandsEnd
