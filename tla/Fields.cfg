SPECIFICATION Spec
CONSTANTS
    Absent = Absent
    Null = Null
    BadType = BadType
    Day = {monday}
    Time = {midnight, noon}
    midnight = midnight
    Text <- MCText
    Word <- MCWord
    Canon <- MCCanon
    Body <- MCBody
INVARIANTS
    InternalErrorOnlyForNulOrZone
    FilterFindsWhatWasSet
    AnswerIsTheRow
PROPERTIES
    NothingIsCleared
