SPECIFICATION FairSpec
CHECK_DEADLOCK FALSE
CONSTANTS
    Kind <- MCKind
    MaxRequests = 3
    MaxLine = 2
INVARIANTS
    TypeOK
    AnswersMatch
    AnsweredOnArrival
    ParserWaits
PROPERTIES
    OnMessageReturns
    CloseIsHonoured
