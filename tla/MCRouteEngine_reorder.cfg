\* The actions of a rule change places between two attempts.
SPECIFICATION SafetySpec
CONSTANTS
    letter = letter
    event = event
    junk = junk
    Msgs = {letter}
    NoMsg = NoMsg
    NoRule = NoRule
    Source <- McSource
    CreatedAt <- McCreatedAt
    Since = 1
    Spam <- McSpam
    RuleIds = {1}
    Docs <- SwapDocs
    InitRules <- McRules
    MaxActions = 2
    MaxAttempts = 2
    MaxCrashes = 0
    MaxDbErrors = 0
    MaxLost = 0
    MaxEdits = 1
    MaxMoves = 0
PROPERTIES OnlyUnfinishedRunAgain
