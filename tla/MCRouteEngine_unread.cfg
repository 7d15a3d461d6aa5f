\* The rules cannot be read when a message is claimed.
SPECIFICATION SafetySpec
CONSTANTS
    letter = letter
    event = event
    junk = junk
    Msgs = {letter}
    NoMsg = NoMsg
    NoRule = NoRule
    Source <- McSource
    CreatedAt <- McCreatedAt
    Since = 1
    Spam <- McSpam
    RuleIds = {1}
    Docs <- TwoDocs
    InitRules <- McRules
    MaxActions = 2
    MaxAttempts = 2
    MaxCrashes = 0
    MaxDbErrors = 1
    MaxLost = 0
    MaxEdits = 0
    MaxMoves = 0
INVARIANTS EveryMessageMeetsTheRules
