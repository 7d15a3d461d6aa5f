\* A crash between an action and its save.
SPECIFICATION SafetySpec
CONSTANTS
    letter = letter
    event = event
    junk = junk
    Msgs = {letter}
    NoMsg = NoMsg
    NoRule = NoRule
    Source <- McSource
    CreatedAt <- McCreatedAt
    Since = 1
    Spam <- McSpam
    RuleIds = {1}
    Docs <- TwoDocs
    InitRules <- McRules
    MaxActions = 2
    MaxAttempts = 2
    MaxCrashes = 1
    MaxDbErrors = 0
    MaxLost = 0
    MaxEdits = 0
    MaxMoves = 0
INVARIANTS RestartNeverRepeats
