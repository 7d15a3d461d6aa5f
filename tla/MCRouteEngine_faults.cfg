\* A message and an event, rules left alone: a crash, a lost answer, mail that goes.
SPECIFICATION SafetySpec
CONSTANTS
    letter = letter
    event = event
    junk = junk
    Msgs = {letter, event}
    NoMsg = NoMsg
    NoRule = NoRule
    Source <- McSource
    CreatedAt <- McCreatedAt
    Since = 1
    Spam <- McSpam
    RuleIds = {1}
    Docs <- TwoDocs
    InitRules <- McRules
    MaxActions = 2
    MaxAttempts = 2
    MaxCrashes = 1
    MaxDbErrors = 0
    MaxLost = 1
    MaxEdits = 0
    MaxMoves = 1
INVARIANTS TypeOK OnlyDoubtRepeats NoRowForgotten AttemptsAccounted DoneIsComplete NoLostWakeUp
PROPERTIES ImplementsPromise
