\* A spam message, restored or removed, while two rules are edited, replaced and deleted.
SPECIFICATION Spec
CONSTANTS
    letter = letter
    event = event
    junk = junk
    Msgs = {junk}
    NoMsg = NoMsg
    NoRule = NoRule
    Source <- McSource
    CreatedAt <- McCreatedAt
    Since = 1
    Spam <- McSpam
    RuleIds = {1, 2}
    Docs <- EditDocs
    InitRules <- EditRules
    MaxActions = 2
    MaxAttempts = 2
    MaxCrashes = 1
    MaxDbErrors = 1
    MaxLost = 0
    MaxEdits = 1
    MaxMoves = 2
INVARIANTS DoneTookEffect
PROPERTIES MatchedOnlyShrinks EveryMessageSettles
CHECK_DEADLOCK FALSE
