\* Two mails, two lists of files, late answers and timers, a reload.
SPECIFICATION Spec
CONSTANTS
    large = large
    huge = huge
    Files = {large, huge}
    Size <- MCSize
    MaxFile = 2
    MaxTotal = 3
    Lists <- MCLists
    None = None
    MaxOpens = 2
    MaxTexts = 2
    MaxPicks = 2
    MaxSends = 2
    MaxFaults = 1
    MaxReloads = 1
INVARIANTS TypeOK WindowShowsItsMail SentAsTold DraftKeepsUp
CHECK_DEADLOCK FALSE
