\* A connection ends while it selects the INBOX.
SPECIFICATION Spec
CONSTANTS
    MaxUid = 2
    MaxPerReport = 1
    MaxDeletions = 0
    MaxRecreations = 0
    MaxDrops = 1
    MaxFailures = 0
    MaxRestarts = 0
INVARIANTS KeepsWatching
CHECK_DEADLOCK FALSE
