\* Mail arrives and goes while the connection, the reports and the bridge fail.
SPECIFICATION Spec
CONSTANTS
    MaxUid = 3
    MaxPerReport = 1
    MaxDeletions = 1
    MaxRecreations = 1
    MaxDrops = 1
    MaxFailures = 1
    MaxRestarts = 1
INVARIANTS TypeOK NoMailOverlooked NothingPassedOver OnlyNewsIsReported ToldMailHasItsEvent
PROPERTIES NewMailIsReported
CHECK_DEADLOCK FALSE
