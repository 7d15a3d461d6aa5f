\* Requests that share a connection, connections that drop, crashes and restarts.
SPECIFICATION FairSpec
CONSTANTS
    ann = ann
    bob = bob
    Emails = {ann, bob}
    Folders = {"INBOX", "Sent"}
    Imports <- MCImports
    Known <- MCKnown
    None = None
    Torn = Torn
    Slots = {1, 2}
    MaxRequests = 3
    MaxFaults = 2
    MaxCrashes = 1
INVARIANTS TypeOK CommandsKeepTheirFolder ConfirmedSurvives
PROPERTIES EveryRequestAnswered
CHECK_DEADLOCK FALSE
