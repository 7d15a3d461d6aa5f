\* The same mailbox is added twice at a time.
SPECIFICATION Spec
CONSTANTS
    ann = ann
    bob = bob
    Emails = {ann, bob}
    Folders = {"INBOX", "Sent"}
    Imports <- MCImports
    Known <- MCKnown
    None = None
    Torn = Torn
    Slots = {1, 2}
    MaxRequests = 2
    MaxFaults = 0
    MaxCrashes = 0
INVARIANTS OneAccountPerMailbox
CHECK_DEADLOCK FALSE
