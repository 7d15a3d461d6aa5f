\* Two requests reconnect the same account at a time.
SPECIFICATION Spec
CONSTANTS
    ann = ann
    bob = bob
    Emails = {ann, bob}
    Folders = {"INBOX", "Sent"}
    Imports <- MCImports
    Known <- MCKnown
    None = None
    Torn = Torn
    Slots = {1, 2}
    MaxRequests = 2
    MaxFaults = 1
    MaxCrashes = 0
PROPERTIES EnsuredIsUsable
CHECK_DEADLOCK FALSE
