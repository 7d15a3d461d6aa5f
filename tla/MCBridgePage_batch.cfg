\* A selection outlives the list it was made in.
SPECIFICATION Spec
CONSTANTS
    a = a
    b = b
    None = None
    Inbox = "INBOX"
    Lists <- MCLists
    Contents <- MCContents
    Connected <- MCConnected
    Views <- MCViews
    Found = {1, 3}
    PageSize = 1
    MaxClicks = 3
    MaxChanges = 0
    MaxTicks = 0
    MaxFaults = 0
    MaxAll = 3
    MaxCalls = 2
PROPERTIES BatchIsOfTheSelected
CHECK_DEADLOCK FALSE
