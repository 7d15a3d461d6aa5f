\* A query made while a restored mail is being moved.
SPECIFICATION Spec
CONSTANTS
    a = a
    b = b
    None = None
    Boxes <- MCBoxes
    Mails <- MCMails
    Home <- MCHome
    Contents <- MCContents
    Views <- MCViews
    PageSize = 1
    MaxPage = 2
    MaxClicks = 3
    MaxTicks = 0
    MaxFaults = 0
    MaxCalls = 2
INVARIANTS NewestQueryStands
CHECK_DEADLOCK FALSE
