\* Two mailboxes, late and failing replies, auto-refresh.
SPECIFICATION Spec
CONSTANTS
    a = a
    b = b
    None = None
    Boxes <- MCBoxes
    Mails <- MCMails
    Home <- MCHome
    Contents <- MCContents
    Views <- MCViews
    PageSize = 1
    MaxPage = 2
    MaxClicks = 3
    MaxTicks = 1
    MaxFaults = 1
    MaxCalls = 2
INVARIANTS TypeOK ShownBelongsToMailbox DetailIsTheOneOpened SpinnersAreOwned
PROPERTIES RefreshUndoesNothing
CHECK_DEADLOCK FALSE
