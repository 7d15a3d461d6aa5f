\* Lists of two accounts, overlapping requests, mails that come and go.
SPECIFICATION Spec
CONSTANTS
    a = a
    b = b
    None = None
    Inbox = "INBOX"
    Lists <- MCLists
    Contents <- MCContents
    Connected <- MCConnected
    Views <- MCViews
    Found = {1, 3}
    PageSize = 1
    MaxClicks = 2
    MaxChanges = 2
    MaxTicks = 2
    MaxFaults = 1
    MaxAll = 4
    MaxCalls = 2
INVARIANTS TypeOK MailsStayInTheirList NoMailIsSkipped ChangesAreListed SearchStands
CHECK_DEADLOCK FALSE
