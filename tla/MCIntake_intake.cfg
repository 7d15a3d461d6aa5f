\* Two mails, limits and a greylist, a failure, a stop, changes of domains.
SPECIFICATION Spec
CONSTANTS
    Mails = {"m1", "m2"}
    Posts <- MCPosts
    Ips = {"out", "lan"}
    Internal = {"lan"}
    Senders = {"s"}
    NoSender = NoSender
    Addrs = {"a", "b"}
    Domains = {"d1", "d2"}
    DomainOf <- MCDomainOf
    Configured = {"d1"}
    MaxRcpts = 1
    RateMax <- MCRateMax
    RateWindow <- MCRateWindow
    TableMax = 0
    GreyEnabled = TRUE
    GreyDelay = 2
    GreyTTL = 3
    Conns = {"c1"}
    Admins = {"q1", "q2"}
    NoMail = NoMail
    MaxTime = 4
    Most <- MCMost
INVARIANTS TypeOK StoredAsTold GateKeepsItsWord
CHECK_DEADLOCK FALSE
