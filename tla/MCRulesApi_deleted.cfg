\* A deletion overlaps the switching of the same rule.
SPECIFICATION Spec
CONSTANTS
    envForward = envForward
    mine = mine
    good = good
    other = other
    faulty = faulty
    ann = ann
    bob = bob
    Ids <- McIds
    EnvIds <- McEnvIds
    Bodies <- McBodies
    Faulty <- McFaulty
    NoRule = NoRule
    NoSetting = NoSetting
    Clients <- McClients
    Idle = Idle
    MaxRestarts = 0
    MaxDbErrors = 0
INVARIANTS DeletedStaysDeleted
