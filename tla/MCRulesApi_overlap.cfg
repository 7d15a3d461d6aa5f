\* Two requests at a time, two restarts, one failing seed.
SPECIFICATION Spec
CONSTANTS
    envForward = envForward
    mine = mine
    good = good
    other = other
    faulty = faulty
    ann = ann
    bob = bob
    Ids <- McIds
    EnvIds <- McEnvIds
    Bodies <- McBodies
    Faulty <- McFaulty
    NoRule = NoRule
    NoSetting = NoSetting
    Clients <- McClients
    Idle = Idle
    MaxRestarts = 2
    MaxDbErrors = 1
INVARIANTS TypeOK EnvRulesFollowSettings
PROPERTIES StartSparesUserRules
