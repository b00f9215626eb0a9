CONSTANTS
    Handles = {a, b}
    Reqs = {req}
    Kinds = {{"prepare", "idle"}, {"check", "io"}, {"timer", "io"}}
    PendingRounds = 1
SPECIFICATION FairSpec
INVARIANTS TypeOK CountIsRight Placement TurnCallsEverybody SleepsForAReason
PROPERTIES CallsTheLiving ReturnsWhenDone EveryCloseCompletes
CHECK_DEADLOCK FALSE
