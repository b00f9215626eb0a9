CONSTANTS
    Handles = {h1, h2}
    Loops = {l1, l2}
    Homes = {{l1}, {l1, l2}}
    Signums = {2, 15}
    None = None
    PipeSize = 2
    BatchSize = 2
    Raised = {2}
    MaxSignals = 2
    MaxForks = 1
SPECIFICATION FairSpec
INVARIANTS TypeOK CountsAreExact NoDanglingMessages RegularIsHandled
PROPERTIES EveryCloseCompletes
