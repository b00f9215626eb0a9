CONSTANTS
    Contexts = {1, 2}
    Versions = {0, 1, 2}
SPECIFICATION Spec
INVARIANT CtxIsCurrent
CHECK_DEADLOCK FALSE
