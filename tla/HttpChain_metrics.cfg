SPECIFICATION Spec
CONSTANTS
    Requests = {r1, r2}
CHECK_DEADLOCK FALSE
INVARIANTS ScrapesUncounted
