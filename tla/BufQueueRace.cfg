SPECIFICATION Spec
CONSTANTS
    Blocks = {b1, b2, b3}
    Preemptible = {"consume"}
    NULL = NULL
INVARIANT BlocksKept
CHECK_DEADLOCK FALSE
