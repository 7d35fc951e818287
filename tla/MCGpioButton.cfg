SPECIFICATION FairSpec
CONSTANTS
    Nodes <- MCNodes
    Polled = {TRUE, FALSE}
    Threshold = 1
    MaxEdges = 3
    Env = {"nomem", "irqfails"}
INVARIANTS TypeOK UserFollows Quiet
PROPERTIES Debounced Settles
CHECK_DEADLOCK FALSE
