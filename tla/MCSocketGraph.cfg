SPECIFICATION Spec
CONSTANTS
    p = p
    q = q
    r = r
    s = s
    process = process
    socket = socket
    AnyKind = AnyKind
    Entities = {p, q, r, s}
    Edges <- MCEdges
    Kinds = {process, socket}
    KindOf <- MCKindOf
    Subcollectors = 1
    Supports <- MCSupports
    Answers <- MCAnswers
    Calls <- MCCalls
    Rows <- MCRows
INVARIANT TrafficCountedOnce
CHECK_DEADLOCK FALSE
