SPECIFICATION Spec
CONSTANTS
    p = p
    q = q
    r = r
    s = s
    process = process
    socket = socket
    AnyKind = AnyKind
    Entities = {p, q, r, s}
    Edges = {"ps", "pr"}
    Kinds = {process, socket}
    KindOf <- MCKindOf
    Subcollectors = 3
    Supports <- MCSupports
    Answers <- MCAnswers
    Calls <- MCCalls
PROPERTY AllSourcesAsked
CHECK_DEADLOCK FALSE
