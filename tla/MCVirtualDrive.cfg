SPECIFICATION Spec
CONSTANTS
    n1 = n1
    n2 = n2
    r1 = r1
    r2 = r2
    h1 = h1
    h2 = h2
    Name <- MCName
    Request <- MCRequest
    Handle <- MCHandle
    P0 <- MCP0
    MaxNodes = 6
    MaxInodes = 5
    MaxCalls = 4
SYMMETRY Alike
CHECK_DEADLOCK FALSE
INVARIANTS WriterHolds PendingFaithful ReadsTrue InodesExact
