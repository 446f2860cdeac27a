\* One descriptor, two fibers with two calls each, three waits, closing.
SPECIFICATION HookFairSpec
CONSTANTS
    Fds = {f1}
    Fibers = {Reader, Other}
    Reader = Reader
    Other = Other
    Ops <- MCOps
    Calls = {c1, c2, c3}
    NoCall = NoCall
    Wrap = 6
    MaxCalls = 2
INVARIANTS HookTypeOK WaitsOnce TimersEnd
PROPERTIES TimeoutEnds CloseEnds
CHECK_DEADLOCK FALSE
