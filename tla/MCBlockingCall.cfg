CONSTANTS
    t1 = t1
    Threads = {t1}
    Ops <- Operations
    MaxDepth = 3
    MaxCalls = 3
    MaxEvents = 1
SPECIFICATION Spec
INVARIANTS PanicReachesCaller NothingLeaks SuccessIsClean DiagnosticIsOwn
