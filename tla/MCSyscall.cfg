CONSTANTS
    Idle = Idle
    Users = {a, b}
SPECIFICATION Spec
INVARIANTS ExclusiveCallsSound HandlerGetsArguments FaultsBeforeCorruption
