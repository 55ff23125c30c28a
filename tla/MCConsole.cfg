SPECIFICATION FairSpec
CONSTANTS
    Letters = {"a", "b"}
    Delims = {"NL", "a"}
    Reserve = 1
    MaxInput = 3
    MaxGuards = 2
CHECK_DEADLOCK FALSE
INVARIANTS
    TypeOK
    EchoRestored
    EchoOffWhileGuarded
    
    ClearExact
PROPERTY
    CallReturns
