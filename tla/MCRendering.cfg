CONSTANTS
    None = None
    Setups <- MCSetups
SPECIFICATION Spec
INVARIANT ProtocolKept
INVARIANT StreamedIsCompleted
INVARIANT FailedIsNotComplete
