SPECIFICATION Spec
CONSTANTS
    None = None
    Invalid = Invalid
    Payloads <- Redirected
    Pool <- MCPool
INVARIANT ToolsKeptWhenRedirected
CHECK_DEADLOCK FALSE
