SPECIFICATION Spec
CONSTANTS
    None = None
    Invalid = Invalid
    Payloads <- MCPayloads
    Pool <- MCPool
INVARIANTS ConversationKept OneWeakerRetry ToolsLeaveOnce FieldsLegal
CHECK_DEADLOCK FALSE
