CONSTANTS
    Routes = {"responses", "messages", "claude", "claudeChat", "native", "nativeChat",
              "codex", "codexMessages", "codexChat"}
    Parts <- MCParts
    Calls = {0, 1}
    FinishReasons = {"stop", "length"}
    MaxPending = 2
    MaxArguments = 3
    StopReasons = {"none", "end_turn", "pause_turn"}
    NativeKinds = {"message", "commentary", "reasoning", "function_call", "web_search_call"}
    MaxChunks = 4
    MaxEvents <- MCMaxEvents
    MaxItems = 2
    MaxBlocks = 8
    LateReasoning = FALSE
SPECIFICATION Spec
CHECK_DEADLOCK FALSE
INVARIANTS
    TypeOK
    NothingLost
    NoFalseSuccess
    OnlyWholeActions
    OutcomeLogged
    NoReadPastEnd
PROPERTIES
    ImplementsResponsesStream
    ImplementsAnthropicStream
