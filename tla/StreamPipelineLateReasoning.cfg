CONSTANTS
    Routes = {"messages"}
    Parts <- MCParts
    Calls = {0, 1}
    FinishReasons = {"stop", "length"}
    MaxPending = 2
    MaxArguments = 3
    StopReasons = {"none", "end_turn", "pause_turn"}
    NativeKinds = {"message", "commentary", "reasoning", "function_call", "web_search_call"}
    MaxChunks = 3
    MaxEvents <- MCMaxEvents
    MaxItems = 2
    MaxBlocks = 8
    LateReasoning = TRUE
SPECIFICATION Spec
CHECK_DEADLOCK FALSE
PROPERTY EachBlockStoppedOnce
