-------------------------- MODULE MCStreamPipeline --------------------------
(* Small instances of StreamPipeline: the chunks a Chat upstream may send.  *)
EXTENDS StreamPipeline

Tool(k, hasId, name, n) ==
    [part |-> "tool", call |-> k, hasId |-> hasId, name |-> name, n |-> n]

\* A call opened with id and name, continued, or sent at once; a second call; empty and non-empty text.
MCMessageParts ==
    {[part |-> "reasoning", n |-> 1], [part |-> "redacted", sig |-> "redacted"],
     [part |-> "text", n |-> 0], [part |-> "text", n |-> 1], [part |-> "audio"],
     Tool(0, TRUE, "tool", 0), Tool(0, FALSE, "", 1),
     Tool(1, TRUE, "tool", Full)}

\* A Responses client may have a shell tool.
MCResponseParts ==
    {[part |-> "reasoning", n |-> 1], [part |-> "text", n |-> 1],
     Tool(0, FALSE, "shell", 0), Tool(0, TRUE, "", 1),
     Tool(1, FALSE, "", 1)}

MCParts == [r \in Routes |->
               CASE r = "messages" -> MCMessageParts
                 [] r = "responses" -> MCResponseParts
                 [] OTHER -> {}]

\* The converter of "claude" works in "claudeChat" too, where it is given more.
MCMaxEvents == [r \in Routes |-> IF r = "claude" THEN 4 ELSE 5]
=============================================================================
