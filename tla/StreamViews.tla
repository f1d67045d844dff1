---------------------------- MODULE StreamViews ----------------------------
(***************************************************************************)
(* What the three kinds of readers make of a stream: of a Responses        *)
(* stream, of an Anthropic message stream and of a Chat Completions        *)
(* stream.  A reader in the phase "broken" was sent something that has no  *)
(* place in its protocol.                                                  *)
(***************************************************************************)
EXTENDS StreamEvents

\* n more of f at k, which counts from zero.
Plus(f, k, n) == With(f, k, (IF k \in DOMAIN f THEN f[k] ELSE 0) + n)

\* The connection is gone.
Left(x) == [x EXCEPT !.phase = "cut"]

----------------------------------------------------------------------------
(* A Responses stream.                                                     *)

NothingRead ==
    [phase |-> "new", items |-> <<>>, final |-> <<>>, end |-> "none"]

\* A stream that is passed on, whose beginning is the upstream's.
Joined == [NothingRead EXCEPT !.phase = "open"]

Seen(r, i) == IF i \in DOMAIN r.items THEN r.items[i]
              ELSE [added |-> 0, said |-> 0, finished |-> 0]
Count(r, i, field) ==
    [r EXCEPT !.items = With(@, i, [Seen(r, i) EXCEPT ![field] = @ + 1])]

Hear(r, e) ==
    LET i == e.of.item IN
    CASE e.type = "created" ->
            [r EXCEPT !.phase = IF @ = "new" THEN "open" ELSE "broken"]
      [] e.type = "added" -> Count(r, i, "added")
      [] e.type = "itemDone" -> Count(r, i, "finished")
      [] e.type \in {"completed", "incomplete", "failed"} ->
            [r EXCEPT !.phase = IF @ = "open" THEN "ended" ELSE "broken",
                      !.final = e.output,
                      !.end = IF e.reason = "none" THEN e.type ELSE "incomplete"]
      [] e.type = "[DONE]" -> [r EXCEPT !.phase = IF @ = "ended" THEN @ ELSE "broken"]
      [] OTHER -> Count(r, i, "said")

----------------------------------------------------------------------------
(* An Anthropic message stream.                                            *)

NothingSeen == [phase |-> "new", blocks |-> <<>>, reason |-> "none"]

NewBlock(e) == [kind |-> e.kind, call |-> CallOf(e.item), units |-> 0,
                started |-> 0, written |-> 0, stopped |-> 0]
BlockOf(v, e) ==
    IF e.index \in DOMAIN v.blocks THEN v.blocks[e.index] ELSE NewBlock(e)
Note(v, e, b) == [v EXCEPT !.blocks = With(@, e.index, b)]

See(v, e) ==
    LET b == BlockOf(v, e)
        turn(from, to) == [v EXCEPT !.phase = IF @ \in from THEN to ELSE "broken",
                                    !.reason = IF e.reason = "none" THEN @ ELSE e.reason]
    IN  CASE e.type = "start" -> Note(v, e, [b EXCEPT !.started = @ + 1])
          [] e.type = "delta" ->
                Note(v, e, [b EXCEPT !.written = @ + 1, !.units = @ + e.n])
          [] e.type = "stop" -> Note(v, e, [b EXCEPT !.stopped = @ + 1])
          [] e.type = "message_start" -> turn({"new"}, "open")
          [] e.type = "message_delta" -> turn({"open"}, "closing")
          [] e.type = "message_stop" -> turn({"closing"}, "stopped")
          [] e.type = "error" -> turn({"new", "open"}, "error")

----------------------------------------------------------------------------
(* A Chat Completions stream: the role, the answer, the finish reason and  *)
(* [DONE].  An answer without content may be its end alone.  A reader that *)
(* was given an error reads no more.                                       *)

NothingHeard ==
    [phase |-> "new", text |-> 0, thinking |-> 0, tools |-> <<>>, finish |-> "none"]

Take(a, e) ==
    LET turn(from, to) == [a EXCEPT !.phase = IF @ \in from THEN to ELSE "broken"]
    IN  CASE a.phase = "error" -> a
          [] e.type = "role" -> turn({"new"}, "open")
          [] e.type = "content" -> [turn({"open"}, "open") EXCEPT !.text = @ + e.n]
          [] e.type = "reasoning" -> [turn({"open"}, "open") EXCEPT !.thinking = @ + e.n]
          [] e.type = "redacted" -> turn({"open"}, "open")
          [] e.type = "tool" ->
                [turn({"open"}, "open") EXCEPT !.tools = Plus(@, CallOf(e.item), e.n)]
          [] e.type = "finish" ->
                [turn({"new", "open"}, "closing") EXCEPT !.finish = e.reason]
          [] e.type = "[DONE]" -> turn({"closing"}, "stopped")
          [] e.type = "error" -> turn({"new", "open"}, "error")
=============================================================================
