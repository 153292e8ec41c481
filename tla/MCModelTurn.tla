---------------------------- MODULE MCModelTurn ----------------------------
(* Small instances of ModelTurn for TLC. *)
EXTENDS ModelTurn

Reply(events, crlf, ping, done) ==
  [events |-> events, crlf |-> crlf, ping |-> ping, done |-> done]

Say(t) == ChatEvent(t, <<>>, NoFinish, FALSE)
Finish(f, usage) == ChatEvent("none", <<>>, f, usage)
UsageOnly == ChatEvent("none", <<>>, NoFinish, TRUE)

\* Text and an end; the usage in an event of its own; CR LF and a comment.
Plain == Reply(<<Say("thinking"), Finish("stop", FALSE), UsageOnly>>, TRUE, TRUE, TRUE)

\* Two calls whose argument pieces are mixed; the usage with the finish reason
\* and once more.
TwoCalls ==
  Reply(<<ChatEvent("none", <<ToolDelta(1, 1, 0)>>, NoFinish, FALSE),
          ChatEvent("none", <<ToolDelta(2, 2, 1), ToolDelta(1, 0, 1)>>, NoFinish, FALSE),
          ChatEvent("none", <<ToolDelta(1, 0, 2)>>, NoFinish, FALSE),
          Finish("tool_calls", TRUE), UsageOnly>>, FALSE, FALSE, TRUE)

\* A provider without usage; one that neither sends it nor [DONE],
\* and has the older name for its finish reason.
Cut     == Reply(<<Say("text"), Finish("length", FALSE)>>, FALSE, FALSE, TRUE)
OneCall == Reply(<<ChatEvent("text", <<ToolDelta(1, 1, 1)>>, NoFinish, FALSE),
                   Finish("function_call", FALSE)>>, TRUE, FALSE, FALSE)

Refused == Reply(<<Finish("content_filter", TRUE)>>, FALSE, FALSE, TRUE)
Broken  == Reply(<<Say("text"), Garbage>>, FALSE, FALSE, FALSE)

SmallReplies == {Plain, TwoCalls, Cut, OneCall, Refused, Broken}

\* The servers of the run keep to the protocol, as CallsWhole and EndsOnce ask
\* of them.
ASSUME ProtocolKept == \A r \in SmallReplies : WellFormedCalls(r) /\ SilentAfterUsage(r)
=============================================================================
