---------------------------- MODULE ModelStream ----------------------------
(***************************************************************************)
(* A streamed model reply on its way from bytes to an assembled turn:      *)
(* SseDecoder and StreamAggregator of hivecore-openai-adapter and the      *)
(* DefaultConsumer of hivecore-agent-loop.  Operators; ModelTurn runs them *)
(* on whatever pieces the network delivers.                                *)
(*                                                                         *)
(* The body of a response is a sequence of symbols: a line break is CR LF  *)
(* or LF, a data line its prefix and the number of the event it carries.   *)
(* A cut between two symbols is any cut of the bytes: the decoder only     *)
(* looks for line breaks.                                                  *)
(***************************************************************************)
EXTENDS Naturals, Sequences, FiniteSets, SequencesExt

Finishes    == {"stop", "length", "tool_calls", "function_call", "content_filter"}
StopReasons == {"end_turn", "max_tokens", "tool_use", "refusal"}
NoFinish    == "none"
Texts       == {"none", "text", "thinking"}

\* ChatStreamEvent: the text of its delta, its tool call deltas, its finish
\* reason, whether it carries the usage; valid: it parses.
ChatEvent(text, tools, finish, usage) ==
  [text |-> text, tools |-> tools, finish |-> finish, usage |-> usage, valid |-> TRUE]

Garbage == [ChatEvent("none", <<>>, NoFinish, FALSE) EXCEPT !.valid = FALSE]

\* A delta of the call in slot index: its id in the first one, else 0, and a
\* piece of its arguments, or 0.  The id stands for the name too: the two come
\* together, and neither is empty (the code would take a name without an id for
\* a call, and an empty id for a new one).
ToolDelta(index, id, arg) == [index |-> index, id |-> id, arg |-> arg]

\* What a server may send.
ToolDeltas == [index : Nat \ {0}, id : Nat, arg : Nat]
ChatEvents == [text : Texts, tools : Seq(ToolDeltas),
               finish : Finishes \union {NoFinish}, usage : BOOLEAN, valid : BOOLEAN]

-----------------------------------------------------------------------------
(* The body of a reply: its events, its line breaks, whether a comment line *)
(* comes first and whether [DONE] ends it.                                  *)

Sym(s, e) == [s |-> s, e |-> e]
LF    == Sym("LF", 0)
CR    == Sym("CR", 0)
DataPrefix == Sym("data", 0)

Break(reply) == IF reply.crlf THEN <<CR, LF>> ELSE <<LF>>

Body(reply) ==
  LET frame(x) == <<DataPrefix, x>> \o Break(reply) \o Break(reply)
      ping     == IF reply.ping THEN <<Sym("comment", 0)>> \o Break(reply) \o Break(reply)
                  ELSE <<>>
  IN  ping \o FlattenSeq([i \in DOMAIN reply.events |-> frame(Sym("event", i))])
        \o (IF reply.done THEN frame(Sym("done", 0)) ELSE <<>>)

-----------------------------------------------------------------------------
(* SseDecoder.                                                              *)

NewDecoder == [buf |-> <<>>, pending |-> <<>>]

\* handle_line: a blank line dispatches what is pending, a data line adds to
\* it, anything else is ignored.  (No event here spans two data lines, so that
\* what is pending is one event.)
HandleLine(d, line) ==
  IF line = <<>>
  THEN [d EXCEPT !.pending = <<>>, !.out = @ \o d.pending]
  ELSE [d EXCEPT !.pending = IF Head(line) = DataPrefix THEN @ \o Tail(line) ELSE @]

\* find_newline: a line ends at LF; a CR just before it is not part of it.
StripCR(line) == IF line # <<>> /\ Last(line) = CR THEN Front(line) ELSE line

\* One symbol: at LF the line that has come is handled.
FeedSymbol(d, x) ==
  IF x = LF THEN [HandleLine(d, StripCR(d.buf)) EXCEPT !.buf = <<>>]
  ELSE [d EXCEPT !.buf = Append(@, x)]

\* Slip: the unfinished line of a chunk is not kept for the next one.
FeedForgetful(dec, chunk) ==
  FoldLeft(FeedSymbol, [buf |-> <<>>, pending |-> dec.pending, out |-> <<>>], chunk)

\* feed: the decoder after a chunk, and in out the events it completes.
Feed(dec, chunk) ==
  FoldLeft(FeedSymbol, [buf |-> dec.buf, pending |-> dec.pending, out |-> <<>>], chunk)

-----------------------------------------------------------------------------
(* StreamAggregator.  A slot is a PartialToolCall.                          *)

EmptySlot     == [id |-> 0, args |-> <<>>]
NewAggregator == [started |-> FALSE, slots |-> <<>>, pending |-> NoFinish]

Chunk(c, call, stop) == [c |-> c, call |-> call, stop |-> stop]
EndOf(stop) == <<Chunk("end", EmptySlot, stop)>>

\* Slip: a finish reason without a stop reason of its own is passed on.
StopReasonRaw(finish) == IF finish = "stop" THEN "end_turn" ELSE finish

StopReasonFrom(finish) ==
  CASE finish = "stop" -> "end_turn"     [] finish = "length" -> "max_tokens"
    [] finish \in {"tool_calls", "function_call"} -> "tool_use"
    [] finish = "content_filter" -> "refusal"

\* absorb_delta, of one tool call delta: the slots grow up to its index, an id
\* replaces the slot's, arguments are added to it.
AbsorbDelta(slots, td) ==
  LET grown == [i \in 1 .. (IF td.index > Len(slots) THEN td.index ELSE Len(slots)) |->
                  IF i <= Len(slots) THEN slots[i] ELSE EmptySlot]
  IN  [grown EXCEPT ![td.index] =
         [id   |-> IF td.id = 0 THEN @.id ELSE td.id,
          args |-> IF td.arg = 0 THEN @.args ELSE Append(@.args, td.arg)]]

\* ... of all those of an event.
AbsorbDeltas(slots, tools) == FoldLeft(AbsorbDelta, slots, tools)

\* flush_tool_calls: one whole call per slot that was ever named.
FlushToolCalls(slots) ==
  FoldLeft(LAMBDA out, c : IF c.id = 0 THEN out ELSE Append(out, Chunk("call", c, NoFinish)),
           <<>>, slots)

\* ingest: the start of the message once, its text as it comes, its calls at
\* the finish reason, its end once both the finish reason and the usage are
\* there.
Ingest(agg, ev) ==
  LET slots  == AbsorbDeltas(agg.slots, ev.tools)
      ends   == ev.finish # NoFinish
      finish == IF ends THEN StopReasonFrom(ev.finish) ELSE agg.pending
      closes == finish # NoFinish /\ ev.usage
  IN  [agg |-> [started |-> TRUE,
                slots   |-> IF ends THEN <<>> ELSE slots,
                pending |-> IF closes THEN NoFinish ELSE finish],
       out |-> (IF agg.started THEN <<>> ELSE <<Chunk("start", EmptySlot, NoFinish)>>)
                 \o (IF ev.text = "none" THEN <<>> ELSE <<Chunk(ev.text, EmptySlot, NoFinish)>>)
                 \o (IF ends THEN FlushToolCalls(slots) ELSE <<>>)
                 \o (IF closes THEN EndOf(finish) ELSE <<>>)]

\* Slip: the end is sent whether or not it was already.
FinalizeAlways(agg) == EndOf(IF agg.pending = NoFinish THEN "end_turn" ELSE agg.pending)

\* finalize, at [DONE]: the end that still waits for a usage.
Finalize(agg) == IF agg.pending = NoFinish THEN <<>> ELSE EndOf(agg.pending)

-----------------------------------------------------------------------------
(* DefaultConsumer: the turn it assembles, and the events it emits.         *)

NewTurn == [calls |-> <<>>, stop |-> "end_turn", emitted |-> <<>>]

Consume(turn, chunk) ==
  [calls   |-> IF chunk.c = "call" THEN Append(turn.calls, chunk.call) ELSE turn.calls,
   stop    |-> IF chunk.c = "end" THEN chunk.stop ELSE turn.stop,
   emitted |-> Append(turn.emitted, chunk.c)]

ConsumeAll(turn, chunks) == FoldLeft(Consume, turn, chunks)

\* stream_chat, of one decoded event; state: "open", "done" or "failed".  What
\* is neither [DONE] nor a well-formed event does not parse.
Advance(reply, st, x) ==
  IF st.state # "open" THEN st
  ELSE IF x.s = "done"
       THEN [st EXCEPT !.turn = ConsumeAll(@, Finalize(st.agg)), !.state = "done"]
       ELSE LET res == Ingest(st.agg, reply.events[x.e])
            IN  IF x.s = "event" /\ reply.events[x.e].valid
                THEN [st EXCEPT !.agg = res.agg, !.turn = ConsumeAll(@, res.out)]
                ELSE [st EXCEPT !.state = "failed"]

\* ... of all the events a chunk completes.
AdvanceAll(reply, st, out) == FoldLeft(LAMBDA s, x : Advance(reply, s, x), st, out)
=============================================================================
