----------------------------- MODULE ModelTurn -----------------------------
(***************************************************************************)
(* Model turns of a conversation: the driver of hivecore-agent-loop with   *)
(* the compaction transform and the OpenAI adapter around each request.    *)
(* Every turn may compact, derives the payload, streams the reply over a   *)
(* network that cuts it anywhere and may break off, and commits what was   *)
(* assembled; tool calls are answered before the next turn.                *)
(*                                                                         *)
(* AgentLoop models the batches, gates and the log of the same driver; here *)
(* a batch is one step, and of the hooks only those around compaction and   *)
(* the stops that lose the results of a batch.                              *)
(***************************************************************************)
EXTENDS Compaction, ModelStream

CONSTANTS
  Replies,        \* responses the server may give
  MaxIterations,  \* max_iterations of the builder
  ChunkSizes,     \* bound: how many bytes arrive at once (the last may be fewer)
  MaxMessages     \* bound: no prompt and no steering message beyond it

\* The ids of a reply's calls count from 1: tool call c of assistant message n
\* is known everywhere as n * 10 + c.
ASSUME TurnAssumption ==
  /\ MaxIterations \in Nat /\ MaxMessages \in Nat
  /\ Replies \subseteq [events : Seq(ChatEvents), crlf : BOOLEAN, ping : BOOLEAN, done : BOOLEAN]

VARIABLES
  pc,         \* where run() is
  messages,   \* state.messages
  iteration,  \* assistant turns of this run
  aborted,    \* the AbortSignal of this run
  payload,    \* the messages of the request under way
  reply,      \* the response to it
  body, pos,  \*   its bytes, and how many of them have arrived
  dec, st     \* decoder; aggregator, turn and state of the stream

net    == <<reply, body, pos, dec, st>>
driver == <<pc, messages, iteration, payload>>
vars   == <<driver, aborted, net>>

Resting == pc = "idle"
NextId  == Len(messages) + 1
Least(a, b) == IF a < b THEN a ELSE b

NoReply == [events |-> <<>>, crlf |-> FALSE, ping |-> FALSE, done |-> FALSE]
NewStream == [agg |-> NewAggregator, turn |-> NewTurn, state |-> "open"]

-----------------------------------------------------------------------------
Init ==
  /\ pc = "idle" /\ messages = <<>> /\ iteration = 0 /\ aborted = FALSE
  /\ payload = <<>>
  /\ reply = NoReply /\ body = <<>> /\ pos = 0 /\ dec = NewDecoder /\ st = NewStream

\* The request and its stream are dropped.
DropStream ==
  /\ payload' = <<>>
  /\ reply' = NoReply /\ body' = <<>> /\ pos' = 0 /\ dec' = NewDecoder /\ st' = NewStream

Push(ms) == messages' = messages \o ms

\* run(prompt).
Begin ==
  /\ Resting /\ Len(messages) < MaxMessages
  /\ Push(<<User(NextId)>>)
  /\ pc' = "top" /\ iteration' = 0 /\ aborted' = FALSE
  /\ UNCHANGED <<payload, net>>

\* AbortHandle::abort.
Abort ==
  /\ ~Resting /\ ~aborted
  /\ aborted' = TRUE
  /\ UNCHANGED <<driver, net>>

\* The top of the inner loop: the cap, the abort signal, steering messages.
Top ==
  /\ pc = "top"
  /\ \/ /\ iteration >= MaxIterations \/ aborted
        /\ pc' = "idle"
        /\ UNCHANGED <<messages, iteration>>
     \/ /\ iteration < MaxIterations /\ ~aborted
        /\ iteration' = iteration + 1
        /\ \/ UNCHANGED messages
           \/ Len(messages) < MaxMessages /\ Push(<<User(NextId)>>)
        /\ pc' = "compact"
  /\ UNCHANGED <<aborted, payload, net>>

\* maybe_compact_step without a marker: below the threshold, nothing to cut,
\* or the PreCompact hooks skip this round.
CompactNot ==
  /\ pc = "compact"
  /\ pc' = "request"
  /\ UNCHANGED <<messages, iteration, aborted, payload, net>>

\* ... with one: the summary is made, the hooks let it pass, the marker is
\* pushed; a hook after that may still stop the run.
Compact ==
  /\ pc = "compact"
  /\ \E i \in CompactAt(messages) :
       Push(<<CompactionMarker(messages, i, NextId)>>)
  /\ pc' \in {"request", "idle"}
  /\ UNCHANGED <<iteration, aborted, payload, net>>

\* ... that fails: the summariser does, or returns nothing, or a hook stops.
CompactFails ==
  /\ pc = "compact" /\ CompactAt(messages) # {}
  /\ pc' = "idle"
  /\ UNCHANGED <<messages, iteration, aborted, payload, net>>

\* stream_one_turn up to the response: the transform is given what is visible
\* of the conversation.
Request(r) ==
  /\ pc = "request"
  /\ payload' = BuildRequest(TransformOutgoing(Visible(messages)))
  /\ reply' = r /\ body' = Body(r) /\ pos' = 0
  /\ dec' = NewDecoder /\ st' = NewStream
  /\ pc' = "stream"
  /\ UNCHANGED <<messages, iteration, aborted>>

\* A PreModelRequest hook stops the run, or the server cannot be reached or
\* answers with an error status.
RequestFails ==
  /\ pc = "request"
  /\ pc' = "idle"
  /\ UNCHANGED <<messages, iteration, aborted, payload, net>>

\* The next n bytes: nothing is done with them once the run was aborted.
Receive(n) ==
  /\ pc = "stream" /\ ~aborted /\ n \in 1 .. Len(body) - pos
  /\ LET fed  == Feed(dec, SubSeq(body, pos + 1, pos + n))
         next == AdvanceAll(reply, st, fed.out)
     IN  IF next.state = "failed"
         THEN pc' = "idle" /\ DropStream
         ELSE /\ pos' = pos + n
              /\ dec' = [buf |-> fed.buf, pending |-> fed.pending]
              /\ st' = next
              /\ pc' = IF next.state = "done" THEN "commit" ELSE "stream"
              /\ UNCHANGED <<payload, reply, body>>
  /\ UNCHANGED <<messages, iteration, aborted>>

\* The response ends, early or not: the stream just ends.
EndOfBody ==
  /\ pc = "stream"
  /\ pc' = "commit"
  /\ UNCHANGED <<messages, iteration, payload, aborted, net>>

\* The stream fails: the next bytes come after an abort, the connection
\* breaks, or the client's timeout expires.
StreamFails ==
  /\ pc = "stream"
  /\ pc' = "idle" /\ DropStream
  /\ UNCHANGED <<messages, iteration, aborted>>

CallName(n, c) == n * 10 + c

\* The assembled turn is pushed.  A terminal stop ends the run, also before
\* its calls; a turn without calls ends it unless follow-ups are queued; and a
\* lifecycle hook may.
Commit ==
  /\ pc = "commit"
  /\ LET turn == st.turn
         ids  == [i \in DOMAIN turn.calls |-> CallName(NextId, turn.calls[i].id)]
         on   == turn.stop \notin {"max_tokens", "refusal"}
         said == Assistant(NextId, ids)
     IN  \/ pc' = "idle" /\ Push(<<said>>)
         \/ on /\ ids # <<>> /\ pc' = "tools" /\ Push(<<said>>)
         \/ /\ on /\ ids = <<>> /\ Len(messages) < MaxMessages
            /\ pc' = "top" /\ Push(<<said, User(NextId + 1)>>)
  /\ DropStream
  /\ UNCHANGED <<iteration, aborted>>

\* dispatch_tools: one result per call, in source order; the batch may end
\* the run.
Dispatch ==
  /\ pc = "tools"
  /\ LET calls == Last(messages).calls
     IN  Push([i \in DOMAIN calls |-> ToolResult(NextId + i - 1, calls[i])])
  /\ pc' \in {"top", "idle"}
  /\ UNCHANGED <<iteration, aborted, payload, net>>

\* A hook stops the run before the results are stored.
DispatchStops ==
  /\ pc = "tools"
  /\ pc' = "idle"
  /\ UNCHANGED <<messages, iteration, aborted, payload, net>>

Next ==
  \/ Begin \/ Abort \/ Top
  \/ CompactNot \/ Compact \/ CompactFails
  \/ \E r \in Replies : Request(r)
  \/ RequestFails
  \/ \E c \in ChunkSizes : Receive(Least(c, Len(body) - pos))
  \/ EndOfBody \/ StreamFails
  \/ Commit \/ Dispatch \/ DispatchStops

Spec == Init /\ [][Next]_vars

-----------------------------------------------------------------------------
(* Properties.                                                              *)

TypeOK ==
  /\ pc \in {"idle", "top", "compact", "request", "stream", "commit", "tools"}
  /\ iteration \in 0 .. MaxIterations /\ aborted \in BOOLEAN
  /\ \A i \in DOMAIN messages :
       LET m == messages[i]
       IN  /\ m.kind \in Kinds \ {"summary"} /\ m.id = i
           /\ m.covers \in 0 .. i - 1 /\ m.kept \in 0 .. i - 1
  /\ reply \in Replies \union {NoReply} /\ pos \in 0 .. Len(body)
  /\ st.turn.stop \in StopReasons /\ st.agg.pending \in StopReasons \union {NoFinish}

\* The two sequences the transform can be asked about: what the driver gives
\* it, and the whole of state.messages, as its documentation has it.
Sources == {messages, Visible(messages)}

\* Whatever was compacted, and however often, the model is sent every user
\* message, in order: task statements and corrections are never summarised
\* away (transform_outgoing, across stacked markers).
UserTurnsKept ==
  pc = "request" =>
  \A s \in Sources : Users(TransformOutgoing(s)) = Users(s)

\* A batch is answered on the wire whole or not at all: a tool result stands
\* among those of all the calls of one assistant message, which follow it at
\* once and in order.  Compaction parts no call from its result, and a batch
\* that was stopped leaves no part of its results (dispatch_tools,
\* transform_outgoing); it may leave calls that no result ever answers.
WireAnswersCalls ==
  pc = "request" =>
  \A s \in Sources :
    LET w == BuildRequest(TransformOutgoing(s))
    IN  \A i \in DOMAIN w : w[i].role = "tool" =>
          \E j \in 1 .. i - 1 :
            /\ w[j].role = "assistant" /\ i - j <= Len(w[j].calls)
            /\ \A k \in 1 .. Len(w[j].calls) :
                 /\ j + k \in DOMAIN w /\ w[j + k].role = "tool"
                 /\ w[j + k].of = w[j].calls[k]

Ids(s) == {s[i].id : i \in DOMAIN s}

\* What compaction loses, had the transform the whole of state.messages: of
\* the messages its newest summary does not cover, exactly the replies and the
\* results of the turns it was to keep - the tail that is sent starts at the
\* marker (pick_cut, transform_outgoing).  Those were KeptTurns turns when the
\* marker was made, and an older marker's summary covers nothing that the
\* newest does not.
OnlyKeptTurnsMissing ==
  LET k == SelectLastInSeq(messages, IsMarker)
      m == messages[k]
      Unsummarised == {i \in DOMAIN messages : VisibleToModel(messages[i]) /\ i > m.covers}
  IN  k # 0 =>
        /\ Unsummarised \ Ids(TransformOutgoing(messages))
             = {i \in m.kept .. k - 1 : messages[i].kind \in {"assistant", "tool"}}
        /\ Cardinality({i \in m.kept .. k : IsTurn(messages[i])}) = KeptTurns
        /\ \A i \in 1 .. k - 1 : IsMarker(messages[i]) => messages[i].covers <= m.covers

\* Some event of r up to number k has a finish reason; the usage has come with
\* it or after it.
FinishBy(r, k) == \E i \in 1 .. k : r.events[i].finish # NoFinish
ClosedBy(r, k) == \E i \in 1 .. k : r.events[i].usage /\ FinishBy(r, i)

\* All tool call deltas of a reply in order; the slots they are about, the ids
\* that are given to one, and the pieces of its arguments.
Deltas(r) == FlattenSeq([i \in DOMAIN r.events |-> r.events[i].tools])
SlotsOf(deltas)  == {deltas[i].index : i \in DOMAIN deltas}
Named(deltas, k) == {deltas[i].id : i \in {j \in DOMAIN deltas : deltas[j].index = k}} \ {0}
Pieces(deltas, k) ==
  FoldLeft(LAMBDA args, d : IF d.index = k /\ d.arg # 0 THEN Append(args, d.arg) ELSE args,
           <<>>, deltas)

\* The calls a reply makes, read off the whole of it.
WholeCalls(r) ==
  [k \in SlotsOf(Deltas(r)) |-> [id   |-> CHOOSE id \in Named(Deltas(r), k) : TRUE,
                                args |-> Pieces(Deltas(r), k)]]

\* A server that keeps to the protocol counts its calls from 1, gives each one
\* id, sends nothing of a call behind the finish reason, and ends no reply with
\* calls without one.
WellFormedCalls(r) ==
  /\ \E n \in 0 .. Len(Deltas(r)) : SlotsOf(Deltas(r)) = 1 .. n
  /\ \A k \in SlotsOf(Deltas(r)) : \E id \in Named(Deltas(r), k) : Named(Deltas(r), k) = {id}
  /\ \A i \in DOMAIN r.events : FinishBy(r, i - 1) => r.events[i].tools = <<>>
  /\ r.done /\ Deltas(r) # <<>> => FinishBy(r, Len(r.events))

\* The turn that is committed has all calls of a server that keeps to the
\* protocol, each once and whole, or none of them - however the network cut
\* the bytes, however the deltas of several calls were mixed, and wherever the
\* response broke off (StreamAggregator::absorb_delta, DefaultConsumer).
\* None only when its finish reason never came; and a stop reason other than
\* the default is the server's.
CallsAreWhole ==
  pc = "commit" =>
    LET turn == st.turn
        finishes == {r \in Finishes : \E i \in DOMAIN reply.events : reply.events[i].finish = r}
    IN  /\ turn.calls \in {<<>>, WholeCalls(reply)}
        /\ st.state = "done" => turn.calls = WholeCalls(reply)
        /\ turn.stop # "end_turn" => /\ turn.calls = WholeCalls(reply)
                                     /\ turn.stop \in {StopReasonFrom(f) : f \in finishes}

\* A server that keeps to the protocol says nothing more once it has given both
\* a finish reason and the usage.
SilentAfterUsage(r) ==
  \A i \in DOMAIN r.events :
    ClosedBy(r, i - 1) => r.events[i].finish = NoFinish /\ r.events[i].text = "none"

\* The sinks see one message per request: its start first, nothing after its
\* end, whether the usage came with the finish reason, later, or not at all.
EndOnce ==
  \A i, j \in DOMAIN st.turn.emitted :
    /\ st.turn.emitted[i] = "start" <=> i = 1
    /\ st.turn.emitted[i] = "end" /\ i <= j => i = j

\* What driver.rs says of the compaction step: "the marker is committed first
\* and the request payload reflects the shrunk state".
RequestReflectsMarker ==
  pc = "stream" => payload = BuildRequest(TransformOutgoing(messages))
=============================================================================
