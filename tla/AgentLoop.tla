----------------------------- MODULE AgentLoop -----------------------------
(***************************************************************************)
(* AgentLoop::run of hivecore-agent-loop (driver.rs): prompt, model turns, *)
(* tool batches, steering and follow-up messages, lifecycle gates,         *)
(* compaction markers, abort signal - and the message log its event sink   *)
(* writes, from which a later process resumes.                             *)
(*                                                                         *)
(* An action is the driver's work from one await to the next; in between,  *)
(* tools run, users type, and the process may be killed.  A message keeps  *)
(* its kind, for an assistant message the execution modes of its tool      *)
(* calls, and for a tool result which call it answers.                     *)
(***************************************************************************)
EXTENDS Naturals, Sequences, FiniteSets, SequencesExt

CONSTANTS
  MaxIterations,  \* max_iterations of the builder
  Batches,        \* tool call lists the model may answer with: modes, in order
  MaxPushed       \* bound: no run starts, no message is queued, beyond it

Modes == {"parallel", "sequential"}

ASSUME LoopAssumption ==
  /\ MaxIterations \in Nat /\ MaxPushed \in Nat
  /\ Batches \subseteq Seq(Modes)

\* of: the index of the call a tool result answers; n: its number in order of
\* pushing.
Msg(kind, calls, of, n) == [kind |-> kind, calls |-> calls, of |-> of, n |-> n]

Kinds    == {"prompt", "assistant", "tool", "steering", "follow_up", "marker"}
Injected == {"steering", "follow_up"}

VARIABLES
  pc,         \* where run() is
  messages,   \* state.messages
  pushed,     \* how many messages were ever pushed
  log,        \* what MessageCommitted events have put on disk
  iteration,  \* assistant turns of this run
  aborted,    \* the AbortSignal of this run
  steering,   \* messages the SteeringSource holds, and
  follow_ups, \*   how many follow-ups
  stop,       \* the stop reason of the turn ends the run
  phase,      \* per call of the batch: "waiting", "gate", "run", "done", "err"
  terminate,  \* the post hooks of every finished call asked to end the run
  refused,    \* history: messages a PostMessageCommit hook stopped the run on
  late        \* history: model requests of this run made after the abort, by kind

run   == <<iteration, aborted, late, stop>>
queue == <<steering, follow_ups>>
batch == <<phase, terminate>>
vars  == <<pc, messages, pushed, log, run, queue, batch, refused>>

\* What the model is asked for, and how often.
Requests   == {"summary", "turn"}
NoRequests == [kind \in Requests |-> 0]

Resting == {"idle", "done", "failed"}
Running == pc \notin Resting

\* fire_lifecycle: every hook passes (or only complains), or one stops the run.
Outcomes == {"pass", "stop"}
Gate(o, next) == pc' = IF o = "pass" THEN next ELSE "failed"

\* state.messages.push of one message.
Push(kind, calls, of) ==
  /\ messages' = Append(messages, Msg(kind, calls, of, pushed))
  /\ pushed' = pushed + 1

\* Push of k drained messages.
PushAll(kind, k) ==
  /\ messages' = messages \o [i \in 1 .. k |-> Msg(kind, <<>>, 0, pushed + i - 1)]
  /\ pushed' = pushed + k

\* Slips: the event goes out before the gate; its name overwrites the kind.
CommitUngated(o) ==
  LET m == Last(messages)
  IN  /\ refused' = IF o = "pass" THEN refused ELSE refused \union {m.n}
      /\ log' = Append(log, m)

CommitRenamed(o) ==
  LET m == Last(messages)
  IN  /\ refused' = IF o = "pass" THEN refused ELSE refused \union {m.n}
      /\ log' = IF o = "pass"
                THEN Append(log, [m EXCEPT !.kind = "message_committed"]) ELSE log

\* PostMessageCommit for the newest message, then, if nobody stops the run,
\* MessageCommitted.
Commit(o) ==
  LET m == Last(messages)
  IN  /\ refused' = IF o = "pass" THEN refused ELSE refused \union {m.n}
      /\ log' = IF o = "pass" THEN Append(log, m) ELSE log

Calls == Last(messages).calls
Idx(mode) == {k \in DOMAIN phase : Calls[k] = mode}
Settled(k) == phase[k] \in {"done", "err"}

-----------------------------------------------------------------------------
Init ==
  /\ pc = "idle"
  /\ messages = <<>> /\ pushed = 0 /\ log = <<>>
  /\ iteration = 0 /\ aborted = FALSE /\ stop = "none" /\ late = NoRequests
  /\ steering = 0 /\ follow_ups = 0
  /\ phase = <<>> /\ terminate = TRUE
  /\ refused = {}

\* run(prompt): AgentStart, then the prompt is queued.
Begin ==
  /\ ~Running /\ pushed < MaxPushed
  /\ iteration' = 0 /\ aborted' \in BOOLEAN /\ late' = NoRequests /\ stop' = "none"
  /\ \E o \in Outcomes :
       /\ Gate(o, "commit_prompt")
       /\ IF o = "pass" THEN Push("prompt", <<>>, 0)
                        ELSE UNCHANGED <<messages, pushed>>
  /\ phase' = <<>> /\ terminate' = TRUE
  /\ UNCHANGED <<log, queue, refused>>

CommitPrompt ==
  /\ pc = "commit_prompt"
  /\ \E o \in Outcomes : Gate(o, "top") /\ Commit(o)
  /\ UNCHANGED <<messages, pushed, run, queue, batch>>

\* Top of the inner loop: the iteration cap.
HitLimit ==
  /\ pc = "top" /\ iteration >= MaxIterations
  /\ pc' = "failed"
  /\ UNCHANGED <<messages, pushed, log, run, queue, batch, refused>>

\* ... the abort signal, polled here only.
SeeAbort ==
  /\ pc = "top" /\ iteration < MaxIterations /\ aborted
  /\ iteration' = iteration + 1
  /\ stop' = "error" /\ pc' = "agent_end"
  /\ UNCHANGED <<messages, pushed, log, aborted, late, queue, batch, refused>>

\* Slip: the signal is not polled.
StartTurnUnpolled ==
  /\ pc = "top" /\ iteration < MaxIterations
  /\ iteration' = iteration + 1
  /\ PushAll("steering", steering) /\ steering' = 0
  /\ \E o \in Outcomes : Gate(o, "compact")
  /\ UNCHANGED <<log, aborted, late, stop, follow_ups, batch, refused>>

\* ... then steering messages are drained and PreTurn is fired.
StartTurn ==
  /\ pc = "top" /\ iteration < MaxIterations /\ ~aborted
  /\ iteration' = iteration + 1
  /\ PushAll("steering", steering) /\ steering' = 0
  /\ \E o \in Outcomes : Gate(o, "compact")
  /\ UNCHANGED <<log, aborted, late, stop, follow_ups, batch, refused>>

\* A model request goes out.
Ask(kind) == late' = IF aborted THEN [late EXCEPT ![kind] = @ + 1] ELSE late

\* maybe_compact_step: nothing to fold away, or the summarizer asks its model,
\* under an AbortSignal of its own that nobody pulls.
Compact ==
  /\ pc = "compact"
  /\ \/ pc' = "request" /\ UNCHANGED late
     \/ pc' = "summary" /\ Ask("summary")
  /\ UNCHANGED <<messages, pushed, log, iteration, aborted, stop,
                 queue, batch, refused>>

\* The summary fails or is empty, or a PreCompact hook stops the run or cancels
\* the marker, or it is pushed.
Summarize ==
  /\ pc = "summary"
  /\ \/ pc' \in {"request", "failed"} /\ UNCHANGED <<messages, pushed>>
     \/ pc' = "commit_marker" /\ Push("marker", <<>>, 0)
  /\ UNCHANGED <<log, run, queue, batch, refused>>

\* The marker is committed and PostCompact fired.
CommitMarker ==
  /\ pc = "commit_marker"
  /\ \E o, post \in Outcomes :
       Commit(o) /\ Gate(IF o = "pass" THEN post ELSE o, "request")
  /\ UNCHANGED <<messages, pushed, run, queue, batch>>

\* transform_outgoing, PreModelRequest and ModelAdapter::complete.
Request ==
  /\ pc = "request"
  /\ \/ pc' = "failed" /\ UNCHANGED late
     \/ pc' = "stream" /\ Ask("turn")
  /\ UNCHANGED <<messages, pushed, log, iteration, aborted, stop,
                 queue, batch, refused>>

\* The stream breaks.
StreamError ==
  /\ pc = "stream" /\ pc' = "failed"
  /\ UNCHANGED <<messages, pushed, log, run, queue, batch, refused>>

\* The stream ends: an assistant message with any tool calls and any stop
\* reason; error, refusal and max_tokens are terminal.
Answer ==
  /\ pc = "stream"
  /\ \E calls \in Batches \union {<<>>} : Push("assistant", calls, 0)
  /\ stop' \in {"end_turn", "error"}
  /\ pc' = "commit_assistant"
  /\ UNCHANGED <<log, iteration, aborted, late, queue, batch, refused>>

\* The answer is committed, PostTurn fired, and the driver decides how to go
\* on; dispatch_tools classifies the calls.
CommitAssistant ==
  /\ pc = "commit_assistant"
  /\ \E o, post \in Outcomes :
       /\ Commit(o)
       /\ Gate(IF o = "pass" THEN post ELSE o,
               IF stop = "error" THEN "agent_end"
               ELSE IF Calls = <<>> THEN "follow_up" ELSE "tools")
  /\ phase' = [k \in DOMAIN Calls |-> "waiting"]
  /\ terminate' = TRUE
  /\ UNCHANGED <<messages, pushed, run, queue>>

-----------------------------------------------------------------------------
(* dispatch_tools and process_one_call *)

\* Slips: the sequential calls do not wait for each other; every call waits for
\* the ones before it.
ReadyTogether(k) ==
  /\ phase[k] = "waiting"
  /\ pc = IF Calls[k] = "parallel" THEN "tools" ELSE "sequential"

ReadyInOrder(k) ==
  /\ phase[k] = "waiting"
  /\ pc = IF Calls[k] = "parallel" THEN "tools" ELSE "sequential"
  /\ \A j \in DOMAIN phase : j < k => Settled(j)

\* A call may start: any parallel one at once; a sequential one after the
\* parallel batch has been collected and all sequential ones before it.
Ready(k) ==
  /\ phase[k] = "waiting"
  /\ \/ pc = "tools" /\ Calls[k] = "parallel"
     \/ /\ pc = "sequential" /\ Calls[k] = "sequential"
        /\ \A j \in Idx("sequential") : j < k => phase[j] = "done"

\* The pre hooks are asked; that may take long (an approval prompt).
StartCall(k) ==
  /\ Ready(k)
  /\ phase' = [phase EXCEPT ![k] = "gate"]
  /\ UNCHANGED <<pc, messages, pushed, log, run, queue, terminate, refused>>

\* A pre hook lets the call through: the tool starts.
PassCall(k) ==
  /\ pc \in {"tools", "sequential"} /\ phase[k] = "gate"
  /\ phase' = [phase EXCEPT ![k] = "run"]
  /\ UNCHANGED <<pc, messages, pushed, log, run, queue, terminate, refused>>

\* The tool returned, or a pre hook denied or replaced it; the post hooks have
\* the last word on the result and on terminating.
FinishCall(k) ==
  /\ pc \in {"tools", "sequential"} /\ phase[k] \in {"gate", "run"}
  /\ phase' = [phase EXCEPT ![k] = "done"]
  /\ terminate' \in {terminate, FALSE}
  /\ UNCHANGED <<pc, messages, pushed, log, run, queue, refused>>

\* A pre hook aborts the run or demands attention.  In the sequential part that
\* ends the run at once, in the parallel one after all have settled.
FailCall(k) ==
  /\ pc \in {"tools", "sequential"} /\ phase[k] = "gate"
  /\ phase' = [phase EXCEPT ![k] = "err"]
  /\ pc' = IF pc = "sequential" THEN "failed" ELSE pc
  /\ UNCHANGED <<messages, pushed, log, run, queue, terminate, refused>>

\* join_all is done: the first error ends the run.
CollectParallel ==
  /\ pc = "tools" /\ \A k \in Idx("parallel") : Settled(k)
  /\ pc' = IF \E k \in Idx("parallel") : phase[k] = "err"
           THEN "failed" ELSE "sequential"
  /\ UNCHANGED <<messages, pushed, log, run, queue, batch, refused>>

CollectSequential ==
  /\ pc = "sequential" /\ \A k \in Idx("sequential") : phase[k] = "done"
  /\ pc' = "results"
  /\ UNCHANGED <<messages, pushed, log, run, queue, batch, refused>>

\* Slip: off by one.
AnsweredAndOne == IF Last(messages).kind = "tool" THEN Last(messages).of + 1 ELSE 0

\* How many results of the batch have been pushed: the trailing tool messages.
Answered == IF Last(messages).kind = "tool" THEN Last(messages).of ELSE 0

\* One result message, in source order, pushed and committed; after the last
\* one the batch ends the run if every call asked for it.
PushResult ==
  /\ pc = "results"
  /\ LET k == Answered + 1
     IN  /\ Push("tool", <<>>, k)
         /\ log' = Append(log, Msg("tool", <<>>, k, pushed))
         /\ \/ k < Len(phase) /\ UNCHANGED <<pc, stop, batch>>
            \/ /\ k = Len(phase)
               /\ IF terminate
                  THEN pc' = "agent_end" /\ stop' = "end_turn"
                  ELSE pc' = "top" /\ UNCHANGED stop
               /\ phase' = <<>> /\ terminate' = TRUE
  /\ UNCHANGED <<iteration, aborted, late, queue, refused>>

-----------------------------------------------------------------------------
\* A natural stop: without follow-ups the run ends, with some it goes on.
FollowUp ==
  /\ pc = "follow_up"
  /\ pc' = IF follow_ups = 0 THEN "agent_end" ELSE "top"
  /\ PushAll("follow_up", follow_ups) /\ follow_ups' = 0
  /\ UNCHANGED <<log, run, steering, batch, refused>>

AgentEnd ==
  /\ pc = "agent_end"
  /\ \E o \in Outcomes : Gate(o, "done")
  /\ UNCHANGED <<messages, pushed, log, run, queue, batch, refused>>

Driver ==
  \/ CommitPrompt \/ HitLimit \/ SeeAbort \/ StartTurn
  \/ Compact \/ Summarize \/ CommitMarker
  \/ Request \/ StreamError \/ Answer \/ CommitAssistant
  \/ \E k \in DOMAIN phase :
       StartCall(k) \/ PassCall(k) \/ FinishCall(k) \/ FailCall(k)
  \/ CollectParallel \/ CollectSequential \/ PushResult
  \/ FollowUp \/ AgentEnd

\* Someone pulls the abort signal.
Abort ==
  /\ Running /\ ~aborted /\ aborted' = TRUE
  /\ UNCHANGED <<pc, messages, pushed, log, iteration, late, stop,
                 queue, batch, refused>>

\* Someone queues a steering or a follow-up message.
Enqueue ==
  /\ pushed + steering + follow_ups < MaxPushed
  /\ \/ steering' = steering + 1 /\ UNCHANGED follow_ups
     \/ follow_ups' = follow_ups + 1 /\ UNCHANGED steering
  /\ UNCHANGED <<pc, messages, pushed, log, run, batch, refused>>

\* The process is killed; a new one resumes from the log.
Crash ==
  /\ Running
  /\ pc' = "idle" /\ messages' = log
  /\ steering' = 0 /\ follow_ups' = 0
  /\ phase' = <<>> /\ terminate' = TRUE
  /\ UNCHANGED <<pushed, log, run, refused>>

Next == Begin \/ Driver \/ Abort \/ Enqueue \/ Crash

\* The runtime keeps polling the driver; models, tools and hooks answer.
Spec == Init /\ [][Next]_vars /\ WF_vars(Driver)

-----------------------------------------------------------------------------
Message ==
  [kind : Kinds, calls : Batches \union {<<>>}, of : Nat, n : Nat]

TypeOK ==
  /\ pc \in Resting \union
       {"commit_prompt", "top", "compact", "summary", "commit_marker", "request",
        "stream", "commit_assistant", "tools", "sequential", "results",
        "follow_up", "agent_end"}
  /\ messages \in Seq(Message) /\ log \in Seq(Message)
  /\ pushed \in Nat /\ iteration \in Nat /\ late \in [Requests -> Nat]
  /\ steering \in Nat /\ follow_ups \in Nat
  /\ aborted \in BOOLEAN
  /\ stop \in {"none", "end_turn", "error"}
  /\ phase \in Seq({"waiting", "gate", "run", "done", "err"})
  /\ terminate \in BOOLEAN
  /\ refused \subseteq Nat

InGate == pc \in {"commit_prompt", "commit_marker", "commit_assistant"}

\* What of the conversation belongs on disk: all but injected messages,
\* messages a hook stopped the run on, and one still in its gate.
Stored ==
  {m \in ToSet(messages) : /\ m.kind \notin Injected
                           /\ m.n \notin refused
                           /\ ~(InGate /\ m = Last(messages))}

InOrder(s) == \A i, j \in DOMAIN s : i < j => s[i].n < s[j].n

\* On disk is exactly that, each message once and unchanged; disk and memory
\* have their messages in the order in which they were pushed.
LogIsCommittedPart ==
  ToSet(log) = Stored /\ InOrder(messages) /\ InOrder(log)

\* In memory and on disk, the k-th tool result after an assistant message
\* answers its k-th call: whatever order the calls ended in, no batch has a gap,
\* a duplicate, or a result without its call, aborts and kills included.
ResultsFollowCalls ==
  \A s \in {messages, log} : \A i \in DOMAIN s :
    s[i].kind = "tool" =>
      LET a == i - s[i].of
      IN  /\ a \in DOMAIN s
          /\ s[a].kind = "assistant" /\ s[i].of \in DOMAIN s[a].calls
          /\ \A j \in (a + 1) .. i : s[j].kind = "tool" /\ s[j].of = j - a

\* A sequential call never overlaps any other call of its batch.
SequentialIsAlone ==
  \A j, k \in DOMAIN phase :
    /\ pc \in {"tools", "sequential"}
    /\ j # k /\ Calls[k] = "sequential"
    /\ phase[j] \in {"gate", "run"}
    => phase[k] \notin {"gate", "run"}

\* Once the signal is up only the turn that has begun makes requests: at most one
\* for a summary, whose model does not hear of the abort, and at most one for
\* the turn itself.
AbortStopsRequests == \A kind \in Requests : late[kind] <= 1

\* Every run ends, however much is queued and however many tools are called.
RunEnds == Running ~> ~Running

-----------------------------------------------------------------------------
(* Claims of the documentation that the code does not keep. *)

\* MessageCommitted lets a replay rebuild the state (event.rs): a run that ends
\* well leaves on disk what it has in memory.
ReplayRebuildsState ==
  pc = "done" /\ stop = "end_turn" /\ refused = {} => log = messages

=============================================================================
