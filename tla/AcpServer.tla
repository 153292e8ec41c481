----------------------------- MODULE AcpServer ------------------------------
(***************************************************************************)
(* The ACP server: a dispatch loop reads the client's messages one at a    *)
(* time, a task of its own runs every prompt, tasks of one session queue   *)
(* for the session's AgentLoop, and a tool that needs approval asks the    *)
(* client - whose answer comes in through the dispatch loop again.         *)
(*                                                                         *)
(* Prompts are numbered as the client sends them.  A reply of the model is *)
(* one step here; ModelTurn says what goes into it.  The calls of a reply  *)
(* are given in the order they run, one after another: of those that run   *)
(* together (see ToolGate) none is ever asked about by the server's hook.  *)
(***************************************************************************)
EXTENDS Agents, Approval

CONSTANTS
  Sessions,      \* session ids the client may name
  Replies,       \* what the model may answer
  MaxPrompts,    \* bound: prompts of the client
  MaxOthers      \* bound: its other messages

Prompts == 1 .. MaxPrompts

\* Stops of a reply: those of the API, and "failed" when the request fails or
\* the stream breaks off (the calls that arrived were announced already).
Stops == {"EndTurn", "ToolUse", "StopSequence", "MaxTokens", "Refusal", "Error",
          "failed"}
\* Answers to a session/prompt request.
Answers == {"end_turn", "max_tokens", "refusal"}

ASSUME AcpAssumption ==
  /\ MaxPrompts \in Nat /\ MaxOthers \in Nat
  /\ \A names \in SUBSET DOMAIN CoderDefaults : names # None
  /\ None \notin Answers
  /\ \A r \in Replies : r.stop \in Stops /\ r.calls \in Seq(STRING)
  \* A skill with the name of a tool that is asked about would take its place in
  \* the registry, and run beside others.
  /\ \A f \in ToSet(Skills) : f.name \notin DOMAIN CoderDefaults

VARIABLES
  approval_disabled,  \* HIVECORE_NO_APPROVAL, for as long as the server runs
  inbox,     \* the client's messages the dispatch loop has not read
  sessions,  \* ServerState.sessions: None, or the SessionCache of its hook
  queue,     \* Mutex<AgentLoop>: the task that holds it, then those waiting
  conv,      \* state.messages
  task,      \* of each prompt
  answered,  \* the stop reason each prompt was answered with
  open,      \* calls the client was told of and saw no end of
  said,      \* history: the client's answer about the call under way
  granted,   \* history: the tools it allowed for the session
  others     \* counts up to MaxOthers

net  == <<approval_disabled, inbox, others>>
log  == <<said, granted>>
vars == <<net, sessions, queue, conv, task, answered, open, log>>

Unsent == [at |-> "unsent", session |-> None, iteration |-> 0, calls |-> <<>>, child |-> 0]

Init ==
  /\ approval_disabled \in BOOLEAN
  /\ inbox = <<>> /\ others = 0
  /\ sessions = [s \in Sessions |-> None]
  /\ queue = [s \in Sessions |-> <<>>] /\ conv = [s \in Sessions |-> <<>>]
  /\ task = [p \in Prompts |-> Unsent]
  /\ answered = [p \in Prompts |-> None]
  /\ open = [p \in Prompts |-> {}]
  /\ said = [p \in Prompts |-> "nothing"]
  /\ granted = [s \in Sessions |-> {}]

-----------------------------------------------------------------------------
(* The client. *)

Post(message) == inbox' = Append(inbox, message) /\ UNCHANGED approval_disabled

\* session/prompt, also for an id session/new never returned.
SendPrompt(s) ==
  \E p \in Prompts :
    /\ task[p].at = "unsent" /\ \A q \in 1 .. p - 1 : task[q].at # "unsent"
    /\ task' = [task EXCEPT ![p].at = "sent", ![p].session = s]
    /\ Post([type |-> "prompt", prompt |-> p])
    /\ UNCHANGED <<sessions, queue, conv, answered, open, log, others>>

\* initialize, session/new, session/cancel and all others.
SendOther ==
  /\ others < MaxOthers /\ others' = others + 1
  /\ Post([type |-> "other"])
  /\ UNCHANGED <<sessions, queue, conv, task, answered, open, log>>

\* The answer to session/request_permission.
Choose(p, option) ==
  /\ task[p].at = "asking"
  /\ task' = [task EXCEPT ![p].at = "chosen"]
  /\ Post([type |-> "option", prompt |-> p, option |-> option])
  /\ UNCHANGED <<sessions, queue, conv, answered, open, log, others>>

-----------------------------------------------------------------------------
(* A prompt's task. *)

AcpStopRaw(stop) == IF stop = "EndTurn" THEN "end_turn" ELSE stop

AcpStop(stop) ==
  CASE stop \in {"EndTurn", "ToolUse", "StopSequence"} -> "end_turn"
    [] stop = "MaxTokens" -> "max_tokens"
    [] stop \in {"Refusal", "Error", "failed"} -> "refusal"

At(p, where) == task' = [task EXCEPT ![p].at = where]
Commit(p, kind) ==
  conv' = [conv EXCEPT ![task[p].session] = Append(@, [prompt |-> p, kind |-> kind])]

\* run_prompt_turn returns: the AgentLoop is given back, the prompt answered.
Respond(p, stop) ==
  /\ At(p, "done")
  /\ queue' = [queue EXCEPT ![task[p].session] = Tail(@)]
  /\ answered' = [answered EXCEPT ![p] = AcpStop(stop)]

Lock(p) ==
  /\ task[p].at = "spawned"
  /\ At(p, "queued")
  /\ queue' = [queue EXCEPT ![task[p].session] = Append(@, p)]
  /\ UNCHANGED <<net, sessions, conv, answered, open, log>>

\* The mutex is handed on in the order it was asked for.
Begin(p) ==
  /\ task[p].at = "queued" /\ Head(queue[task[p].session]) = p
  /\ At(p, "model")
  /\ Commit(p, "prompt")
  /\ UNCHANGED <<net, sessions, queue, answered, open, log>>

Exhausted(p) ==
  /\ task[p].at = "model" /\ task[p].iteration = SessionAgent.max_iterations
  /\ Respond(p, "failed")
  /\ UNCHANGED <<net, sessions, conv, open, log>>

\* A call is named by its reply and its place in it, counted from the end.
CallId(p, i) == <<task[p].iteration, i>>
CallsOf(p, r) == {task[p].iteration + 1} \X (1 .. Len(r.calls))

\* session/update with a ToolCall: the client shows it as not ended.
Announce(p, ids) == open' = [open EXCEPT ![p] = @ \union ids]

\* A reply: the deltas of its calls are announced as they come; then it is
\* committed, and ends the turn or has its calls run.
Reply(p, r) ==
  /\ task[p].at = "model" /\ task[p].iteration < SessionAgent.max_iterations
  /\ Announce(p, CallsOf(p, r))
  /\ IF r.stop = "failed" THEN UNCHANGED conv
     ELSE Commit(p, IF r.calls = <<>> THEN "text" ELSE "calls")
  /\ IF r.stop \in {"Error", "Refusal", "MaxTokens", "failed"} \/ r.calls = <<>>
     THEN Respond(p, r.stop)
     ELSE /\ task' = [task EXCEPT ![p].at = "call", ![p].calls = r.calls,
                                  ![p].iteration = @ + 1]
          /\ UNCHANGED <<queue, answered>>
  /\ UNCHANGED <<net, sessions, log>>

\* ToolExecEnd.  After the last call of a reply, all results are committed.
EndCall(p) ==
  LET rest == Tail(task[p].calls)
  IN  /\ open' = [open EXCEPT ![p] = @ \ {CallId(p, Len(rest) + 1)}]
      /\ said' = [said EXCEPT ![p] = "nothing"]
      /\ task' = [task EXCEPT ![p].calls = rest,
                              ![p].at = IF rest = <<>> THEN "model" ELSE "call"]
      /\ IF rest = <<>> THEN Commit(p, "results") ELSE UNCHANGED conv

\* ToolExecStart announces the call once more.
Start(p) ==
  /\ At(p, "running")
  /\ Announce(p, {CallId(p, Len(task[p].calls))})

\* AcpPrompter::request: a counter-request, which shows the call as pending.
Ask(p) ==
  /\ At(p, "asking")
  /\ Announce(p, {CallId(p, Len(task[p].calls))})

\* ApprovalHook::before, if the session has one.
Gate(p) ==
  LET name == Head(task[p].calls)
      verdict == IF approval_disabled THEN "Pass"
                 ELSE Before("OnRequest", CoderDefaults, name, FALSE,
                             sessions[task[p].session])
  IN  /\ task[p].at = "call"
      /\ IF verdict = "Ask" THEN Ask(p) ELSE Start(p)
      /\ UNCHANGED <<net, sessions, queue, conv, answered, log>>

\* The client's answer has reached the task.
Decided(p, decision) ==
  LET s == task[p].session
      name == Head(task[p].calls)
  IN  /\ sessions' = [sessions EXCEPT ![s] = Remember(decision, name, @)]
      /\ granted' = IF decision = "ApprovedForSession"
                    THEN [granted EXCEPT ![s] = @ \union {name}] ELSE granted
      /\ CASE OutcomeOf(decision) = "Pass" ->
                Start(p) /\ said' = [said EXCEPT ![p] = decision]
                /\ UNCHANGED <<queue, conv, answered>>
           [] OutcomeOf(decision) = "FailedContinue" ->
                EndCall(p) /\ UNCHANGED <<queue, answered>>
           [] OutcomeOf(decision) = "ManualAttention" ->
                Respond(p, "failed") /\ UNCHANGED <<conv, open, said>>

\* The agent a skill's body goes to; without one, the body is the result.
Delegate(name) ==
  IF name \in SkillsOf(SessionAgent) THEN SkillOf(name).agent ELSE None

\* Tool::execute, up to its end - or to the start of a sub-agent.  An unknown
\* tool, an unknown agent and a failing tool end in an error result.  (A tool
\* that panics is left out.)
Execute(p) ==
  LET name == Head(task[p].calls)
  IN  /\ task[p].at = "running"
      /\ IF name \in SessionTools /\ Delegate(name) \in AgentIds
         THEN /\ task' = [task EXCEPT ![p].at = "child", ![p].child = 0]
              /\ UNCHANGED <<conv, open, said>>
         ELSE EndCall(p)
      /\ UNCHANGED <<net, sessions, queue, answered, granted>>

\* A reply in the sub-agent's own AgentLoop, which has neither hooks nor sink
\* nor skills: its calls are not asked about and the client is told nothing.
\* Its last reply, its failure and its iteration limit end the call.
ChildReply(p, r) ==
  /\ task[p].at = "child"
  /\ task[p].child < AgentOf(Delegate(Head(task[p].calls))).max_iterations
  /\ IF r.stop \in {"Error", "Refusal", "MaxTokens", "failed"} \/ r.calls = <<>>
     THEN EndCall(p)
     ELSE task' = [task EXCEPT ![p].child = @ + 1] /\ UNCHANGED <<conv, open, said>>
  /\ UNCHANGED <<net, sessions, queue, answered, granted>>

ChildExhausted(p) ==
  /\ task[p].at = "child"
  /\ task[p].child = AgentOf(Delegate(Head(task[p].calls))).max_iterations
  /\ EndCall(p)
  /\ UNCHANGED <<net, sessions, queue, answered, granted>>

Work(p) ==
  \/ Lock(p) \/ Begin(p) \/ Exhausted(p) \/ Gate(p) \/ Execute(p) \/ ChildExhausted(p)
  \/ \E r \in Replies : Reply(p, r) \/ ChildReply(p, r)

-----------------------------------------------------------------------------
(* The dispatch loop. *)

\* Slip: a session is built anew for every prompt.
EnsureSessionAfresh(s) == sessions' = [sessions EXCEPT ![s] = {}]

\* ensure_session, from the agent to the loop: the hooks and the sink of the
\* first prompt stay with the session.
EnsureSession(s) ==
  sessions' = IF sessions[s] = None THEN [sessions EXCEPT ![s] = {}] ELSE sessions

\* Slip: the handler awaits the turn itself.
AwaitedInline == {p \in Prompts : task[p].at \notin {"unsent", "sent", "done"}}

\* The turns the dispatch loop waits for: none, they are spawned.
Awaited == {}

Read ==
  /\ Awaited = {} /\ inbox # <<>>
  /\ inbox' = Tail(inbox) /\ UNCHANGED approval_disabled

OnPrompt ==
  /\ Read /\ Head(inbox).type = "prompt"
  /\ LET p == Head(inbox).prompt
     IN  EnsureSession(task[p].session) /\ At(p, "spawned")
  /\ UNCHANGED <<queue, conv, answered, open, log, others>>

\* The session cannot be built: the workspace is gone.
OnPromptRefused ==
  /\ Read /\ Head(inbox).type = "prompt"
  /\ LET p == Head(inbox).prompt
     IN  /\ sessions[task[p].session] = None
         /\ At(p, "done")
         /\ answered' = [answered EXCEPT ![p] = "refusal"]
  /\ UNCHANGED <<sessions, queue, conv, open, log, others>>

OnOption ==
  /\ Read /\ Head(inbox).type = "option"
  /\ Decided(Head(inbox).prompt, AcpDecision(Head(inbox).option))
  /\ UNCHANGED others

\* Answered on the spot; session/cancel too, with "not implemented".
OnOther ==
  /\ Read /\ Head(inbox).type = "other"
  /\ UNCHANGED <<sessions, queue, conv, task, answered, open, log, others>>

Dispatch == OnPrompt \/ OnPromptRefused \/ OnOption \/ OnOther

Next ==
  \/ \E s \in Sessions : SendPrompt(s)
  \/ SendOther
  \/ \E p \in Prompts : Work(p) \/ \E option \in Options : Choose(p, option)
  \/ Dispatch

\* The runtime runs the loop and the tasks; the model replies, tools end (bash
\* has a timeout), and the client answers what it is asked.
Fairness ==
  /\ WF_vars(Dispatch)
  /\ \A p \in Prompts : WF_vars(Work(p)) /\ WF_vars(\E option \in Options : Choose(p, option))

Spec == Init /\ [][Next]_vars /\ Fairness

-----------------------------------------------------------------------------
Messages ==
  [type : {"prompt"}, prompt : Prompts]
  \union [type : {"option"}, prompt : Prompts, option : Options]
  \union [type : {"other"}]

Tasks ==
  [at : {"unsent", "sent", "spawned", "queued", "model", "call",
         "asking", "chosen", "running", "child", "done"},
   session : {None} \union Sessions,
   iteration : 0 .. SessionAgent.max_iterations,
   calls : Seq(STRING),
   child : Nat]

Entries == [prompt : Prompts, kind : {"prompt", "text", "calls", "results"}]

TypeOK ==
  /\ approval_disabled \in BOOLEAN
  /\ inbox \in Seq(Messages)
  /\ sessions \in [Sessions -> {None} \union SUBSET DOMAIN CoderDefaults]
  /\ queue \in [Sessions -> Seq(Prompts)]
  /\ conv \in [Sessions -> Seq(Entries)]
  /\ task \in [Prompts -> Tasks]
  /\ answered \in [Prompts -> {None} \union Answers]
  /\ open \in [Prompts -> SUBSET (Nat \X Nat)]
  /\ said \in [Prompts -> Consent \union {"nothing"}]
  /\ granted \in [Sessions -> SUBSET DOMAIN CoderDefaults]

\* The turns of a session do not mix: its conversation is one whole turn after
\* another, and one that was answered with end_turn has the results of all its
\* calls, the end of which the client saw.
TurnsAreWhole ==
  /\ \A s \in Sessions : \A i, j \in DOMAIN conv[s] :
       i < j /\ conv[s][i].prompt = conv[s][j].prompt
       => \A k \in i .. j : conv[s][k].prompt = conv[s][i].prompt
  /\ \A p \in Prompts :
       answered[p] = "end_turn" =>
         /\ open[p] = {}
         /\ LET c == conv[task[p].session]
            IN  \A i \in DOMAIN c :
                  c[i] = [prompt |-> p, kind |-> "calls"] =>
                    i < Len(c) /\ c[i + 1] = [prompt |-> p, kind |-> "results"]

\* A tool of the session's agent that needs approval runs on the client's
\* answer about this very call or one it gave for this session, whichever
\* prompt that was given to; and what it allowed for the session it is not
\* asked about again.
ConsentStays ==
  \A p \in Prompts :
    LET name == Head(task[p].calls)
        s == task[p].session
    IN  /\ task[p].at = "running" /\ name \in DOMAIN CoderDefaults /\ ~approval_disabled
             => said[p] \in Consent \/ name \in granted[s]
        /\ task[p].at = "asking" => name \notin granted[s]

\* What a client may rely on: its sessions do not disturb one another, nor do
\* its prompts.
SessionsApart == TurnsAreWhole /\ ConsentStays

\* Every prompt is answered, whatever the client sends meanwhile, if it does
\* answer the questions it is asked.
EveryPromptIsAnswered ==
  \A p \in Prompts : task[p].at = "sent" ~> answered[p] # None
=============================================================================
