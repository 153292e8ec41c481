------------------------------ MODULE ToolGate ------------------------------
(***************************************************************************)
(* The tool calls of hivecore-coder between the model and the world: the   *)
(* registry main builds, the approval hook in front of every call, the MCP *)
(* tools behind it, and the audit log beside it.                           *)
(*                                                                         *)
(* The model answers with one batch of calls after another.  A batch is    *)
(* dispatched as by AgentLoop::dispatch_tools: the parallel calls at once, *)
(* then the sequential ones in order.  Approval and McpClient say what a   *)
(* single call does.                                                       *)
(***************************************************************************)
EXTENDS McpClient, Approval

CONSTANTS
  FirstHints,  \* what the servers may say of their tools at first
  Changing,    \* the tools the servers may change their mind about
  Hooks,       \* the policies and matchers the hook may be built with
  AllTools,    \* tool names of all sources: built in, MCP, browser
  RoleTools,   \* the tools allowlist of the role, or None
  Excluded,    \* --exclude
  Requests,    \* the tool calls the model may make
  MaxBatches,  \* bound: batches of one run
  MaxChanges   \* bound: deaths and changes of the servers

\* role.tools shrinks the tools to those it names, then --exclude drops some.
Registry ==
  (IF RoleTools = None THEN AllTools ELSE AllTools \intersect RoleTools) \ Excluded

ASSUME GateAssumption ==
  /\ FirstHints \subseteq [Tools -> Hints] /\ Changing \subseteq Tools
  /\ IsFiniteSet(Calls) /\ Calls = 1 .. Cardinality(Calls)
  /\ \A r \in Requests : r.server \in Servers /\ r.raw \in RawTools
  /\ \A h \in Hooks : h.policy \in Policies
  /\ MaxBatches \in Nat /\ MaxChanges \in Nat

VARIABLES
  policy, rules,  \* of the ApprovalHook, fixed at the start
  approved,       \* its SessionCache
  batch,          \* the calls of the current batch
  mode,           \* how each of them is dispatched, as classified at its start
  pc,             \* "none", "waiting", "asking", "running", "ended", "stopped"
  batches,        \* how many there were
  stopped,        \* ManualAttention ended the run
  said,           \* history: the decision a call was given
  session,        \* history: the tools the user approved for the session
  pending,        \* AuditWriter: the Start event of a tool call id
  caused_by,      \* of the tool_exec_end record of each call of the batch
  started,        \* history: the calls of the batch with a ToolExecStart
  vouched,        \* history: the tools announced at some time of the batch
  changes         \* counts up to MaxChanges

hook  == <<policy, rules, approved, said, session>>
calls == <<batch, mode, batches, stopped>>
audit == <<pending, caused_by, started>>
vars  == <<mcp, hook, calls, pc, audit, vouched, changes>>

\* The audit event of the ToolExecStart of a call.  The tool call id is the
\* place in the batch: a model may use an id again in a later one.
Call(c) == <<batches, c>>

Init ==
  /\ McpInit(FirstHints)
  /\ \E h \in Hooks : policy = h.policy /\ rules = h.rules
  /\ approved = {}
  /\ batch = <<>> /\ mode = <<>> /\ batches = 0 /\ stopped = FALSE
  /\ pc = [c \in Calls |-> "none"]
  /\ said = [c \in Calls |-> "nothing"] /\ session = {}
  /\ pending = [c \in Calls |-> None]
  /\ caused_by = [c \in Calls |-> None] /\ started = {}
  /\ vouched = {} /\ changes = 0

Over(c) == pc[c] \in {"none", "ended", "stopped"}

\* Phase 1 of dispatch_tools: every call is classified before any runs.
Dispatch(b) ==
  /\ ~stopped /\ \A c \in Calls : Over(c)
  /\ batches < MaxBatches /\ batches' = batches + 1
  /\ batch' = b
  /\ mode' = [c \in DOMAIN b |->
                IF b[c].name \in Registry THEN Mode(b[c]) ELSE "sequential"]
  /\ pc' = [c \in Calls |-> IF c \in DOMAIN b THEN "waiting" ELSE "none"]
  /\ said' = [c \in Calls |-> "nothing"]
  /\ caused_by' = [c \in Calls |-> None] /\ started' = {}
  /\ vouched' = announced
  /\ UNCHANGED <<mcp, policy, rules, approved, session, stopped, pending, changes>>

\* Phase 2: a parallel call may go at once, a sequential one after all the
\* parallel ones and the sequential ones before it.
Turn(c) ==
  /\ ~stopped
  /\ mode[c] = "sequential" =>
       \A d \in DOMAIN batch :
         mode[d] = "parallel" \/ d < c => Over(d)

Goto(c, at) == pc' = [pc EXCEPT ![c] = at]

\* ToolExecStart: AuditWriter notes the event under the tool call id.
Start(c) ==
  /\ Goto(c, "running")
  /\ pending' = [pending EXCEPT ![c] = Call(c)]
  /\ started' = started \union {c}
  /\ UNCHANGED <<stopped, caused_by>>

\* Slip: the entry of the Start is kept.
EndKeeping(c) ==
  /\ Goto(c, "ended")
  /\ caused_by' = [caused_by EXCEPT ![c] = pending[c]]
  /\ UNCHANGED <<stopped, pending, started>>

\* ToolExecEnd, also of a call that was refused and never started: the entry is
\* taken out and named as the cause.
End(c) ==
  /\ Goto(c, "ended")
  /\ caused_by' = [caused_by EXCEPT ![c] = pending[c]]
  /\ pending' = [pending EXCEPT ![c] = None]
  /\ UNCHANGED <<stopped, started>>

\* ManualAttention: no ToolExecEnd.  The parallel calls of the batch still run
\* to their end; then dispatch_tools fails and the run with it.
Attention(c) == Goto(c, "stopped") /\ UNCHANGED <<stopped, audit>>

Follow(c, outcome) ==
  CASE outcome = "Pass" -> Start(c)
    [] outcome = "FailedContinue" -> End(c)
    [] outcome = "ManualAttention" -> Attention(c)

Verdict(req) == Before(policy, rules, req.name, ReadOnly(req), approved)

\* ApprovalHook::before up to its await.
Gate(c) ==
  /\ pc[c] = "waiting" /\ Turn(c)
  /\ LET v == Verdict(batch[c])
     IN  IF v = "Ask" THEN Goto(c, "asking") /\ UNCHANGED <<stopped, audit>>
         ELSE Follow(c, v)
  /\ UNCHANGED <<mcp, hook, batch, mode, batches, vouched, changes>>

\* The user's answer, and what before() makes of it.
Answer(c, decision) ==
  LET name == batch[c].name
  IN  /\ pc[c] = "asking"
      /\ approved' = Remember(decision, name, approved)
      /\ said' = [said EXCEPT ![c] = decision]
      /\ session' = IF decision = "ApprovedForSession"
                    THEN session \union {name} ELSE session
      /\ Follow(c, OutcomeOf(decision))
      /\ UNCHANGED <<mcp, policy, rules, batch, mode, batches, vouched, changes>>

Remote(req) == req.name \in Registry \intersect {"mcp_call", "mcp_discover"}

\* A tool without a wait on a server ends: the built-in ones, mcp_servers, an
\* unknown name, and MCP calls refused on the spot.
Finish(c) ==
  /\ pc[c] = "running" /\ link[c] = Off
  /\ ~(Remote(batch[c]) /\ Accepted(batch[c]))
  /\ End(c)
  /\ UNCHANGED <<mcp, hook, batch, mode, batches, vouched, changes>>

\* A step of an MCP tool; the call ends when it waits for nothing any more.
Then(c) ==
  /\ pc[c] = "running"
  /\ IF link'[c] = Off THEN End(c) ELSE UNCHANGED <<pc, stopped, audit>>
  /\ vouched' = vouched \union announced'
  /\ UNCHANGED <<hook, batch, mode, batches, changes>>

Contact(c) == pc[c] = "running" /\ Remote(batch[c]) /\ Reach(c, batch[c]) /\ Then(c)
StartUp(c) == Connected(c, batch[c], batches) /\ Then(c)
NoStart(c) == ConnectFails(c) /\ Then(c)
Result(c)  == Answered(c) /\ Then(c)
Break(c)   == CallFails(c) /\ Then(c)
Timeout(c) == CallTimesOut(c) /\ Then(c)
List(c)    == Listed(c, batch[c]) /\ Then(c)

\* A call has stopped the run: no sequential call follows, and when the
\* parallel ones are over the run fails.
Fail ==
  /\ ~stopped
  /\ \E c \in DOMAIN batch : pc[c] = "stopped"
  /\ \A c \in DOMAIN batch : pc[c] \in {"waiting", "ended", "stopped"}
  /\ stopped' = TRUE
  /\ UNCHANGED <<mcp, hook, batch, mode, batches, pc, audit, vouched, changes>>

Environment ==
  /\ changes < MaxChanges /\ changes' = changes + 1
  /\ \/ \E conn \in alive : ServerDies(conn)
     \/ \E t \in Changing, h \in Hints : ServerChanges(t, h)
  /\ UNCHANGED <<hook, calls, pc, audit, vouched>>

Batches == UNION {[1 .. n -> Requests] : n \in Calls}

Next ==
  \/ \E b \in Batches : Dispatch(b)
  \/ \E c \in DOMAIN batch :
       \/ Gate(c) \/ (\E k \in Keys : Answer(c, CliDecision(k))) \/ Finish(c)
       \/ Contact(c) \/ StartUp(c) \/ NoStart(c)
       \/ Result(c) \/ Break(c) \/ Timeout(c) \/ List(c)
  \/ Fail
  \/ Environment

\* The timers of the client fire.  No server need answer.
Fairness ==
  \A c \in Calls :
    /\ WF_vars(c \in DOMAIN batch /\ NoStart(c))
    /\ WF_vars(c \in DOMAIN batch /\ Timeout(c))

Spec == Init /\ [][Next]_vars /\ Fairness

-----------------------------------------------------------------------------
Names == {r.name : r \in Requests}
AuditEvents == {None} \union Nat \X Calls

TypeOK ==
  /\ McpTypeOK
  /\ \E h \in Hooks : policy = h.policy /\ rules = h.rules
  /\ policy \in Policies
  /\ approved \subseteq Names /\ session \subseteq Names
  /\ batch = <<>> \/ batch \in Batches
  /\ mode \in [DOMAIN batch -> {"parallel", "sequential"}]
  /\ pc \in [Calls -> {"none", "waiting", "asking", "running", "ended", "stopped"}]
  /\ said \in [Calls -> Decisions \union {"nothing"}]
  /\ batches \in Nat /\ started \subseteq Calls /\ vouched \subseteq Tools
  /\ pending \in [Calls -> AuditEvents] /\ caused_by \in [Calls -> AuditEvents]
  /\ \A c \in Calls : link[c] # Off => pc[c] = "running"

\* What somebody asked to be asked about: the matcher, or the configuration of
\* an MCP server by the approval mode of the tool.
AskedFor(req) ==
  \/ Classify(rules, req.name) # "Allow"
  \/ /\ req.name = "mcp_call" /\ req.server \in DOMAIN config
     /\ ApprovalMode(req.server, req.raw) # "never"

\* The code hears the matcher only: where that allows mcp_call, as the coder's
\* own does, a tool runs unasked whatever its approval mode.
Unheard(req) == req.name = "mcp_call" /\ Classify(rules, req.name) = "Allow"

Vouched(req) == req.name = "mcp_call" /\ <<req.server, req.raw>> \in vouched

\* Whatever has run of a kind the matcher asks about, the user allowed it: by
\* its own answer, by one for the session - or, under UnlessTrusted, because by
\* the newest annotations of a trusted server the tool was read-only when the
\* batch began, or has become so in it.  Nothing denied, and under a policy that
\* cannot ask nothing asked about, has run.  Approval modes are the exception.
RunsWithConsent ==
  \A c \in DOMAIN batch :
    c \in started /\ AskedFor(batch[c]) /\ ~Unheard(batch[c]) =>
      /\ Classify(rules, batch[c].name) # "Deny"
      /\ policy \in {"OnRequest", "UnlessTrusted"}
      /\ \/ said[c] \in Consent
         \/ batch[c].name \in session
         \/ policy = "UnlessTrusted" /\ Vouched(batch[c])

\* Two MCP calls are in flight together only when both tools were read-only by
\* the newest annotations of a trusted server, when the batch began or later in
\* it, and a tool with side effects never runs beside anything, also when a
\* listing of the same batch changes the cache.  (A listing that says nothing
\* of a tool, or leaves it out, takes nothing back.)
Harmless(req) ==
  /\ req.name \notin SideEffects
  /\ req.name = "mcp_call" => Vouched(req)

TogetherOnlyIfHarmless ==
  \A c, d \in DOMAIN batch :
    /\ c # d
    /\ pc[c] \in {"asking", "running"} /\ pc[d] \in {"asking", "running"}
    => Harmless(batch[c]) /\ Harmless(batch[d])

\* A server's processes are all started by one batch: its first contacts may
\* race, but from then on every call gets the connection that is there.
FirstContactOnly ==
  \A s \in Servers : \A m, n \in DOMAIN spawned[s] : spawned[s][m] = spawned[s][n]

\* An audit record of a tool's end names the start of that very call, and none
\* when the call was refused, whatever ids the model reuses.
EndNamesItsStart ==
  \A c \in Calls :
    pc[c] = "ended" => caused_by[c] = IF c \in started THEN Call(c) ELSE None

\* An mcp_call that has reached the network ends, whatever its server does.
McpCallEnds ==
  \A c \in Calls :
    link[c].at \in {"connecting", "calling"}
      ~> link[c].at \notin {"connecting", "calling"}
=============================================================================
