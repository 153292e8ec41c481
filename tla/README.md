# A TLA+ model of hivecore

hivecore is a runtime for language-model agents written in Rust: a driver loop
that alternates model turns and tool calls, an append-only session log from
which a later process resumes, and the policies, tools, browsers, editors and
servers around them. This directory models the parts whose correctness depends
on the order of steps of several actors, on crashes and on failing writes; checks
them with TLC; and proves the main invariants with TLAPS.

Paths below are relative to `src/crates/`; `hivecore-` is dropped from crate names.

## The system

| component | state it keeps | operations | what is hard | what makes it correct |
|---|---|---|---|---|
| **session log** (`persistence/sessions/{writer,reader}.rs`) | a JSONL file whose entries form a tree; in the writer the cursor (`leaf`) and the ids in use | `create`, `append_message` (two lines), `append_event`, `set_leaf_id`, `open_append_with_state`; `leaf_id`, `path_to_root` | stops and failed writes between and within lines, several emitting tasks, ids across restarts, rewinds and forks | replay returns what was acknowledged; the file stays a forest of unique entries; the recovered cursor is the writer's |
| **session lock** (`persistence/sessions/lock.rs`) | `<session>.jsonl.lock` with a pid | `acquire`, `Drop` | every system call is a point where another process runs; kills, reused pids, garbled and unreadable files, processes of other users | one holder, as far as the probe of its pid can tell; stale locks are reclaimed |
| **resume and fork** (`coder/bin/main.rs`) | prior messages, writer cursor, lock | `resolve_session`, `acquire_lock`, open, `--fork-from`, run, exit | the file is read before and after the lock; other processes write it | a writer extends the conversation on disk; only a fork takes messages off it; the model sees what its answers are appended to |
| **driver loop** (`agent-loop/driver.rs`) | `state.messages`, iteration, the current batch of calls | `run`, `maybe_compact_step`, `dispatch_tools`, hooks, lifecycle gates | parallel and sequential calls, hooks that end the run half way, aborts, the summariser's own requests, messages injected while it runs, kills | memory and log agree; results answer their calls in order; a sequential tool runs alone; runs end; aborts take effect |
| **sub-agents** (`acp-server/server.rs`; `agent-loop/spawn.rs`, which no program uses) | a child loop per call | spawn, run, collect | errors and limits of the child, inside the parent's call | the end of the child, however it comes, ends the call |
| **runtime-core** | none (types and traits) | message, event, hook, lifecycle and abort types | – | – |
| **approval** (`tool-policy`, `coder/cli_prompter.rs`, `acp-server/bridge.rs`) | names approved for the session | `ApprovalHook::before`, prompters | the cache is read before and written after an await; questions of one batch | no call runs without consent |
| **MCP client** (`mcp-client`) | connections, annotations | `get_or_connect`, `list_raw_tools`, `call_raw_tool` | check-then-connect, dead and hung servers, stale annotations | calls end; servers start once, up to the first contacts of one batch; only what a trusted server last announced as read-only runs together |
| **browser** (`browser-*`) | named sessions, snapshot version, elements | open, close, snapshot, act, navigate | names outlive sessions, tenants share the provider, checks before an await | while its browser lives, an action reaches the element its caller saw; tenants meet only where a name is opened twice |
| **ACP server** (`acp-server`) | one loop per editor session | prompt, permission requests, delegated skills | counter-requests on the connection that carries the prompts, prompts queueing on a session | every prompt is answered; sessions and turns do not mix |
| **compaction** (`compaction`) | a marker in the messages | `maybe_compact`, `transform_outgoing` | repeated triggers, cuts between a call and its result | the payload keeps user messages; a batch's results follow its calls or are all left out; what is neither summarised nor sent is known |
| **audit log** (`persistence/audit`) | pending tool starts | `emit` | refused and aborted calls, ids used again | an end names the start of its own call |
| **skills, config** (`skills`, `config`) | registries read at start-up | load, look-up, policies | one bad file prevents the start | an agent has the tools and skills of its policies |
| **OpenAI adapter** (`openai-adapter`) | decoder and aggregator of one stream | `stream_chat`, SSE decoding | cuts anywhere, interleaved calls, streams that break off | calls arrive whole or not at all; one end per message |
| **built-in tools, execution-env, extension-host, system-prompt, session index** | none or start-up data | file, process, wasm and text operations | I/O | – |

How they meet: `coder` (or `acp-server`) builds an `AgentLoop` with a model, tools,
hooks and sinks. The loop calls the hooks (approval) before and after every tool,
emits events to the sinks (session writer, audit writer, UI), and asks the
compaction transform before every request. The session writer appends to the file
the next process resumes from, and the lock keeps two processes off one file. The
ACP server keeps a loop per session and hands its approval questions to the editor.

## Modules

| module | models | composed with |
|---|---|---|
| `SessionLog` | file, writer and reader, including every way a line write can fail, stops, resumes, forks | refines `Transcript` |
| `Transcript` | what the file promises: a growing set of conversations, one of them current | – |
| `SessionLock` | `acquire` one system call per action, `Drop`, kills, pid reuse | – |
| `SessionResume` | `main` from resolve to exit, for several processes | EXTENDS `SessionLock`; the file is the conversation its cursor leads to, as in `Transcript` |
| `AgentLoop` | `AgentLoop::run` and what its `MessageCommitted` events put on disk | its log is the path of `SessionLog`, without failing writes |
| `Compaction` | where a conversation is cut, its markers, what is sent in their place | operators, run by `ModelTurn` |
| `ModelStream` | bytes to events to a turn: decoder, aggregator, consumer | operators, run by `ModelTurn` |
| `ModelTurn` | the driver around a request: compact, send, stream, commit | EXTENDS `Compaction`, `ModelStream` |
| `Approval` | what the approval hook decides, and what the two prompters make of an answer | operators, used by `ToolGate` and `AcpServer` |
| `McpClient` | connections, annotations and calls of the MCP client, and the servers | actions, composed by `ToolGate` |
| `ToolGate` | batches of tool calls through hook, tools and audit log | EXTENDS `McpClient`, `Approval` |
| `Agents` | agent and skill files, policies, what tools follow from them | operators, used by `AcpServer` |
| `AcpServer` | client, dispatch loop, prompt tasks, session mutexes, sub-agents | EXTENDS `Agents`, `Approval` |
| `Browser` | the harness's tools over `ChromeProvider`, with the pages they work on | – |
| `SessionLogProofs`, `SessionLockProofs`, `SessionResumeProofs`, `AgentLoopProofs`, `ModelTurnProofs`, `ToolGateProofs`, `AcpServerProofs`, `BrowserProofs` | theorems | extend the module they are about; the resume proofs build on those of the lock |
| `MC*` | small instances for TLC: symmetry sets and batches | extend the module they instantiate |

Operators named `...Unchecked`, `...Eager`, `...ByMessage` and the like, under the
comment "Slip", are wrong variants of the definition that follows them. No
specification uses them: they document which mistake each property catches.

### SessionLog

`file` holds the entries whose whole text is on disk; `tail` says whether the last
line is complete (`eol`), lacks only its newline (`cut`) or is a fragment (`torn`);
`broken` records that a later write was glued to an incomplete line, after which
`SessionReader::open` refuses the file (`Readable`). `WriteLine` gives every write
four outcomes: done, nothing written, a prefix, all but the newline.
`append_message` is two actions, `AppendMessage` and `CommitLeaf`, because a stop may
fall between its two writes; `lock` stands for both mutexes, which are held across
them. `next_unique_id` returns any id not in `seen_ids`; the fallback to 16 digits
after 32 collisions also yields an unused id. The header line, `seq`, time stamps
and payloads are left out. `acked` is a history variable: the messages whose append
returned Ok, along the cursor; a resume resets it to what the replay returned.

`Transcript` is the abstract specification. The refinement maps `path` to what a
reader returns at the writer's cursor (or at the recovered one while nobody has the
file open) and `known` to the paths of all entries. It says that `Stage` adds one
conversation, `Move` selects a recorded one, and nothing else happens until the
file becomes unreadable (`Lose`).

### SessionLock

`dir` is what the lock path names: whether there is a file, who created it and is
still running, and the pid it parses to; `owner` is the user each process runs as. Each of
`exists`, `read_to_string`, `kill`, `remove_file`, `create_new`, `write_all` is an action.
Initial states include left-over and garbled files. `pid_alive` is `kill(pid, 0) == 0`: a
living process that the caller may not signal answers EPERM and counts as gone, so its lock
is reclaimed; and a lock file that cannot be read counts as an empty one (`ReadFails`).
Both are steps of the model, and `misled` remembers that one of them has happened to an
`acquire` that met the lock of a living process. `raced` remembers that two `acquire` calls overlapped,
`reused` that a pid of a dead process was given out again. `Undisturbed` is neither `raced`
nor `misled`: what the lock does promise is promised under it, and for processes of one user and a lock file they can
read it is no more than "no overlapping acquires". The model is of the unix
build; elsewhere `pid_alive` is constantly true. A failed write leaves an empty file.

### SessionResume

Adds to each process `ctx` (messages the loop is seeded with), `cursor` (the
conversation of its writer) and `stage`. `Resolve` reads the file before the lock, as
`resolve_session` does; `Open` reads it again under the lock for the cursor;
`OpenFork` moves the cursor to any entry of the file, on the current branch or off it
(`tree` has the conversations that end in one), and derives the messages again. `Say` is an
`append_message`: the LeafChange makes the writer's own cursor the conversation on
disk. Writes succeed here; `SessionLog` covers failing ones.

### AgentLoop

`pc` names the await at which `run` is; an action is the work from there to the next
await. Per call of the current batch, `phase` goes waiting, gate (pre hooks), run,
done or err; calls interleave as `join_all` and the sequential loop allow. Lifecycle
hooks may pass or stop the run at every gate. `log` is what `MessageCommitted` has
put on disk; `Crash` restarts from it. `Compact` may send a request of its own: the summariser
asks a model with a fresh abort signal that nobody can set (`transform.rs:194`), inside
`maybe_compact` (`Ask("summary")`, then `Summarize`). Streaming, progress events and tool output are
left out, and so is what a tool does with the signal. `refused` and `late` are history
variables; `late` counts the requests that went out after the abort by their kind, and
`AbortStopsRequests` allows one of each: an abort that comes just behind the check at the top of
an iteration still lets a summary and the turn behind it be asked for.

### ModelTurn, Compaction, ModelStream

A message is its kind, its number, its calls or the call it answers, and for a marker the
two ids its payload records; the size of its text is one unit, so `Threshold` counts
messages and calls. `PickCut` and `TransformOutgoing` are written with sets and folds, not
with the loops of the code. `maybe_compact_step` is `CompactNot`, `Compact` or `CompactFails`;
a batch of tools is one step here, as `AgentLoop` has its inside.

A response is a sequence of line-level symbols. It arrives in chunks of any of the sizes
`ChunkSizes`, so that every place of every reply is a cut of some behaviour; it may end
early (`EndOfBody`), break (`StreamFails`) or carry an event that does not parse: the data of an
event is `[DONE]`, one event whole, or something `serde_json` rejects (`Advance`). `Receive` runs
the decoder, the aggregator and the consumer on a chunk, as polling the stream does.

`UserTurnsKept` and `WireAnswersCalls` speak of two sources: the sequence the driver really
hands to the transform, and the whole of `state.messages` which it was meant to get. So they
say that the transform is right for what it is given now, and would be when finding 4 is mended.

The transform starts its tail at the marker and not at the `kept_tail_start` the marker
records: of the turns it was to keep, the user messages are sent, the replies and tool results
are neither in the summary nor in the request. In a run this does not show, since the driver
filters the marker out first and everything is sent (finding 4). The comments and ADRs say those
turns are sent (see "Disagreements" below); `OnlyKeptTurnsMissing` says what is lost, exactly:
that, no more, for the configured number of turns, and nothing of it in an older marker's summary only.

`WireAnswersCalls` is about batches: the results of one are in a request all together, right behind
the message that made the calls and in its order, or not at all. A batch that a hook has stopped
leaves its calls unanswered. The one way to a part of the results is a kill between the
commits of a batch's results: the next process resumes with a prefix of them and sends it. Kills are in
`AgentLoop` (`Crash`, `ResultsFollowCalls`) and not in this module.

Also part of the model: a body that ends without `[DONE]` is taken for a complete turn that ended
normally (`OpenAiError::UnexpectedEnd`, `error.rs:14`, is raised nowhere); a critical context only
changes the name of the trigger. Not in the model: the id and the name of a call are one thing in a delta
(a server that sends one of them empty without the other is left out, `convert.rs:238,255`);
`serialize_head` truncates at a byte position (`transform.rs:147`), which panics inside a character.

### ToolGate, Approval, McpClient

`Before` and `OutcomeOf` are the hook: rule, policy, read-only hint, session cache, answer.
`Gate` is `before()` up to its await and `Answer` the rest, so the cache is read in one step
and written in another. The sequential and parallel parts of a batch are those of
`dispatch_tools`; modes are fixed when the batch is classified, while annotations may change
under a `List` of the same batch. `Mode` is what the tools say of themselves: the shell, the editing
tools and all browser tools are sequential, an `mcp_call` unless its tool is known to be read-only. In `McpClient`, `Reach` looks into the connection cache and
`Connected` fills it; between them the other calls go on. A connection is a child process with a
number, may die at any time, and stays cached when it does. `pending` is the audit writer's map from
tool call ids to start events; ids are used again by every batch.

`said`, `session`, `announced`, `vouched` and `started` are history variables: what the user
answered, which tools a trusted server called read-only in its newest annotations, and which of
those were so at the start of the batch or became so within it. The properties compare what runs with
those and not with the caches that decide. `ServerConfig` has the approval modes of `mcp.toml`;
nothing in the code asks for them, so `RunsWithConsent` names the calls concerned as its exception
(`Unheard`), without which TLC finds it violated. The coder builds its hook with `OnRequest`
and the default rules; the other policies are reached through the crate only. Under the default rules at
most one question is open at a time, as every tool they name is sequential.

Consequences that are part of the model: two first calls of one batch start a server twice;
dead connections are never evicted, so every later call to that server fails;
a listing that gives a tool no annotations, or leaves it out, takes no earlier hint back, and no
`tools/list_changed` is handled (ADR-027 plans it), so that a hint holds until the server
gives other annotations for the tool and somebody lists them; a timed-out call keeps running on
the server; listing has no timeout; a server's entry in the workspace's `mcp.toml` replaces
the user's entry whole; `ApprovedForSession` covers every later call of the tool's name,
whatever its input, where `tool-policy/lib.rs:10` says "identical calls"; a refused call has
an audit record of its end and none of a start (the other way round, a start without an end, takes
a kill and is not in the model; nor are equal ids in one batch). `main.rs:428` calls
`ApprovalHook::with_audit`, which `hook.rs` does not have; the model takes the hook without it.

### AcpServer, Agents

`inbox` is the connection: the dispatch loop (`Dispatch`) reads one message at a time, makes
the session if there is none, and spawns the prompt's task. A task queues for the mutex
around the session's loop (`Lock`, `Begin`; tokio's mutex is first come, first served, but
spawned tasks reach it in any order), and answers when its run is over. `Ask` sends
a counter-request, and `OnOption` brings the answer through `inbox` again: this is where an
inline turn would deadlock. `conv` is the conversation as (prompt, kind) pairs; `open` are the calls
the client was shown without an end. The calls of a reply run one after another here, since
those that run together are never asked about by this hook.

`Agents` turns agent and skill files into `SessionTools` and delegation. `Boots` is an
assumption about the files: with one bad file or a name used twice there is no server. That no
skill has the name of a tool that asks (`AcpAssumption`) is one as well: `loader.rs:118` takes any
name, the registry lets the later tool win, and a skill tool is parallel, so that such a
file would put two questions of one batch side by side.

Consequences that are part of the model: `session/cancel` is answered "not implemented" and
the abort handle is dropped (`main.rs:97`), although `server.rs:277` says the signal is for it;
a question that the client never answers blocks the session; any session id is accepted
and sessions live in memory only; a delegated agent has no hooks and no sink, so its calls are
neither asked about nor shown (the set of tools it gets is its policy's); a cancelled
question, a failed reply and MaxTokens leave calls pending at the client and without
results in the conversation, which is why `TurnsAreWhole` speaks of turns that ended well. Not in
the model: `bash.rs:121` truncates its output at a byte position and panics inside a character;
and rendering a skill runs the shell commands in its text (`render.rs:185-239`), of which
nobody is asked and nothing is shown.

### Browser

Agents are concurrent callers of the tools. `known` and `holder` are a harness's
`state.sessions` and the lock on it; `sessions` is the provider's map, whose ids are the
names sessions were opened under; `pages` the browsers, each with its document, its visible
and disabled elements and their `data-hivecore-ref` attributes. A deployment says which
agent uses which harness for which tenant. What runs under the provider's lock is one
action (`Navigate`, `Take`, `Close`, `Check`); `browser_act` lets go of it and goes
`Check`, `Find`, `Perform`, `Settle`, `Snapshot`, with anything in between: other agents'
calls, and `PageChanges` (scripts, users, navigations, a browser that dies). A launch
holds the harness's lock across its await (`EnsureLaunch` to `Launched`).

A snapshot bumps the version before it evaluates the walk, which may fail before it sets
stamps, or after (`lost`). The walk clears earlier stamps in the main document only, so
elements in shadow roots keep theirs; `find_element` does not look there, so they are never
acted on. `named` and `seen` are history variables: what each stamp that was ever set stands for,
and which browsers each agent was shown a snapshot of.
Pages do not write stamps of their own. What is left out changes no state here: `list`,
`screenshot`, and `state.latest`, which the harness writes and never reads. Drag and upload
are stubs in the code and touch nothing here either.

Consequences that are part of the model: after
a failed snapshot, refs of the last good one are refused, while refs of the new version that
no caller was given would pass the check; and a closed name stays known to its harness, so
opening it again answers Ok without a session (`tools.rs:103`).

Two more go against the documents. Opening a name that another harness has open
replaces that session, also one of another tenant, whose browser ends (`chrome_provider.rs:173`).
And versions begin again at 0 in the new browser, so that a ref an agent was given in
the old one can pass the check and be found on an element it never stood for. `TakeoverOnly` and
`ActsOnShownElement` state both as the exceptions they are: the takeover is the only thing a
call ever does to another tenant, and an action reaches the element and the browser the agent
was shown as long as that browser lives.

## Runs

| run | bounds | shows |
|---|---|---|
| `SessionLog` | 2 emitters, 5 ids, all write faults | the six properties below |
| `SessionResume` | 2 processes of root or another user, unreadable lock files, 3 messages | exclusion and naming of the holder while undisturbed, reclaiming; cursor at the tip, forks to any entry, no lost branch |
| `AgentLoop` | 2 iterations, batches of 2 parallel and of sequential-parallel-sequential calls, 3 pushed prompts and injections | log against memory, order of results, exclusion of sequential calls, requests after an abort, termination |
| `ModelTurn` | 6 kinds of replies, chunks of 1, 3 and all bytes, 2 iterations, no prompt beyond 6 messages, threshold 4, 2 turns kept | what is sent, summarised and missing, batches answered whole, calls whole, one end per message |
| `ToolGate` | 2 batches of up to 2 of 9 requests, 5 hooks, 2 servers with 2 tools, 1 death or change | consent, what runs together, first contacts, audit pairing, calls end |
| `AcpServer` | 2 prompts in 2 sessions, 5 replies, 2 iterations, 1 other message, every option, with and without approval | turns whole, consent per session, every prompt answered |
| `Browser` | 2 agents in 3 deployments, 1 name, 2 browsers, 3 calls, 2 changes of the page's own | a ref means one element, acts reach the one that was shown, refusals are clean, only a takeover reaches another tenant, calls return |
| `SessionLockRace`* | 2 processes | two holders |
| `SessionResumeStale`* | 2 processes, 2 messages | stale context under a fresh cursor |
| `AgentLoopReplay`* | no tools, 3 messages | an injected message is not on disk |
| `CompactionLost`* | as `ModelTurn` | a request that ignores the marker just made |
| `BrowserAssert`* | 2 agents, 1 browser, 3 calls | `browser_assert` denies an element that is there |

`*` expects a violation; `PROJECT.json` quotes the line it contradicts.

Why the bounds are enough. *SessionLog*: an acknowledged message uses two ids, so five
allow two messages and a rewind, a fork or a half append between or after them, with
any failure in each line and resumes anywhere; two emitters are enough for one to be
between its lines while the other waits. *SessionResume*: a writer, a second writer behind
it, and three messages: one before, two after a fork. Its processes are those of the lock,
whose properties are checked here, with every choice of a user for each: a probe that is refused needs
one process of another user, and one that is not needs the same user or root. The proofs cover more of them.
*AgentLoop*: two iterations let a batch be followed by another turn and the cap be
hit; a batch with calls on both sides of a parallel one covers source order against
completion order. `MaxPushed` bounds when a run may begin and a message be queued; it
never stops a run that is under way. *ModelTurn*: six messages before the last prompt are
enough for up to three markers, with calls and their
results before and after each; single bytes give every cut, 3 leaves a CR LF pair or a prefix apart, 60 takes a reply
whole. The replies have mixed calls, usage with, after and without the finish reason, no `[DONE]`,
a refusal, a cap and garbage. *ToolGate*: what goes wrong needs two calls in a batch (two first
contacts, a listing beside a call) or a batch after another (cached consent, hints,
connections, ids used again); one server is trusted and one is not. *AcpServer*: two prompts queue
in one session or run in two; two iterations let consent be given and used, and a
delegated child run to its limit. *Browser*: three calls are an agent's snapshot, another
agent's snapshot, navigation or open, and the act of the first; two elements, the last in a shadow
root, are enough for ids to shift when one appears; a page moves on to another document by itself
and changes there; two browsers let a session be replaced under its name, within
a tenant or across tenants, between a snapshot and the act that uses its ref.

Properties of `SessionLog`: `LogWellFormed` (the file is a forest of uniquely named entries
with the writer's cursor in it, so the reader's cycle guard is never needed),
`AckedIsReplayed` (replay at
the cursor is exactly what emitters were told is stored), `CursorRecoverable` (a reader
recovers the writer's cursor), `AckedSurvivesRestart` (the next process starts with it),
`ImplementsTranscript` (refinement), beside its types. Two of them have one exception, which the code has
too: in a file without any LeafChange the reader adopts the newest Message, even one
whose append failed half way. ADR-032 (line 85) promises one atomic append of both lines; the
code writes them one after the other, and these properties are what remains true.

Fairness. `RunEnds` of `AgentLoop` assumes weak fairness of the driver as a whole: the
runtime polls the `run` future, and models, tools and hooks eventually answer. No fairness
is assumed of users, kills or the abort signal. `CallsReturn` of `Browser` assumes weak
fairness of each agent's call once it has begun: the runtime polls its future, Chrome
answers or its request times out, and settle, wait and find have deadlines of their own.
Nobody needs to begin a call, and pages need not change. Weak fairness suffices although
a snapshot waits for the harness's lock: the calls run out (`MaxCalls`), and in the code
tokio's mutex serves its waiters in order. `McpCallEnds` of `ToolGate` assumes weak fairness of
the client's two timers only: no server need answer, and no user. `EveryPromptIsAnswered` of
`AcpServer` assumes it of the dispatch loop, of each prompt's task (model requests have
timeouts, tools end) and of the client's answer to a question it was asked - without the
last it is false, as the code has no timeout there. The other modules state safety only and assume
nothing.

`CHECK_DEADLOCK FALSE` is set where the system may stop: ids run out or an unreadable
file cannot be reopened (`SessionLog*`), no prompt is left to run (`AgentLoop*`, `ModelTurn`,
`CompactionLost`, `AcpServer`), the calls are used up (`ToolGate`, `Browser*`).

## Findings

1. **Two processes can hold one session lock** (`SessionLockRace`). `acquire` decides on
   the contents it has read and later unlinks whatever has the name. A lock created in
   between, or created and still empty, is removed. `ExclusiveUndisturbed` is what is
   true, and it is proved.
2. **A resumed session may continue a conversation the model has not seen**
   (`SessionResumeStale`): messages are read before the lock, the cursor after it.
3. **Steering and follow-up messages are not replayable** (`AgentLoopReplay`): they enter
   `state.messages` without a `MessageCommitted` event.
4. **Compaction never shortens a request** (`CompactionLost`). The driver filters what is
   invisible to the model before it calls the transform (`driver.rs:284`), and the marker is
   invisible: the transform never sees one. Above the threshold every turn that has something new
   to cut pays for another summary, and the whole conversation is sent. `driver.rs:158` says "the
   request payload reflects the shrunk state".
5. **`browser_assert` cannot confirm an element** (`BrowserAssert`). `exists` and
   `name_equals` take a snapshot first (`chrome_provider.rs:791`), whose refs have a new
   version, and look the caller's ref up among them: the answer is always false.
   `actions.rs:102` says "exists in snapshot".

### Disagreements inside passing runs

Here the code does what a document denies, and a property states what is left as the rule with
the code's exception written into it. Taking the exception out makes TLC find the
behaviour.

- **A lock is safe from other users only if they may signal its holder** (`lock.rs:96-99`). The
  file's head says "If the lock file already exists and the recorded PID is alive, `acquire()`
  fails with `Busy`"; a refused `kill` counts as dead, an unreadable file as empty. `misled` is the
  exception of `ExclusiveUndisturbed`, `HolderIsNamed`, `WriterAtTip`, `OnlyForkDrops`.
- **Old refs can resolve after a name is opened again** (`chrome_provider.rs:173`). ADR-028, decision 4:
  "Stale refs return a typed `StaleRef` error — never silently resolve", and `snapshot.rs:5-7` of
  `browser-core`. `ActsOnShownElement` holds for as long as the browser that was shown lives.
- **A tenant can take another's session over by its name** (same place: the map is keyed by the
  requested name, and `verify_tenant` is not called by `open_session`). ADR-028, decision 5:
  "Multi-tenant by construction", and `chrome_provider.rs:117-119`. `TakeoverOnly` says that this is the one way.
- **Approval modes of MCP tools are read and never used** (`config.rs:57-59,99-107`;
  `effective_approval_mode`, `config.rs:183`, has no caller but tests). ADR-027 (71-76) and ADR-029
  (208, 222) promise a per-tool override. `RunsWithConsent` excepts calls of `mcp_call` that the matcher allows.
- **The kept turns are not in the payload** (`transform.rs`). `constants.rs:28` "Number of recent
  turns to preserve verbatim in the model payload", `marker.rs:36`, `transform.rs:8-11`,
  ADR-026 (29, 46). `OnlyKeptTurnsMissing` says what a request after a compaction would lack.

## Proofs

Every safety property that a passing run checks is proved for all values of the constants; so is
the one refinement. Each module of proofs has the same
layout: the parts of the inductive invariant, facts about data, the effect of a step, the
invariant, the theorems.

`SessionLogProofs`, for any emitters, ids and set of write faults. `TypeCorrect` and
`StaysWellFormed`, which puts together `IdsStayUnique`, `LogIsForest` and `CursorOnDisk`.
None of the three is inductive. `IInv` adds that the guard set covers the file while a writer is
open (`IssuedIds(file) \subseteq seen`), that the target of every LeafChange is on
file (so a recovered cursor is, too), that a pending Message is on file, and that an
absent file is empty. `AppendKeeps` shows once that appending an entry that `Fits`
keeps the shape of the log; `WriteKeeps` lifts it to `WriteLine`; `StepIInv` has a step
per action. On top of it, `StoredIsReplayed`, `CursorIsRecovered` and `RestartKeepsAcked` follow
from `AckedInv`, which says in every state what `acked`, the cursor, the staged message and the
newest LeafChange or Message of the file have to do with each other, unclean tails included.
They rest on `PathAppended`: a path to the root does not change when a line is appended, as
the fuel of the walk is always enough (`FuelEnough`) and the new id is above nothing.
`FileIsTranscript` is the refinement: `InitMaps`, and `StepMaps` from the set of known paths, which
grows by one path with a line that is written whole (`KnownAppended`), and from where the
reader's cursor is before and after (`ReaderSees`).

`SessionLockProofs`, for any set of processes: `TypeCorrect`, `NamesHolder`, `Excludes`,
`StaleIsReclaimed`, with any users. While undisturbed the strengthening `IInv` says that at most one process
is acquiring, that a holder is named in the file, and for each step of an acquirer what it knows
about the file at that point (`AcquirerKnows`): what it has read is the pid of the holder, if there is one, and behind
its probe there is none. `StaleIsReclaimed` needs no assumption
about races or users: `RInv` says that without pid reuse the file and what was read from it never
carry the pid of a process that reads it before writing it.

`SessionResumeProofs`, for any processes and messages: `ResumeTypeCorrect`, `WritersAtTip`,
`ForksAloneDrop`, `ForksSeeTheirPath`, `ResumeIsLock`, `LockKept`. Every step is a step of the
lock or leaves it alone (`StepIsLockStep`): the sharing processes implement the lock, and its
theorems and its `IInv` hold here too. With it, `OpenIsHeld` (whoever
has the file open holds the lock) is what makes `WriterAtTip` inductive: a process that
appends is the only one that is open.

`AgentLoopProofs`, for any iteration cap, batches and number of queued messages:
`TypeCorrect`, `AbortHolds`, `SequentialAlone`, `LogCommitted`, `ResultsAnswer`. `TInv` adds to
the types that there is a newest message wherever the loop looks at one; `LateInv` says for each kind
of request at which steps one after the abort may already have been made; `BatchInv` that sequential calls wait
for the parallel ones and then run down the list. What any step does to the conversation
and the log is one of six effects (`NextMoves`). `LogInv` adds to the property that messages are
numbered by their push and that the one at its gate is of a gated kind; `OpenInv` says of the
end of the conversation which results it still lacks, from which each appended result answers
the next call.

`ModelTurnProofs`, for any replies, any way of cutting their bytes, any thresholds:
`Types`, `KeptTurnsAreMissing`, `UsersAreKept`, `WireAnswers`, `CutsMakeNoDifference`,
`EventsInOrder`, `EndsOnce`, `CallsWhole`. `IInv` has four parts: every message of
the conversation is `SoundAt` its place (numbered by it, a result in place behind its call,
a marker that cuts cleanly before as many turns as it keeps; none of which depends on later messages), decoder and aggregator hold
only what the reply's body can leave there (`Streaming`), the driver's counters (`Control`), and a
batch answers the message pushed last (`Batch`). `UsersReachModel` and `ResultsReachModel` are
about `TransformOutgoing` alone: for any sound conversation, what it makes of it has
the same user messages in the same order, and a batch's results all or none. `CutsGrow` says that the
cut of a later marker is at or behind that of an earlier one, as turns are only added.

The stream of the same module is followed from the bytes to the committed turn. `Decoded`
says that decoder and stream are what `Feed` and `AdvanceAll` make of the bytes read so far at
once: both can be cut in two anywhere (`FeedInTwo`, `AdvanceInTwo`). The whole body gives
the reply's events in order and then its end mark (`BodyGives`, line by line from
`LineGives` and `FrameGives`), and what has been read gives a prefix of them
(`EventsInOrder`). So a claim about any stream is one about a reply and a number of its
events, and goes from one event to the next: `Phase` says how far the message to the sinks is
(nothing, running, over), `CallPhase` that before a finish reason the slots hold exactly what
the deltas so far gave (`Collects`: each slot its own pieces in order and an id given to it),
and that behind it the turn has them as its calls. Both theorems are about servers that keep
to the protocol, which is their hypothesis: `SilentAfterUsage` (no text and no second finish
reason once finish reason and usage are in) and `WellFormedCalls` (calls counted from 1, one id
each, nothing of a call behind the finish reason, no `[DONE]` after calls without one). Nothing is
asked of where the body is cut or breaks off, of garbage events, or of when the usage comes. The
code checks neither of the two; TLC evaluates both for the replies of the run (`MCModelTurn`).

`ToolGateProofs`, for any servers, tools, requests, hooks and batch sizes: `Types`,
`EndsNameStarts`, `CallsHadConsent`, `TogetherHarmless`, `OneFirstContact`. Each has an invariant
of its own above the types: `AuditInv` (the writer's map holds the running calls and no others,
so an id that is used again finds no old start), `ConsentInv` (both caches contain only what was
granted or last announced as read-only, and what was vouched for in this batch covers what the caches
say in it; a question is open only where one may be asked), `OrderInv` (what counts as
parallel has no side effects and was vouched for when the batch began; a sequential call left
its place only after those it waits for),
`ContactInv` (whoever is connecting found no process before its batch).

`AcpServerProofs`, for any prompts, sessions, replies and agent files that boot: `Types`,
`Apart`, `OneTurnAtATime`. The strengthening says that a message on its way finds its task
waiting (`InboxInv`), that a task is once in the queue of its session and the active one
is its head (`QueueInv`), what calls a task has before it and the client has open (`CallsInv`), that
the cache is what was granted (`SessionInv`), and who wrote the end of a conversation
(`ConvInv`). Every step moves at most one task, in one of eight ways (`NextMoves`); the invariant is
shown for each.

`BrowserProofs`, for any agents, tenants, deployment, names, page and number of elements,
snapshots, launches and changes: `TypeCorrect`, `RefsNameOneElement`,
`ActsReachTheirElement`, `RefusalsTouchNothing`, `TenantsStayApart`. `IInv` adds that a
session's page is its own and of its tenant (`SessionsOwnPages`), that no stamp of a page is
of a later version than its session (`NamedSoFar`), that what is stamped on a page is what it
stands for (`StampsAreNamed`), and that a search has touched nothing yet (`CallsInStep`).
`RankDiffers` counts: two elements of a walk never share an id. Every step has one of five
effects on sessions, pages and stamps (`NextEffects`) and moves at most one call, to one
that is `GoodCall`; the invariant is shown for each effect and each call. On top of it, `SeenInOrder`
says that a browser an agent was shown under a name and that still lives is the session's; a call
that is at its element keeps to it (`KeepsToSeen`). Tenants meet in `Launched` only, because a
session's page is its own and of its tenant: a check of the session is one of the page.

Data. The provers have no induction over sequences or numbers here, as its theorems take an
operator. The proofs go around it with sets: a non-empty set of numbers has a least element
(`LeastNumber`), so a claim that fails has a first failure, and a set of sequences that has the
empty one and is closed under `Append` has all (`SeqGrows`). A fold is given by its
table of partial results, which exists and is unique (`FoldSolution`, `FoldRuns`) and grows by one
step with an `Append` (`RunsAppend`); the walk to the root is such a table too
(`WalkExists`, `WalkStep`).

Assumptions on constants: `LogAssumption` and `LockAssumption` (None is no id, emitter or pid;
faults are among the known ones, `ReadFaults` is a Boolean), `LoopAssumption` (the cap is a number, batches are lists of
execution modes), `TurnAssumption` and `CompactionAssumption` (bounds are numbers, zero included, a reply is a list of events with its framing), `GateAssumption` and `McpAssumption` (servers,
hints, policies and configuration are of their types, the calls of a batch are numbered),
`AcpAssumption` and `BootAssumption` (bounds are numbers, None is no answer or name, no skill is named as a tool that asks,
the agent and skill files load), `BrowserAssumption` (sizes and bounds are numbers, elements in
shadow roots come last in document order, Nobody is no agent, name or tenant, a deployment gives
every agent a harness and every harness a tenant). TLC evaluates all of them in the runs.

Only model-checked: liveness (`RunEnds`, `CallsReturn`, `McpCallEnds`,
`EveryPromptIsAnswered`), which the temporal backend cannot reach. Every safety property of a
passing run is stated by a theorem. The runs that expect a violation speak for themselves.

## Not modelled

`SessionWriter::append_entry` and the plain `open_append` (used by tests and embedders, not by
the programs here), a failing header write, file truncation by `create` of an existing
id (ids are fresh), disk errors in reads, wall-clock times, tokens and prices, text and
JSON conversion. Tool updates are emitted by detached tasks (`driver.rs:589`) and may reach the
sinks after the end of their call; the session writer stores them as events off the
current leaf, which `SessionLog` has, and the other sinks print or drop them.

`SpawnAgentTool` and `SkillWatcher` are started by no program of the repository. The built-in
tools, the execution environment and the WebAssembly host are I/O with a timeout, and
stateless between calls as far as this code goes. The system prompt is text. Rendering a
skill runs the shell commands that its text contains (`render.rs:185-239`): processes of the
host with no state here, outside the approval hook. The session index is one appended line per start, read
once by `--continue`. Streamable HTTP is rejected by the MCP client. The locks
inside the session cache and the audit writer are held for one map operation and have no steps of
their own here.

## Plan

The modelling is done as far as the parts above go, and every safety property the passing runs
check is proved. What proofs can still add:

1. The safety half of the liveness properties: a measure that every step of a call, a turn or a
   batch lowers, so that under the stated fairness only a blocked step could keep it from ending.
2. What `EndsOnce` and `CallsWhole` leave of servers that do not keep to the protocol.
