--------------------------- MODULE AcpServerProofs ---------------------------
(***************************************************************************)
(* The ACP server, for any sessions, prompts, agents and replies: the      *)
(* turns of a session stay whole and apart, and consent stays with its     *)
(* session.                                                                *)
(***************************************************************************)
EXTENDS AcpServer, TLAPS

\* The prompts whose task holds the AgentLoop, and those with a call under way.
InCalls(p) == task[p].at \in {"call", "asking", "chosen", "running", "child"}
Active(p)  == task[p].at = "model" \/ InCalls(p)

\* The messages on their way: at most one about a prompt, and its task is
\* waiting for it.
InboxInv ==
  /\ \A i \in DOMAIN inbox :
       /\ inbox[i].type = "prompt" => task[inbox[i].prompt].at = "sent"
       /\ inbox[i].type = "option" => task[inbox[i].prompt].at = "chosen"
  /\ \A i, j \in DOMAIN inbox :
       /\ i # j /\ inbox[i].type # "other" /\ inbox[j].type # "other"
       => inbox[i].prompt # inbox[j].prompt

\* A task is in the queue of its session once, from the time it asks for the
\* lock; the one that holds it is the head.
Placed(s, i) ==
  \E p \in Prompts :
    /\ queue[s][i] = p
    /\ task[p].session = s
    /\ task[p].at = "queued" \/ Active(p)
    /\ \A j \in DOMAIN queue[s] : i # j => queue[s][j] # p

InPlace(p) ==
  LET s == task[p].session
  IN  /\ task[p].at # "unsent" => s \in Sessions
      /\ task[p].at = "queued" => \E i \in DOMAIN queue[s] : queue[s][i] = p
      /\ Active(p) => queue[s] # <<>> /\ queue[s][1] = p

QueueInv ==
  /\ \A s \in Sessions : \A i \in DOMAIN queue[s] : Placed(s, i)
  /\ \A p \in Prompts : InPlace(p)

\* What the session cache holds is what was granted, and a session that has
\* a task has a cache.
SessionInv ==
  /\ \A s \in Sessions :
       granted[s] = IF sessions[s] = None THEN {} ELSE sessions[s]
  /\ \A p \in Prompts :
       task[p].at \notin {"unsent", "sent", "done"} => sessions[task[p].session] # None

\* The calls a task has before it, and that the client saw no end of them.
Open(p) ==
  /\ task[p].at \in {"unsent", "sent", "spawned", "queued", "model"} => open[p] = {}
  /\ InCalls(p) =>
       /\ task[p].calls # <<>>
       /\ open[p] = {task[p].iteration} \X (1 .. Len(task[p].calls))

\* It asks only about tools the server's hook has a rule for.
Asked(p) ==
  task[p].at \in {"asking", "chosen"} => Head(task[p].calls) \in DOMAIN CoderDefaults

CallsInv == \A p \in Prompts : Open(p) /\ Asked(p)

\* Every reply of a prompt up to n that has calls is followed by their results.
Paired(p, c, n) ==
  \A i \in 1 .. n :
    c[i] = [prompt |-> p, kind |-> "calls"] =>
      i < Len(c) /\ c[i + 1] = [prompt |-> p, kind |-> "results"]

\* The end of a conversation belongs to the task that holds the lock.
Owned(s, i) ==
  \E p \in Prompts :
    /\ conv[s][i].prompt = p
    /\ task[p].session = s
    /\ Active(p) \/ task[p].at = "done"

Ends(p) ==
  LET c == conv[task[p].session]
  IN  /\ Active(p) => c # <<>> /\ c[Len(c)].prompt = p
      /\ task[p].at = "model" => Paired(p, c, Len(c))
      /\ InCalls(p) => /\ c[Len(c)] = [prompt |-> p, kind |-> "calls"]
                      /\ Paired(p, c, Len(c) - 1)
      /\ answered[p] = "end_turn" => task[p].at = "done"

ConvInv ==
  /\ \A s \in Sessions : \A i \in DOMAIN conv[s] : Owned(s, i)
  /\ \A p \in Prompts : Ends(p)

Shape == TypeOK /\ InboxInv /\ QueueInv /\ CallsInv

-----------------------------------------------------------------------------
(* Facts about the constants and the operators. *)

\* A list without its head.
LEMMA TailFacts ==
  ASSUME NEW S, NEW s \in Seq(S), s # <<>>
  PROVE  /\ Tail(s) \in Seq(S) /\ Len(s) \in Nat /\ Len(s) >= 1
         /\ Len(Tail(s)) = Len(s) - 1
         /\ \A i \in 1 .. Len(s) - 1 : Tail(s)[i] = s[i + 1]
         /\ Head(s) = s[1] /\ s[1] \in S
  OBVIOUS

\* The agent of the sessions is one of the agents that were loaded.
LEMMA SessionAgentLoaded == SessionAgent \in Agent /\ SessionAgent.max_iterations \in Nat
<1>1. ToSet(AgentFiles) \subseteq Agent
  BY BootAssumption DEF ToSet
<1>2. AgentFiles[1] \in Agent
  BY BootAssumption DEF Boots
<1>3. DefaultAgent \in AgentIds => AgentOf(DefaultAgent) \in ToSet(AgentFiles)
  BY DEF AgentIds, AgentOf
<1>4. SessionAgent \in Agent
  BY <1>1, <1>2, <1>3 DEF SessionAgent
<1>5. QED
  BY <1>4 DEF Agent

\* Answers of the client are decisions, and decisions have an outcome.
LEMMA Decides ==
  ASSUME NEW o \in Options
  PROVE  /\ AcpDecision(o) \in Decisions
         /\ OutcomeOf(AcpDecision(o)) \in Outcomes
         /\ OutcomeOf(AcpDecision(o)) = "Pass" => AcpDecision(o) \in Consent
  BY DEF Options, AcpDecision, Decisions, OutcomeOf, Outcomes, Consent

\* Moving a task changes nothing else of it, and no other task.
LEMMA AtMoves ==
  ASSUME TypeOK, NEW p \in Prompts,
         NEW to \in {"unsent", "sent", "spawned", "queued", "model", "call",
                     "asking", "chosen", "running", "child", "done"},
         At(p, to)
  PROVE  /\ task' \in [Prompts -> Tasks]
         /\ \A q \in Prompts \ {p} : task'[q] = task[q]
         /\ task'[p].at = to /\ task'[p].session = task[p].session
         /\ task'[p].iteration = task[p].iteration /\ task'[p].calls = task[p].calls
<1>1. task \in [Prompts -> Tasks] /\ task' = [task EXCEPT ![p].at = to]
  BY DEF TypeOK, At
<1>2. task[p] \in Tasks
  BY <1>1
<1>3. [task[p] EXCEPT !.at = to] \in Tasks
  BY <1>2 DEF Tasks
<1>4. PICK x \in Tasks : x = [task[p] EXCEPT !.at = to]
  BY <1>3
<1>5. task' = [task EXCEPT ![p] = x]
  BY <1>1, <1>4
<1>6. task' \in [Prompts -> Tasks] /\ task'[p] = x /\ \A q \in Prompts \ {p} : task'[q] = task[q]
  BY <1>1, <1>5
<1>7. /\ x.at = to /\ x.session = task[p].session
      /\ x.iteration = task[p].iteration /\ x.calls = task[p].calls
  BY <1>2, <1>4 DEF Tasks
<1>8. QED
  BY <1>6, <1>7

\* A commit extends the conversation of the task's session by an entry of its.
LEMMA CommitAppends ==
  ASSUME TypeOK, NEW p \in Prompts, task[p].session \in Sessions,
         NEW kind \in {"prompt", "text", "calls", "results"}, Commit(p, kind)
  PROVE  /\ conv' \in [Sessions -> Seq(Entries)]
         /\ conv'[task[p].session]
              = Append(conv[task[p].session], [prompt |-> p, kind |-> kind])
         /\ \A s \in Sessions \ {task[p].session} : conv'[s] = conv[s]
<1>1. [prompt |-> p, kind |-> kind] \in Entries
  BY DEF Entries
<1>2. conv[task[p].session] \in Seq(Entries) /\ conv \in [Sessions -> Seq(Entries)]
  BY DEF TypeOK
<1>3. Append(conv[task[p].session], [prompt |-> p, kind |-> kind]) \in Seq(Entries)
  BY <1>1, <1>2
<1>4. QED
  BY <1>2, <1>3 DEF Commit

\* A list with one more element.
LEMMA AppendFacts ==
  ASSUME NEW S, NEW s \in Seq(S), NEW x
  PROVE  LET t == Append(s, x)
         IN  /\ Len(s) \in Nat /\ Len(t) = Len(s) + 1 /\ t # <<>>
             /\ DOMAIN t = DOMAIN s \union {Len(s) + 1} /\ DOMAIN s = 1 .. Len(s)
             /\ Len(s) + 1 \notin DOMAIN s
             /\ \A i \in DOMAIN s : t[i] = s[i]
             /\ t[Len(s) + 1] = x
             /\ s # <<>> => 1 \in DOMAIN s
  OBVIOUS

-----------------------------------------------------------------------------
(* What a step can do to a task, its queue and its conversation.  Every step   *)
(* is of one of these kinds for one prompt, or leaves all of this alone.       *)

Same(p) ==
  /\ \A q \in Prompts \ {p} :
       task'[q] = task[q] /\ open'[q] = open[q] /\ answered'[q] = answered[q]
  /\ task[p].at # "unsent" => task'[p].session = task[p].session

Appends(p, kind) ==
  LET s == task[p].session
  IN  /\ conv'[s] = Append(conv[s], [prompt |-> p, kind |-> kind])
      /\ \A t \in Sessions \ {s} : conv'[t] = conv[t]

Sends(p) ==
  /\ task[p].at = "unsent" /\ task'[p].at = "sent" /\ task'[p].session \in Sessions
  /\ UNCHANGED <<queue, conv, open, answered>>

Reads(p) ==
  /\ task[p].at = "sent" /\ task'[p].at \in {"spawned", "done"}
  /\ task'[p].at = "spawned" => UNCHANGED answered
  /\ answered'[p] = answered[p] \/ answered'[p] = "refusal"
  /\ UNCHANGED <<queue, conv, open>>

Queues(p) ==
  /\ task[p].at = "spawned" /\ task'[p].at = "queued"
  /\ queue' = [queue EXCEPT ![task[p].session] = Append(@, p)]
  /\ UNCHANGED <<conv, open, answered>>

Begins(p) ==
  /\ task[p].at = "queued" /\ task'[p].at = "model"
  /\ Head(queue[task[p].session]) = p
  /\ Appends(p, "prompt")
  /\ UNCHANGED <<queue, open, answered>>

Returns(p) ==
  /\ Active(p) /\ task'[p].at = "done"
  /\ queue' = [queue EXCEPT ![task[p].session] = Tail(@)]
  /\ UNCHANGED conv \/ Appends(p, "text") \/ Appends(p, "calls")
  /\ answered'[p] = "end_turn" =>
       task[p].at = "model" /\ Appends(p, "text") /\ UNCHANGED open

Turns(p) ==
  /\ task[p].at = "model" /\ task'[p].at = "call" /\ task'[p].calls # <<>>
  /\ Appends(p, "calls")
  /\ open'[p] = open[p] \union {task'[p].iteration} \X (1 .. Len(task'[p].calls))
  /\ UNCHANGED <<queue, answered>>

Proceeds(p) ==
  /\ InCalls(p) /\ task'[p].at \in {"asking", "chosen", "running", "child"}
  /\ task'[p].calls = task[p].calls /\ task'[p].iteration = task[p].iteration
  /\ open'[p] = open[p] \/ open'[p] = open[p] \union {CallId(p, Len(task[p].calls))}
  /\ UNCHANGED <<queue, conv, answered>>

Completes(p) ==
  /\ InCalls(p)
  /\ task'[p].calls = Tail(task[p].calls) /\ task'[p].iteration = task[p].iteration
  /\ open'[p] = open[p] \ {CallId(p, Len(task[p].calls))}
  /\ IF Tail(task[p].calls) = <<>>
     THEN task'[p].at = "model" /\ Appends(p, "results")
     ELSE task'[p].at = "call" /\ UNCHANGED conv
  /\ UNCHANGED <<queue, answered>>

Moves(p) ==
  /\ Same(p)
  /\ \/ Sends(p) \/ Reads(p) \/ Queues(p) \/ Begins(p)
     \/ Returns(p) \/ Turns(p) \/ Proceeds(p) \/ Completes(p)

\* The end of a call.
LEMMA EndCallMoves ==
  ASSUME Shape, NEW p \in Prompts, InCalls(p), EndCall(p), UNCHANGED <<queue, answered>>
  PROVE  /\ Moves(p)
         /\ task' \in [Prompts -> Tasks] /\ conv' \in [Sessions -> Seq(Entries)]
         /\ open' \in [Prompts -> SUBSET (Nat \X Nat)]
         /\ said' \in [Prompts -> Consent \union {"nothing"}]
<1> DEFINE calls == task[p].calls
           rest  == Tail(calls)
<1>1. /\ calls \in Seq(STRING) /\ calls # <<>> /\ task[p].session \in Sessions
      /\ task[p] \in Tasks /\ task \in [Prompts -> Tasks]
  <2>1. task \in [Prompts -> Tasks] /\ task[p] \in Tasks
    BY DEF Shape, TypeOK
  <2>2. task[p].at # "unsent" /\ task[p].session \in Sessions
    BY DEF Shape, QueueInv, InPlace, InCalls
  <2>3. calls # <<>>
    BY DEF Shape, CallsInv, Open
  <2>4. QED
    BY <2>1, <2>2, <2>3 DEF Tasks
<1>2. rest \in Seq(STRING) /\ Len(rest) + 1 = Len(calls)
  <2>1. calls \in Seq(STRING) /\ calls # <<>>
    BY <1>1
  <2> HIDE DEF calls
  <2>2. Tail(calls) \in Seq(STRING) /\ Len(calls) \in Nat /\ Len(Tail(calls)) = Len(calls) - 1
    BY <2>1, TailFacts
  <2>3. QED
    BY <2>2
<1>3. /\ task' \in [Prompts -> Tasks]
      /\ \A q \in Prompts \ {p} : task'[q] = task[q]
      /\ task'[p].at = IF rest = <<>> THEN "model" ELSE "call"
      /\ task'[p].session = task[p].session
      /\ task'[p].calls = rest /\ task'[p].iteration = task[p].iteration
  <2> DEFINE to  == IF rest = <<>> THEN "model" ELSE "call"
             new == [task[p] EXCEPT !.calls = rest, !.at = to]
  <2>1. task' = [task EXCEPT ![p].calls = rest, ![p].at = to]
    BY DEF EndCall
  <2>2. task' = [task EXCEPT ![p] = new]
    BY <1>1, <2>1
  <2>3. new \in Tasks
    BY <1>1, <1>2 DEF Tasks
  <2>4. /\ new.at = to /\ new.session = task[p].session /\ new.calls = rest
        /\ new.iteration = task[p].iteration
    BY <1>1 DEF Tasks
  <2> HIDE DEF new, rest
  <2>5. QED
    BY <1>1, <2>2, <2>3, <2>4
<1>4. /\ open' \in [Prompts -> SUBSET (Nat \X Nat)]
      /\ open'[p] = open[p] \ {CallId(p, Len(calls))}
      /\ \A q \in Prompts \ {p} : open'[q] = open[q]
  BY <1>2 DEF EndCall, Shape, TypeOK
<1>5. CASE rest = <<>>
  <2>1. Commit(p, "results")
    BY <1>5 DEF EndCall
  <2>2. conv' \in [Sessions -> Seq(Entries)] /\ Appends(p, "results")
    BY <1>1, <2>1, CommitAppends DEF Appends, Shape
  <2>3. Moves(p)
    BY <1>3, <1>4, <1>5, <2>2 DEF Moves, Same, Completes
  <2>4. QED
    BY <1>3, <1>4, <2>2, <2>3 DEF EndCall, Shape, TypeOK
<1>6. CASE rest # <<>>
  <2>1. UNCHANGED conv
    BY <1>6 DEF EndCall
  <2>2. Moves(p)
    BY <1>3, <1>4, <1>6, <2>1 DEF Moves, Same, Completes
  <2>3. QED
    BY <1>3, <1>4, <2>1, <2>2 DEF EndCall, Shape, TypeOK
<1>7. QED
  BY <1>5, <1>6

\* The end of a turn.
LEMMA RespondMoves ==
  ASSUME Shape, NEW p \in Prompts, Active(p), NEW stop \in Stops, Respond(p, stop),
         \A q \in Prompts \ {p} : open'[q] = open[q],
         UNCHANGED conv \/ Appends(p, "text") \/ Appends(p, "calls"),
         stop \in {"EndTurn", "ToolUse", "StopSequence"} =>
           task[p].at = "model" /\ Appends(p, "text") /\ UNCHANGED open
  PROVE  /\ Moves(p)
         /\ task' \in [Prompts -> Tasks] /\ queue' \in [Sessions -> Seq(Prompts)]
         /\ answered' \in [Prompts -> {None} \union Answers]
<1>1. TypeOK /\ At(p, "done") /\ task[p].session \in Sessions
  BY DEF Shape, Respond, QueueInv, InPlace, Active, InCalls
<1>2. /\ task' \in [Prompts -> Tasks] /\ task'[p].at = "done"
      /\ task'[p].session = task[p].session
      /\ \A q \in Prompts \ {p} : task'[q] = task[q]
  BY <1>1, AtMoves
<1>3. /\ AcpStop(stop) \in Answers
      /\ AcpStop(stop) = "end_turn" => stop \in {"EndTurn", "ToolUse", "StopSequence"}
  BY DEF AcpStop, Answers, Stops
<1>4. /\ answered' \in [Prompts -> {None} \union Answers]
      /\ answered'[p] = AcpStop(stop)
      /\ \A q \in Prompts \ {p} : answered'[q] = answered[q]
  BY <1>1, <1>3 DEF Respond, TypeOK
<1>5. queue[task[p].session] \in Seq(Prompts) /\ queue[task[p].session] # <<>>
  BY <1>1 DEF Shape, QueueInv, InPlace, TypeOK
<1>6. queue' \in [Sessions -> Seq(Prompts)]
  BY <1>1, <1>5 DEF Respond, TypeOK
<1>7. Returns(p)
  BY <1>2, <1>3, <1>4 DEF Returns, Respond
<1>8. QED
  BY <1>2, <1>4, <1>6, <1>7 DEF Moves, Same

\* What the types say of a task, and of the task of a message.
LEMMA TaskTyped ==
  ASSUME Shape, NEW p \in Prompts
  PROVE  /\ task \in [Prompts -> Tasks] /\ task[p] \in Tasks
         /\ task[p].calls \in Seq(STRING) /\ task[p].iteration \in Nat
         /\ task[p].iteration <= SessionAgent.max_iterations
         /\ task[p].at # "unsent" => task[p].session \in Sessions
         /\ InCalls(p) => task[p].calls # <<>> /\ Head(task[p].calls) \in STRING
                         /\ Len(task[p].calls) \in Nat
<1>1. task \in [Prompts -> Tasks] /\ task[p] \in Tasks
  BY DEF Shape, TypeOK
<1>2. task[p].at # "unsent" => task[p].session \in Sessions
  BY DEF Shape, QueueInv, InPlace
<1>3. InCalls(p) => task[p].calls # <<>>
  BY DEF Shape, CallsInv, Open
<1>4. task[p].calls \in Seq(STRING) /\ task[p].iteration \in 0 .. SessionAgent.max_iterations
  BY <1>1 DEF Tasks
<1>5. InCalls(p) => Head(task[p].calls) \in STRING /\ Len(task[p].calls) \in Nat
  BY <1>3, <1>4, TailFacts
<1>6. QED
  BY <1>1, <1>2, <1>3, <1>4, <1>5, SessionAgentLoaded

\* Posting a message.
LEMMA PostTyped ==
  ASSUME TypeOK, NEW m \in Messages, Post(m)
  PROVE  inbox' \in Seq(Messages) /\ inbox' = Append(inbox, m) /\ UNCHANGED approval_disabled
  BY DEF TypeOK, Post

\* A step of the client.
LEMMA ClientMoves ==
  ASSUME Shape,
         \/ \E s \in Sessions : SendPrompt(s)
         \/ SendOther
         \/ \E p \in Prompts, o \in Options : Choose(p, o)
  PROVE  /\ TypeOK'
         /\ \/ \E p \in Prompts : Moves(p)
            \/ UNCHANGED <<task, queue, conv, open, answered>>
<1>0. TypeOK
  BY DEF Shape
<1>1. ASSUME NEW s \in Sessions, SendPrompt(s) PROVE TypeOK' /\ \E p \in Prompts : Moves(p)
  <2>1. PICK p \in Prompts :
          /\ task[p].at = "unsent"
          /\ task' = [task EXCEPT ![p].at = "sent", ![p].session = s]
          /\ Post([type |-> "prompt", prompt |-> p])
          /\ UNCHANGED <<sessions, queue, conv, answered, open, log, others>>
    BY <1>1 DEF SendPrompt
  <2>2. inbox' \in Seq(Messages) /\ UNCHANGED approval_disabled
    BY <1>0, <2>1, PostTyped DEF Messages
  <2>3. /\ task' \in [Prompts -> Tasks] /\ \A q \in Prompts \ {p} : task'[q] = task[q]
        /\ task'[p].at = "sent" /\ task'[p].session = s
    <3> DEFINE new == [task[p] EXCEPT !.at = "sent", !.session = s]
    <3>1. task \in [Prompts -> Tasks] /\ task[p] \in Tasks
      BY TaskTyped
    <3>2. task' = [task EXCEPT ![p] = new]
      BY <2>1, <3>1
    <3>3. new \in Tasks /\ new.at = "sent" /\ new.session = s
      BY <3>1 DEF Tasks
    <3> HIDE DEF new
    <3>4. QED
      BY <3>1, <3>2, <3>3
  <2>4. TypeOK'
    BY <1>0, <2>1, <2>2, <2>3 DEF TypeOK, log
  <2>5. Moves(p)
    BY <2>1, <2>3 DEF Moves, Same, Sends
  <2>6. QED
    BY <2>4, <2>5
<1>2. CASE SendOther
  <2>1. inbox' \in Seq(Messages) /\ UNCHANGED approval_disabled
    BY <1>0, <1>2, PostTyped DEF SendOther, Messages
  <2>2. QED
    BY <1>0, <1>2, <2>1 DEF SendOther, TypeOK, log
<1>3. ASSUME NEW p \in Prompts, NEW o \in Options, Choose(p, o)
      PROVE  TypeOK' /\ Moves(p)
  <2>1. inbox' \in Seq(Messages) /\ UNCHANGED approval_disabled
    BY <1>0, <1>3, PostTyped DEF Choose, Messages
  <2>2. At(p, "chosen") /\ InCalls(p)
    BY <1>3 DEF Choose, At, InCalls
  <2>3. /\ task' \in [Prompts -> Tasks] /\ \A q \in Prompts \ {p} : task'[q] = task[q]
        /\ task'[p].at = "chosen" /\ task'[p].session = task[p].session
        /\ task'[p].iteration = task[p].iteration /\ task'[p].calls = task[p].calls
    BY <1>0, <2>2, AtMoves
  <2>4. QED
    BY <1>0, <1>3, <2>1, <2>2, <2>3 DEF Choose, TypeOK, log, Moves, Same, Proceeds
<1>4. QED
  BY <1>1, <1>2, <1>3

\* Announcing calls.
LEMMA AnnounceTyped ==
  ASSUME TypeOK, NEW p \in Prompts, NEW ids \in SUBSET (Nat \X Nat), Announce(p, ids)
  PROVE  /\ open' \in [Prompts -> SUBSET (Nat \X Nat)]
         /\ open'[p] = open[p] \union ids
         /\ \A q \in Prompts \ {p} : open'[q] = open[q]
  BY DEF TypeOK, Announce

\* A call that is asked about, or starts.
LEMMA GateMoves ==
  ASSUME Shape, NEW p \in Prompts, InCalls(p), Start(p) \/ Ask(p),
         UNCHANGED <<queue, conv, answered>>
  PROVE  /\ Moves(p)
         /\ task' \in [Prompts -> Tasks] /\ open' \in [Prompts -> SUBSET (Nat \X Nat)]
<1>1. PICK to \in {"running", "asking"} : At(p, to) /\ Announce(p, {CallId(p, Len(task[p].calls))})
  BY DEF Start, Ask
<1>2. TypeOK /\ CallId(p, Len(task[p].calls)) \in Nat \X Nat
  BY TaskTyped DEF Shape, CallId
<1>3. /\ open' \in [Prompts -> SUBSET (Nat \X Nat)]
      /\ open'[p] = open[p] \union {CallId(p, Len(task[p].calls))}
      /\ \A q \in Prompts \ {p} : open'[q] = open[q]
  BY <1>1, <1>2, AnnounceTyped
<1>4. /\ task' \in [Prompts -> Tasks] /\ \A q \in Prompts \ {p} : task'[q] = task[q]
      /\ task'[p].at = to /\ task'[p].session = task[p].session
      /\ task'[p].iteration = task[p].iteration /\ task'[p].calls = task[p].calls
  BY <1>1, <1>2, AtMoves
<1>5. QED
  BY <1>3, <1>4 DEF Moves, Same, Proceeds

\* A reply, which ends the turn or has its calls run.
LEMMA ReplyMoves ==
  ASSUME Shape, NEW p \in Prompts, NEW r \in Replies, Reply(p, r)
  PROVE  TypeOK' /\ Moves(p)
<1> DEFINE ends == r.stop \in {"Error", "Refusal", "MaxTokens", "failed"} \/ r.calls = <<>>
<1>1. /\ TypeOK /\ r.stop \in Stops /\ r.calls \in Seq(STRING)
      /\ task[p].at = "model" /\ task[p].iteration \in Nat /\ task[p].session \in Sessions
      /\ task[p].iteration < SessionAgent.max_iterations /\ task[p] \in Tasks
      /\ task \in [Prompts -> Tasks]
  BY AcpAssumption, TaskTyped DEF Reply, Shape
<1>2. Len(r.calls) \in Nat /\ CallsOf(p, r) \in SUBSET (Nat \X Nat)
  BY <1>1 DEF CallsOf
<1>3. /\ open' \in [Prompts -> SUBSET (Nat \X Nat)]
      /\ open'[p] = open[p] \union CallsOf(p, r)
      /\ \A q \in Prompts \ {p} : open'[q] = open[q]
  BY <1>1, <1>2, AnnounceTyped DEF Reply
<1>4. /\ conv' \in [Sessions -> Seq(Entries)]
      /\ IF r.stop = "failed" THEN UNCHANGED conv
         ELSE Appends(p, IF r.calls = <<>> THEN "text" ELSE "calls")
  <2>1. CASE r.stop = "failed"
    BY <1>1, <2>1 DEF Reply, TypeOK
  <2>2. CASE r.stop # "failed" /\ r.calls = <<>>
    BY <1>1, <2>2, CommitAppends DEF Reply, Appends
  <2>3. CASE r.stop # "failed" /\ r.calls # <<>>
    BY <1>1, <2>3, CommitAppends DEF Reply, Appends
  <2>4. QED
    BY <2>1, <2>2, <2>3
<1>5. CASE ends
  <2>1. Respond(p, r.stop) /\ Active(p)
    BY <1>1, <1>5 DEF Reply, Active
  <2>2. UNCHANGED conv \/ Appends(p, "text") \/ Appends(p, "calls")
    BY <1>4
  <2>3. ASSUME r.stop \in {"EndTurn", "ToolUse", "StopSequence"}
        PROVE  task[p].at = "model" /\ Appends(p, "text") /\ UNCHANGED open
    <3>1. r.calls = <<>> /\ r.stop # "failed"
      BY <1>5, <2>3
    <3>2. CallsOf(p, r) = {}
      BY <3>1 DEF CallsOf
    <3>3. Announce(p, {})
      BY <3>2 DEF Reply
    <3>4. UNCHANGED open
      BY <1>1, <3>3 DEF Announce, TypeOK
    <3>5. QED
      BY <1>1, <1>4, <3>1, <3>4
  <2>4. /\ Moves(p)
        /\ task' \in [Prompts -> Tasks] /\ queue' \in [Sessions -> Seq(Prompts)]
        /\ answered' \in [Prompts -> {None} \union Answers]
    BY <1>1, <1>3, <2>1, <2>2, <2>3, RespondMoves
  <2>5. QED
    BY <1>1, <1>3, <1>4, <2>4 DEF Reply, TypeOK, net, log
<1>6. CASE ~ends
  <2>1. /\ task' = [task EXCEPT ![p].at = "call", ![p].calls = r.calls,
                                ![p].iteration = @ + 1]
        /\ UNCHANGED <<queue, answered>>
    BY <1>6 DEF Reply
  <2>2. /\ task' \in [Prompts -> Tasks] /\ \A q \in Prompts \ {p} : task'[q] = task[q]
        /\ task'[p].at = "call" /\ task'[p].session = task[p].session
        /\ task'[p].iteration = task[p].iteration + 1 /\ task'[p].calls = r.calls
    <3> DEFINE new == [task[p] EXCEPT !.at = "call", !.calls = r.calls, !.iteration = @ + 1]
    <3>1. task' = [task EXCEPT ![p] = new]
      BY <1>1, <2>1
    <3>2. task[p].iteration + 1 \in 0 .. SessionAgent.max_iterations
      BY <1>1, SessionAgentLoaded
    <3>3. new \in Tasks
      BY <1>1, <3>2 DEF Tasks
    <3>4. /\ new.at = "call" /\ new.session = task[p].session /\ new.calls = r.calls
          /\ new.iteration = task[p].iteration + 1
      BY <1>1 DEF Tasks
    <3> HIDE DEF new
    <3>5. QED
      BY <1>1, <3>1, <3>3, <3>4
  <2>3. TypeOK'
    BY <1>1, <1>3, <1>4, <2>1, <2>2 DEF Reply, TypeOK, net, log
  <2>4. Moves(p)
    BY <1>1, <1>3, <1>4, <1>6, <2>1, <2>2 DEF Moves, Same, Turns, CallsOf
  <2>5. QED
    BY <2>3, <2>4
<1>7. QED
  BY <1>5, <1>6

\* Any other step of a prompt's task.
LEMMA WorkMoves ==
  ASSUME Shape, NEW p \in Prompts, Work(p)
  PROVE  TypeOK' /\ Moves(p)
<1>0. TypeOK
  BY DEF Shape
<1>1. CASE Lock(p)
  <2>1. task[p].session \in Sessions /\ At(p, "queued") /\ task[p].at = "spawned"
    BY <1>1, TaskTyped DEF Lock
  <2>2. /\ task' \in [Prompts -> Tasks] /\ \A q \in Prompts \ {p} : task'[q] = task[q]
        /\ task'[p].at = "queued" /\ task'[p].session = task[p].session
    BY <1>0, <2>1, AtMoves
  <2>3. queue' \in [Sessions -> Seq(Prompts)]
    BY <1>0, <1>1, <2>1 DEF Lock, TypeOK
  <2>4. QED
    BY <1>0, <1>1, <2>1, <2>2, <2>3 DEF Lock, TypeOK, net, log, Moves, Same, Queues
<1>2. CASE Begin(p)
  <2>1. task[p].session \in Sessions /\ At(p, "model") /\ task[p].at = "queued"
    BY <1>2, TaskTyped DEF Begin
  <2>2. /\ task' \in [Prompts -> Tasks] /\ \A q \in Prompts \ {p} : task'[q] = task[q]
        /\ task'[p].at = "model" /\ task'[p].session = task[p].session
    BY <1>0, <2>1, AtMoves
  <2>3. conv' \in [Sessions -> Seq(Entries)] /\ Appends(p, "prompt")
    BY <1>0, <1>2, <2>1, CommitAppends DEF Begin, Appends
  <2>4. QED
    BY <1>0, <1>2, <2>1, <2>2, <2>3 DEF Begin, TypeOK, net, log, Moves, Same, Begins
<1>3. CASE Exhausted(p)
  <2>1. /\ Moves(p)
        /\ task' \in [Prompts -> Tasks] /\ queue' \in [Sessions -> Seq(Prompts)]
        /\ answered' \in [Prompts -> {None} \union Answers]
    BY <1>3, RespondMoves DEF Exhausted, Active, Stops
  <2>2. QED
    BY <1>0, <1>3, <2>1 DEF Exhausted, TypeOK, net, log
<1>4. CASE Gate(p)
  <2>1. (Start(p) \/ Ask(p)) /\ InCalls(p) /\ UNCHANGED <<queue, conv, answered>>
    BY <1>4 DEF Gate, InCalls
  <2>2. Moves(p) /\ task' \in [Prompts -> Tasks] /\ open' \in [Prompts -> SUBSET (Nat \X Nat)]
    BY <2>1, GateMoves
  <2>3. QED
    BY <1>0, <1>4, <2>2 DEF Gate, TypeOK, net, log
<1>5. ASSUME EndCall(p), InCalls(p), UNCHANGED <<net, sessions, queue, answered, granted>>
      PROVE  TypeOK' /\ Moves(p)
  BY <1>0, <1>5, EndCallMoves DEF TypeOK, net
<1>6. ASSUME NEW n \in Nat,
             \/ task' = [task EXCEPT ![p].at = "child", ![p].child = n]
             \/ task[p].at = "child" /\ task' = [task EXCEPT ![p].child = n],
             InCalls(p), UNCHANGED <<conv, open, said>>,
             UNCHANGED <<net, sessions, queue, answered, granted>>
      PROVE  TypeOK' /\ Moves(p)
  <2>1. /\ task' \in [Prompts -> Tasks] /\ \A q \in Prompts \ {p} : task'[q] = task[q]
        /\ task'[p].at = "child" /\ task'[p].session = task[p].session
        /\ task'[p].iteration = task[p].iteration /\ task'[p].calls = task[p].calls
    <3> DEFINE new == [task[p] EXCEPT !.at = "child", !.child = n]
    <3>1. task \in [Prompts -> Tasks] /\ task[p] \in Tasks
      BY TaskTyped
    <3>2. task' = [task EXCEPT ![p] = new]
      <4>1. CASE task' = [task EXCEPT ![p].at = "child", ![p].child = n]
        BY <3>1, <4>1
      <4>2. CASE task[p].at = "child" /\ task' = [task EXCEPT ![p].child = n]
        <5>1. [task[p] EXCEPT !.child = n] = new
          BY <3>1, <4>2 DEF Tasks
        <5>2. QED
          BY <3>1, <4>2, <5>1
      <4>3. QED
        BY <1>6, <4>1, <4>2
    <3>3. /\ new \in Tasks /\ new.at = "child" /\ new.session = task[p].session
          /\ new.iteration = task[p].iteration /\ new.calls = task[p].calls
      BY <3>1 DEF Tasks
    <3> HIDE DEF new
    <3>4. QED
      BY <3>1, <3>2, <3>3
  <2>2. QED
    BY <1>0, <1>6, <2>1 DEF TypeOK, net, Moves, Same, Proceeds
<1>7. CASE Execute(p)
  <2>1. InCalls(p)
    BY <1>7 DEF Execute, InCalls
  <2>2. QED
    BY <1>5, <1>6, <1>7, <2>1 DEF Execute
<1>8. CASE ChildExhausted(p)
  BY <1>5, <1>8 DEF ChildExhausted, InCalls
<1>9. ASSUME NEW r \in Replies, ChildReply(p, r) PROVE TypeOK' /\ Moves(p)
  <2>1. InCalls(p) /\ task[p].at = "child"
    BY <1>9 DEF ChildReply, InCalls
  <2>2. task[p].child + 1 \in Nat
    BY TaskTyped DEF Tasks
  <2>3. EndCall(p) \/ (task' = [task EXCEPT ![p].child = @ + 1] /\ UNCHANGED <<conv, open, said>>)
    BY <1>9 DEF ChildReply
  <2>4. task' = [task EXCEPT ![p].child = @ + 1] => task' = [task EXCEPT ![p].child = task[p].child + 1]
    BY TaskTyped
  <2>5. QED
    BY <1>5, <1>6, <1>9, <2>1, <2>2, <2>3, <2>4 DEF ChildReply
<1>10. QED
  BY <1>1, <1>2, <1>3, <1>4, <1>7, <1>8, <1>9, ReplyMoves DEF Work

\* What is in the inbox is a message, and its prompt's task waits for it.
LEMMA HeadTyped ==
  ASSUME Shape, Read
  PROVE  /\ inbox' = Tail(inbox) /\ inbox' \in Seq(Messages) /\ UNCHANGED approval_disabled
         /\ Head(inbox) \in Messages /\ Head(inbox) = inbox[1] /\ 1 \in DOMAIN inbox
         /\ Head(inbox).type \in {"prompt", "option"} => Head(inbox).prompt \in Prompts
         /\ Head(inbox).type = "prompt" => task[Head(inbox).prompt].at = "sent"
         /\ Head(inbox).type = "option" =>
              task[Head(inbox).prompt].at = "chosen" /\ Head(inbox).option \in Options
<1>1. inbox \in Seq(Messages) /\ inbox # <<>> /\ inbox' = Tail(inbox) /\ UNCHANGED approval_disabled
  BY DEF Shape, TypeOK, Read
<1>2. /\ Head(inbox) \in Messages /\ Head(inbox) = inbox[1] /\ 1 \in DOMAIN inbox
      /\ Tail(inbox) \in Seq(Messages)
  BY <1>1
<1>3. /\ Head(inbox).type \in {"prompt", "option"} => Head(inbox).prompt \in Prompts
      /\ Head(inbox).type = "option" => Head(inbox).option \in Options
  BY <1>2 DEF Messages
<1>4. QED
  BY <1>1, <1>2, <1>3 DEF Shape, InboxInv

\* A step of the dispatch loop.
LEMMA DispatchMoves ==
  ASSUME Shape, SessionInv, Dispatch
  PROVE  /\ TypeOK'
         /\ \/ \E p \in Prompts : Moves(p)
            \/ UNCHANGED <<task, queue, conv, open, answered>>
<1>0. TypeOK
  BY DEF Shape
<1>1. CASE OnPrompt
  <2> DEFINE p == Head(inbox).prompt
  <2>1. Read /\ p \in Prompts /\ task[p].at = "sent"
    BY <1>1, HeadTyped DEF OnPrompt
  <2>2. inbox' \in Seq(Messages) /\ UNCHANGED approval_disabled
    BY <2>1, HeadTyped
  <2>3. At(p, "spawned") /\ EnsureSession(task[p].session)
    BY <1>1 DEF OnPrompt
  <2>4. /\ task' \in [Prompts -> Tasks] /\ \A q \in Prompts \ {p} : task'[q] = task[q]
        /\ task'[p].at = "spawned" /\ task'[p].session = task[p].session
    BY <1>0, <2>1, <2>3, AtMoves
  <2>5. sessions' \in [Sessions -> {None} \union SUBSET DOMAIN CoderDefaults]
    BY <1>0, <2>3 DEF EnsureSession, TypeOK
  <2>6. UNCHANGED <<queue, conv, answered, open, log, others>>
    BY <1>1 DEF OnPrompt
  <2>7. TypeOK'
    BY <1>0, <2>2, <2>4, <2>5, <2>6 DEF TypeOK, log
  <2>8. Moves(p)
    BY <2>1, <2>4, <2>6 DEF Moves, Same, Reads
  <2>9. QED
    BY <2>1, <2>7, <2>8
<1>2. CASE OnPromptRefused
  <2> DEFINE p == Head(inbox).prompt
  <2>1. Read /\ p \in Prompts /\ task[p].at = "sent"
    BY <1>2, HeadTyped DEF OnPromptRefused
  <2>2. inbox' \in Seq(Messages) /\ UNCHANGED approval_disabled
    BY <2>1, HeadTyped
  <2>3. At(p, "done") /\ answered' = [answered EXCEPT ![p] = "refusal"]
    BY <1>2 DEF OnPromptRefused
  <2>4. /\ task' \in [Prompts -> Tasks] /\ \A q \in Prompts \ {p} : task'[q] = task[q]
        /\ task'[p].at = "done" /\ task'[p].session = task[p].session
    BY <1>0, <2>1, <2>3, AtMoves
  <2>5. /\ answered' \in [Prompts -> {None} \union Answers]
        /\ answered'[p] = "refusal" /\ \A q \in Prompts \ {p} : answered'[q] = answered[q]
    BY <1>0, <2>1, <2>3 DEF TypeOK, Answers
  <2>6. UNCHANGED <<sessions, queue, conv, open, log, others>>
    BY <1>2 DEF OnPromptRefused
  <2>7. TypeOK'
    BY <1>0, <2>2, <2>4, <2>5, <2>6 DEF TypeOK, log
  <2>8. Moves(p)
    BY <2>1, <2>4, <2>5, <2>6 DEF Moves, Same, Reads
  <2>9. QED
    BY <2>1, <2>7, <2>8
<1>3. CASE OnOption
  <2> DEFINE p == Head(inbox).prompt
             d == AcpDecision(Head(inbox).option)
             s == task[p].session
             name == Head(task[p].calls)
  <2>1. Read /\ p \in Prompts /\ task[p].at = "chosen" /\ Head(inbox).option \in Options
    BY <1>3, HeadTyped DEF OnOption
  <2>2. inbox' \in Seq(Messages) /\ UNCHANGED approval_disabled
    BY <2>1, HeadTyped
  <2>3. InCalls(p) /\ s \in Sessions /\ name \in DOMAIN CoderDefaults
    BY <2>1, TaskTyped DEF InCalls, Shape, CallsInv, Asked
  <2>4. /\ sessions[s] \in SUBSET DOMAIN CoderDefaults
    BY <1>0, <2>1, <2>3 DEF TypeOK, SessionInv
  <2>5. /\ sessions' = [sessions EXCEPT ![s] = Remember(d, name, @)]
        /\ granted' = IF d = "ApprovedForSession"
                      THEN [granted EXCEPT ![s] = @ \union {name}] ELSE granted
    BY <1>3 DEF OnOption, Decided
  <2>6. sessions' \in [Sessions -> {None} \union SUBSET DOMAIN CoderDefaults]
    <3>1. Remember(d, name, sessions[s]) \in SUBSET DOMAIN CoderDefaults
      BY <2>3, <2>4 DEF Remember
    <3>2. QED
      BY <1>0, <2>3, <2>5, <3>1 DEF TypeOK
  <2>7. granted' \in [Sessions -> SUBSET DOMAIN CoderDefaults]
    BY <1>0, <2>3, <2>5 DEF TypeOK
  <2>8. \/ Start(p) /\ d \in Consent /\ said' = [said EXCEPT ![p] = d] /\ UNCHANGED <<queue, conv, answered>>
        \/ EndCall(p) /\ UNCHANGED <<queue, answered>>
        \/ Respond(p, "failed") /\ UNCHANGED <<conv, open, said>>
    <3>1. /\ OutcomeOf(d) \in {"Pass", "FailedContinue", "ManualAttention"}
          /\ OutcomeOf(d) = "Pass" => d \in Consent
      BY <2>1, Decides DEF Outcomes
    <3>2. CASE OutcomeOf(d) = "Pass"
      BY <1>3, <3>1, <3>2 DEF OnOption, Decided
    <3>3. CASE OutcomeOf(d) = "FailedContinue"
      BY <1>3, <3>3 DEF OnOption, Decided
    <3>4. CASE OutcomeOf(d) = "ManualAttention"
      BY <1>3, <3>4 DEF OnOption, Decided
    <3>5. QED
      BY <3>1, <3>2, <3>3, <3>4
  <2>9. CASE Start(p) /\ d \in Consent /\ said' = [said EXCEPT ![p] = d] /\ UNCHANGED <<queue, conv, answered>>
    <3>1. Moves(p) /\ task' \in [Prompts -> Tasks] /\ open' \in [Prompts -> SUBSET (Nat \X Nat)]
      BY <2>1, <2>3, <2>9, GateMoves
    <3>2. said' \in [Prompts -> Consent \union {"nothing"}]
      BY <1>0, <2>9 DEF TypeOK
    <3>3. QED
      BY <1>0, <2>1, <2>2, <2>6, <2>7, <2>9, <3>1, <3>2 DEF TypeOK
  <2>10. CASE EndCall(p) /\ UNCHANGED <<queue, answered>>
    BY <1>0, <2>1, <2>2, <2>3, <2>6, <2>7, <2>10, EndCallMoves DEF TypeOK
  <2>11. CASE Respond(p, "failed") /\ UNCHANGED <<conv, open, said>>
    <3>1. /\ Moves(p)
          /\ task' \in [Prompts -> Tasks] /\ queue' \in [Sessions -> Seq(Prompts)]
          /\ answered' \in [Prompts -> {None} \union Answers]
      BY <2>1, <2>3, <2>11, RespondMoves DEF Active, Stops
    <3>2. QED
      BY <1>0, <2>1, <2>2, <2>6, <2>7, <2>11, <3>1 DEF TypeOK
  <2>12. QED
    BY <2>8, <2>9, <2>10, <2>11
<1>4. CASE OnOther
  <2>1. inbox' \in Seq(Messages) /\ UNCHANGED approval_disabled
    BY <1>4, HeadTyped DEF OnOther
  <2>2. QED
    BY <1>0, <1>4, <2>1 DEF OnOther, TypeOK, log
<1>5. QED
  BY <1>1, <1>2, <1>3, <1>4 DEF Dispatch

\* So every step keeps the types and is a move of one prompt, if it is any.
LEMMA NextMoves ==
  ASSUME Shape, SessionInv, [Next]_vars
  PROVE  /\ TypeOK'
         /\ \/ \E p \in Prompts : Moves(p)
            \/ UNCHANGED <<task, queue, conv, open, answered>>
<1>1. CASE UNCHANGED vars
  BY <1>1 DEF Shape, TypeOK, vars, net, log
<1>2. CASE Next
  BY <1>2, ClientMoves, WorkMoves, DispatchMoves DEF Next
<1>3. QED
  BY <1>1, <1>2

-----------------------------------------------------------------------------
(* The queue of a session. *)

\* Active tasks hold the lock: two of one session are the same.
LEMMA OneActive ==
  ASSUME QueueInv, NEW p \in Prompts, NEW q \in Prompts, Active(p), Active(q),
         task[p].session = task[q].session
  PROVE  p = q
  BY DEF QueueInv, InPlace

\* A place in a queue that a step does not touch.
LEMMA PlaceKept ==
  ASSUME QueueInv, NEW p \in Prompts, \A q \in Prompts \ {p} : task'[q] = task[q],
         NEW s \in Sessions, NEW i \in DOMAIN queue[s], queue'[s] = queue[s],
         queue[s][i] = p =>
           task'[p].session = s /\ (task'[p].at = "queued" \/ Active(p)')
  PROVE  Placed(s, i)'
<1>1. PICK q \in Prompts :
        /\ queue[s][i] = q /\ task[q].session = s /\ (task[q].at = "queued" \/ Active(q))
        /\ \A j \in DOMAIN queue[s] : i # j => queue[s][j] # q
  BY DEF QueueInv, Placed
<1>2. task'[q].session = s /\ (task'[q].at = "queued" \/ Active(q)')
  <2>1. CASE q = p
    BY <1>1, <2>1
  <2>2. CASE q # p
    BY <1>1, <2>2 DEF Active, InCalls
  <2>3. QED
    BY <2>1, <2>2
<1>3. QED
  BY <1>1, <1>2 DEF Placed

\* A task that does not move, in a queue that does not.
LEMMA InPlaceKept ==
  ASSUME QueueInv, NEW q \in Prompts, task'[q] = task[q],
         task[q].session \in Sessions => queue'[task[q].session] = queue[task[q].session]
  PROVE  InPlace(q)'
<1>1. task[q].at # "unsent" => task[q].session \in Sessions
  BY DEF QueueInv, InPlace
<1>2. CASE task[q].at = "unsent"
  BY <1>2 DEF InPlace, Active, InCalls
<1>3. CASE task[q].at # "unsent"
  BY <1>1, <1>3 DEF QueueInv, InPlace, Active, InCalls
<1>4. QED
  BY <1>2, <1>3

\* A task joins the queue at its end and leaves it at its head.
LEMMA MoveQueue ==
  ASSUME Shape, NEW p \in Prompts, Moves(p)
  PROVE  QueueInv'
<1>1. QueueInv /\ queue \in [Sessions -> Seq(Prompts)]
  BY DEF Shape, TypeOK
<1>2. \A q \in Prompts \ {p} : task'[q] = task[q]
  BY DEF Moves, Same
<1>3. /\ task[p].at # "unsent" => task'[p].session = task[p].session
      /\ task[p].at # "unsent" => task[p].session \in Sessions
  BY <1>1 DEF Moves, Same, QueueInv, InPlace
<1>4. CASE Sends(p) \/ Reads(p) \/ Begins(p) \/ Turns(p) \/ Proceeds(p) \/ Completes(p)
  <2>0. UNCHANGED queue
    BY <1>4 DEF Sends, Reads, Begins, Turns, Proceeds, Completes
  <2>1. \/ Sends(p) \/ Reads(p)
        \/ /\ Active(p) \/ (task[p].at = "queued" /\ Head(queue[task[p].session]) = p)
           /\ Active(p)'
    BY <1>4 DEF Begins, Turns, Proceeds, Completes, Active, InCalls
  <2>2. task[p].at = "unsent" => \A s \in Sessions : \A i \in DOMAIN queue[s] : queue[s][i] # p
    BY <1>1 DEF QueueInv, Placed, Active, InCalls
  <2>3. task[p].at = "sent" => \A s \in Sessions : \A i \in DOMAIN queue[s] : queue[s][i] # p
    BY <1>1 DEF QueueInv, Placed, Active, InCalls
  <2>4. ASSUME NEW s \in Sessions, NEW i \in DOMAIN queue[s] PROVE Placed(s, i)'
    <3>1. queue[s][i] = p => task[p].session = s
      BY <1>1 DEF QueueInv, Placed
    <3>2. queue[s][i] = p => task'[p].session = s /\ Active(p)'
      BY <1>3, <2>1, <2>2, <2>3, <3>1 DEF Sends, Reads, Active, InCalls
    <3>3. QED
      BY <1>1, <1>2, <2>0, <3>2, PlaceKept
  <2>5. InPlace(p)'
    <3>1. CASE Sends(p) \/ Reads(p)
      BY <1>3, <3>1 DEF Sends, Reads, InPlace, Active, InCalls
    <3>2. CASE /\ Active(p) \/ (task[p].at = "queued" /\ Head(queue[task[p].session]) = p)
               /\ Active(p)'
      <4> DEFINE s == task[p].session
      <4>1. s \in Sessions /\ queue[s] # <<>> /\ queue[s] \in Seq(Prompts) /\ task'[p].session = s
        BY <1>1, <1>3, <3>2 DEF QueueInv, InPlace, Active, InCalls
      <4>2. queue[s][1] = p
        BY <1>1, <3>2, <4>1 DEF QueueInv, InPlace
      <4>3. QED
        BY <2>0, <3>2, <4>1, <4>2 DEF InPlace, Active, InCalls
    <3>3. QED
      BY <2>1, <3>1, <3>2
  <2>6. QED
    BY <1>1, <1>2, <2>0, <2>4, <2>5, InPlaceKept DEF QueueInv
<1>5. CASE Queues(p)
  <2> DEFINE s == task[p].session
  <2>1. s \in Sessions /\ queue[s] \in Seq(Prompts) /\ task'[p].session = s
    BY <1>1, <1>3, <1>5 DEF Queues
  <2>2. queue'[s] = Append(queue[s], p) /\ \A t \in Sessions \ {s} : queue'[t] = queue[t]
    BY <1>1, <1>5, <2>1 DEF Queues
  <2>3. /\ DOMAIN queue'[s] = DOMAIN queue[s] \union {Len(queue[s]) + 1}
        /\ \A i \in DOMAIN queue[s] : queue'[s][i] = queue[s][i]
        /\ queue'[s][Len(queue[s]) + 1] = p /\ queue'[s] # <<>>
        /\ queue[s] # <<>> => 1 \in DOMAIN queue[s]
        /\ Len(queue[s]) + 1 \notin DOMAIN queue[s]
    BY SMTT(30), <2>1, <2>2, AppendFacts
  <2>4. \A t \in Sessions : \A i \in DOMAIN queue[t] : queue[t][i] # p
    BY <1>1, <1>5 DEF Queues, QueueInv, Placed, Active, InCalls
  <2>5. task'[p].at = "queued" /\ ~Active(p)'
    BY <1>5 DEF Queues, Active, InCalls
  <2>6. ASSUME NEW t \in Sessions, NEW i \in DOMAIN queue'[t] PROVE Placed(t, i)'
    <3>1. CASE t # s
      BY <1>1, <1>2, <2>2, <2>4, <2>6, <3>1, PlaceKept
    <3>2. CASE t = s /\ i \in DOMAIN queue[s]
      <4>1. PICK q \in Prompts :
              /\ queue[s][i] = q /\ task[q].session = s /\ (task[q].at = "queued" \/ Active(q))
              /\ \A j \in DOMAIN queue[s] : i # j => queue[s][j] # q
        BY <1>1, <2>1, <3>2 DEF QueueInv, Placed
      <4>2. q # p /\ queue'[s][i] = q
        BY <2>1, <2>3, <2>4, <3>2, <4>1
      <4>3. task'[q].session = s /\ (task'[q].at = "queued" \/ Active(q)')
        BY <1>2, <4>1, <4>2 DEF Active, InCalls
      <4>4. \A j \in DOMAIN queue'[s] : i # j => queue'[s][j] # q
        BY <2>3, <4>1, <4>2
      <4>5. QED
        BY <3>2, <4>2, <4>3, <4>4 DEF Placed
    <3>3. CASE t = s /\ i = Len(queue[s]) + 1
      <4>1. \A j \in DOMAIN queue'[s] : i # j => queue'[s][j] # p
        BY <2>1, <2>3, <2>4, <3>3
      <4>2. QED
        BY <2>1, <2>3, <2>5, <3>3, <4>1 DEF Placed
    <3>4. QED
      BY <2>3, <2>6, <3>1, <3>2, <3>3
  <2>7. InPlace(p)'
    <3>1. \E i \in DOMAIN queue'[s] : queue'[s][i] = p
      BY <2>3
    <3>2. QED
      BY <2>1, <2>5, <3>1 DEF InPlace
  <2>8. ASSUME NEW q \in Prompts \ {p} PROVE InPlace(q)'
    <3>1. CASE task[q].session # s
      BY <1>1, <1>2, <2>2, <3>1, InPlaceKept
    <3>2. CASE task[q].session = s
      <4>1. task'[q] = task[q] /\ InPlace(q)
        BY <1>1, <1>2 DEF QueueInv
      <4>2. QED
        BY <2>1, <2>3, <3>2, <4>1 DEF InPlace, Active, InCalls
    <3>3. QED
      BY <3>1, <3>2
  <2>9. QED
    BY <2>6, <2>7, <2>8 DEF QueueInv
<1>6. CASE Returns(p)
  <2> DEFINE s == task[p].session
  <2>1. /\ s \in Sessions /\ queue[s] \in Seq(Prompts) /\ task'[p].session = s
        /\ queue[s] # <<>> /\ queue[s][1] = p
    BY <1>1, <1>3, <1>6 DEF Returns, QueueInv, InPlace, Active, InCalls
  <2>2. queue'[s] = Tail(queue[s]) /\ \A t \in Sessions \ {s} : queue'[t] = queue[t]
    BY <1>1, <1>6, <2>1 DEF Returns
  <2>3. /\ \A i \in DOMAIN queue'[s] :
             i + 1 \in DOMAIN queue[s] /\ i + 1 # 1 /\ queue'[s][i] = queue[s][i + 1]
        /\ \A i \in DOMAIN queue[s] : i # 1 => i - 1 \in DOMAIN queue'[s] /\ (i - 1) + 1 = i
        /\ \A i, j \in DOMAIN queue'[s] : i # j => i + 1 # j + 1
    BY <2>1, <2>2
  <2>4. task'[p].at = "done" /\ ~Active(p)'
    BY <1>6 DEF Returns, Active, InCalls
  <2>5. ASSUME NEW t \in Sessions, NEW i \in DOMAIN queue'[t] PROVE Placed(t, i)'
    <3>1. CASE t # s
      <4>1. queue[t][i] # p
        BY <1>1, <2>1, <2>2, <2>5, <3>1 DEF QueueInv, Placed
      <4>2. QED
        BY <1>1, <1>2, <2>2, <2>5, <3>1, <4>1, PlaceKept
    <3>2. CASE t = s
      <4>1. PICK q \in Prompts :
              /\ queue[s][i + 1] = q /\ task[q].session = s /\ (task[q].at = "queued" \/ Active(q))
              /\ \A j \in DOMAIN queue[s] : i + 1 # j => queue[s][j] # q
        BY <1>1, <2>1, <2>3, <2>5, <3>2 DEF QueueInv, Placed
      <4>2. q # p /\ queue'[s][i] = q
        <5>1. i + 1 # 1 /\ 1 \in DOMAIN queue[s] /\ queue'[s][i] = queue[s][i + 1]
          BY <2>1, <2>3, <2>5, <3>2
        <5>2. QED
          BY <2>1, <4>1, <5>1
      <4>3. task'[q].session = s /\ (task'[q].at = "queued" \/ Active(q)')
        BY <1>2, <4>1, <4>2 DEF Active, InCalls
      <4>4. \A j \in DOMAIN queue'[s] : i # j => queue'[s][j] # q
        BY <2>3, <2>5, <3>2, <4>1
      <4>5. QED
        BY <3>2, <4>2, <4>3, <4>4 DEF Placed
    <3>3. QED
      BY <3>1, <3>2
  <2>6. ASSUME NEW q \in Prompts \ {p} PROVE InPlace(q)'
    <3>1. CASE task[q].session # s
      BY <1>1, <1>2, <2>2, <3>1, InPlaceKept
    <3>2. CASE task[q].session = s
      <4>1. ~Active(q)
        BY <1>1, <1>6, <2>6, <3>2, OneActive DEF Returns
      <4>2. task'[q] = task[q] /\ InPlace(q)
        BY <1>1, <1>2 DEF QueueInv
      <4>3. ASSUME task[q].at = "queued"
            PROVE  \E i \in DOMAIN queue'[s] : queue'[s][i] = q
        <5>1. PICK i \in DOMAIN queue[s] : queue[s][i] = q
          BY <3>2, <4>2, <4>3 DEF InPlace
        <5>2. i # 1
          BY <2>1, <2>6, <5>1
        <5>3. i - 1 \in DOMAIN queue'[s] /\ (i - 1) + 1 = i
          BY <2>3, <5>1, <5>2
        <5>4. queue'[s][i - 1] = q
          BY <2>3, <5>1, <5>3
        <5>5. QED
          BY <5>3, <5>4
      <4>4. QED
        BY <2>1, <3>2, <4>1, <4>2, <4>3 DEF InPlace, Active, InCalls
    <3>3. QED
      BY <3>1, <3>2
  <2>7. InPlace(p)'
    BY <2>1, <2>4 DEF InPlace
  <2>8. QED
    BY <2>5, <2>6, <2>7 DEF QueueInv
<1>7. QED
  BY <1>4, <1>5, <1>6 DEF Moves

-----------------------------------------------------------------------------
(* The calls of a task. *)

\* The ends of calls take them off the list and close them one by one.
LEMMA MoveOpen ==
  ASSUME Shape, NEW p \in Prompts, Moves(p), TypeOK'
  PROVE  \A q \in Prompts : Open(q)'
<1>1. \A q \in Prompts : Open(q)
  BY DEF Shape, CallsInv
<1>2. \A q \in Prompts \ {p} : task'[q] = task[q] /\ open'[q] = open[q]
  BY DEF Moves, Same
<1>3. \A q \in Prompts \ {p} : Open(q)'
  BY <1>1, <1>2 DEF Open, InCalls
<1>4. Open(p)'
  <2>1. CASE Sends(p) \/ Reads(p) \/ Queues(p) \/ Begins(p) \/ Returns(p)
    BY <1>1, <2>1 DEF Sends, Reads, Queues, Begins, Returns, Open, InCalls
  <2>2. CASE Turns(p)
    BY <1>1, <2>2 DEF Turns, Open, InCalls
  <2>3. CASE Proceeds(p)
    <3> DEFINE calls == task[p].calls
    <3>1. calls # <<>> /\ calls \in Seq(STRING) /\ open[p] = {task[p].iteration} \X (1 .. Len(calls))
      BY <1>1, <2>3, TaskTyped DEF Proceeds, Open
    <3>2. CallId(p, Len(calls)) \in {task[p].iteration} \X (1 .. Len(calls))
      <4>1. Len(calls) \in 1 .. Len(calls)
        <5>1. calls # <<>> /\ calls \in Seq(STRING)
          BY <3>1
        <5> HIDE DEF calls
        <5>2. Len(calls) \in Nat /\ Len(calls) >= 1
          BY <5>1, TailFacts
        <5>3. QED
          BY <5>2
      <4>2. QED
        BY <4>1 DEF CallId
    <3>3. open'[p] = {task[p].iteration} \X (1 .. Len(calls))
      BY <2>3, <3>1, <3>2 DEF Proceeds
    <3>4. QED
      BY <2>3, <3>1, <3>3 DEF Proceeds, Open, InCalls
  <2>4. CASE Completes(p)
    <3> DEFINE calls == task[p].calls
               rest  == Tail(calls)
               n     == Len(calls)
    <3>1. calls # <<>> /\ calls \in Seq(STRING) /\ open[p] = {task[p].iteration} \X (1 .. n)
      BY <1>1, <2>4, TaskTyped DEF Completes, Open
    <3>2. n \in Nat /\ n >= 1 /\ Len(rest) = n - 1 /\ rest \in Seq(STRING)
      BY <3>1, TailFacts
    <3>3. open'[p] = open[p] \ {<<task[p].iteration, n>>}
      BY <2>4 DEF Completes, CallId
    <3>4. open'[p] = {task[p].iteration} \X (1 .. n - 1)
      <4>1. (1 .. n) \ {n} = 1 .. n - 1
        BY <3>2
      <4>2. QED
        BY <3>1, <3>3, <4>1
    <3>5. CASE rest = <<>>
      <4>1. 1 .. n - 1 = {}
        BY <3>2, <3>5
      <4>2. open'[p] = {task[p].iteration} \X {}
        BY <3>4, <4>1, Zenon
      <4>4. open'[p] = {}
        BY <4>2
      <4>3. QED
        BY <2>4, <3>5, <4>4 DEF Completes, Open, InCalls
    <3>6. CASE rest # <<>>
      BY <2>4, <3>2, <3>4, <3>6 DEF Completes, Open, InCalls
    <3>7. QED
      BY <3>5, <3>6
  <2>5. QED
    BY <2>1, <2>2, <2>3, <2>4 DEF Moves
<1>5. QED
  BY <1>3, <1>4

\* How a task comes to ask, to have its answer and to run its tool, and what
\* the step does to what was said and granted.
Gated(q) ==
  /\ task'[q].calls = task[q].calls /\ task'[q].session = task[q].session
  /\ UNCHANGED granted
  /\ task[q].at = "call"

Steps(q) ==
  /\ \A s \in Sessions : granted[s] \subseteq granted'[s]
  /\ UNCHANGED approval_disabled
  /\ task'[q].at = "asking" =>
       \/ task'[q] = task[q]
       \/ /\ Gated(q) /\ Head(task[q].calls) \notin sessions[task[q].session]
          /\ Head(task[q].calls) \in DOMAIN CoderDefaults
  /\ task'[q].at = "chosen" =>
       task[q].at \in {"asking", "chosen"} /\ task'[q].calls = task[q].calls
  /\ task'[q].at = "running" =>
       \/ task'[q] = task[q] /\ said'[q] = said[q]
       \/ /\ Gated(q)
          /\ \/ approval_disabled \/ Head(task[q].calls) \notin DOMAIN CoderDefaults
             \/ Head(task[q].calls) \in sessions[task[q].session]
       \/ said'[q] \in Consent

\* The end of a call leads on, and forgets what was said about it.
LEMMA EndCallSteps ==
  ASSUME Shape, NEW p \in Prompts, InCalls(p), EndCall(p)
  PROVE  /\ task'[p].at \notin {"asking", "chosen", "running"}
         /\ \A q \in Prompts \ {p} : task'[q] = task[q] /\ said'[q] = said[q]
  BY TaskTyped DEF EndCall, Tasks, Shape, TypeOK

\* Two answers of the hook.
LEMMA GateVerdict ==
  ASSUME NEW name, NEW cache
  PROVE  LET v == Before("OnRequest", CoderDefaults, name, FALSE, cache)
         IN  /\ v = "Ask" => name \in DOMAIN CoderDefaults /\ name \notin cache
             /\ v # "Ask" => name \notin DOMAIN CoderDefaults \/ name \in cache
  BY DEF Before, Classify, CoderDefaults

\* Every step, seen from any task.
LEMMA NextSteps ==
  ASSUME Shape, [Next]_vars, NEW q \in Prompts
  PROVE  Steps(q)
<1>0. TypeOK /\ task \in [Prompts -> Tasks]
  BY TaskTyped DEF Shape
<1>1. CASE UNCHANGED vars
  BY <1>1 DEF vars, net, log, Steps
<1>2. ASSUME UNCHANGED <<approval_disabled, granted>>,
             \/ task'[q] = task[q] /\ said'[q] = said[q]
             \/ task'[q].at \notin {"asking", "chosen", "running"}
      PROVE  Steps(q)
  BY <1>2 DEF Steps
<1>3. ASSUME NEW s \in Sessions, SendPrompt(s) PROVE Steps(q)
  <2>1. PICK p \in Prompts : task' = [task EXCEPT ![p].at = "sent", ![p].session = s]
    BY <1>3 DEF SendPrompt
  <2>2. task'[q] = task[q] \/ task'[q].at = "sent"
    BY <1>0, <2>1 DEF Tasks
  <2>3. QED
    BY <1>2, <1>3, <2>2 DEF SendPrompt, Post, log
<1>4. CASE SendOther \/ OnOther
  BY <1>2, <1>4 DEF SendOther, OnOther, Post, Read, log
<1>5. ASSUME NEW p \in Prompts, NEW o \in Options, Choose(p, o) PROVE Steps(q)
  <2>1. At(p, "chosen") /\ task[p].at = "asking"
    BY <1>5 DEF Choose, At
  <2>2. CASE q = p
    BY <1>0, <1>5, <2>1, <2>2, AtMoves DEF Choose, Post, log, Steps
  <2>3. CASE q # p
    BY <1>0, <1>2, <1>5, <2>1, <2>3, AtMoves DEF Choose, Post, log
  <2>4. QED
    BY <2>2, <2>3
<1>6. ASSUME NEW p \in Prompts, Gate(p) PROVE Steps(q)
  <2> DEFINE name == Head(task[p].calls)
             cache == sessions[task[p].session]
             v == IF approval_disabled THEN "Pass"
                  ELSE Before("OnRequest", CoderDefaults, name, FALSE, cache)
  <2>1. /\ IF v = "Ask" THEN Ask(p) ELSE Start(p)
        /\ task[p].at = "call" /\ UNCHANGED <<approval_disabled, granted, said>>
    BY <1>6 DEF Gate, net, log
  <2>2. /\ v = "Ask" => name \in DOMAIN CoderDefaults /\ name \notin cache
        /\ v # "Ask" => approval_disabled \/ name \notin DOMAIN CoderDefaults \/ name \in cache
    BY GateVerdict
  <2>3. PICK to \in {"asking", "running"} :
          At(p, to) /\ (to = "asking" => v = "Ask") /\ (to = "running" => v # "Ask")
    BY <2>1 DEF Ask, Start
  <2> HIDE DEF v
  <2>4. /\ \A r \in Prompts \ {p} : task'[r] = task[r]
        /\ task'[p].at = to /\ task'[p].session = task[p].session /\ task'[p].calls = task[p].calls
    BY <1>0, <2>3, AtMoves
  <2>5. CASE q = p
    BY <2>1, <2>2, <2>3, <2>4, <2>5 DEF Steps, Gated
  <2>6. CASE q # p
    BY <1>2, <2>1, <2>4, <2>6
  <2>7. QED
    BY <2>5, <2>6
<1>7. ASSUME NEW p \in Prompts, Lock(p) \/ Begin(p) \/ Exhausted(p) PROVE Steps(q)
  <2>1. PICK to \in {"queued", "model", "done"} : At(p, to)
    BY <1>7 DEF Lock, Begin, Exhausted, Respond
  <2>2. QED
    BY <1>0, <1>2, <1>7, <2>1, AtMoves DEF Lock, Begin, Exhausted, net, log
<1>8. ASSUME NEW p \in Prompts, NEW r \in Replies, Reply(p, r) PROVE Steps(q)
  <2>1. UNCHANGED <<approval_disabled, granted, said>>
    BY <1>8 DEF Reply, net, log
  <2>2. CASE Respond(p, r.stop)
    BY <1>0, <1>2, <2>1, <2>2, AtMoves DEF Respond
  <2>3. CASE task' = [task EXCEPT ![p].at = "call", ![p].calls = r.calls, ![p].iteration = @ + 1]
    <3>1. task'[q] = task[q] \/ task'[q].at = "call"
      BY <1>0, <2>3 DEF Tasks
    <3>2. QED
      BY <1>2, <2>1, <3>1
  <2>4. QED
    BY <1>8, <2>2, <2>3 DEF Reply
<1>9. ASSUME NEW p \in Prompts, Execute(p) \/ ChildExhausted(p) \/ \E r \in Replies : ChildReply(p, r)
      PROVE  Steps(q)
  <2>1. UNCHANGED <<approval_disabled, granted>> /\ InCalls(p)
    BY <1>9 DEF Execute, ChildExhausted, ChildReply, InCalls, net
  <2>2. \/ EndCall(p)
        \/ task' = [task EXCEPT ![p].at = "child", ![p].child = 0] /\ UNCHANGED said
        \/ task[p].at = "child" /\ task' = [task EXCEPT ![p].child = @ + 1] /\ UNCHANGED said
    BY <1>9 DEF Execute, ChildExhausted, ChildReply
  <2>3. (task'[q] = task[q] /\ said'[q] = said[q])
          \/ task'[q].at \notin {"asking", "chosen", "running"}
    <3>1. CASE EndCall(p)
      BY <2>1, <3>1, EndCallSteps
    <3>2. CASE task' = [task EXCEPT ![p].at = "child", ![p].child = 0] /\ UNCHANGED said
      BY <1>0, <3>2 DEF Tasks
    <3>3. CASE task[p].at = "child" /\ task' = [task EXCEPT ![p].child = @ + 1] /\ UNCHANGED said
      BY <1>0, <3>3 DEF Tasks
    <3>4. QED
      BY <2>2, <3>1, <3>2, <3>3
  <2>4. QED
    BY <1>2, <2>1, <2>3
<1>10. CASE OnPrompt \/ OnPromptRefused
  <2> DEFINE p == Head(inbox).prompt
  <2>1. p \in Prompts /\ UNCHANGED <<approval_disabled, granted, said>>
    BY <1>10, HeadTyped DEF OnPrompt, OnPromptRefused, log
  <2>2. PICK to \in {"spawned", "done"} : At(p, to)
    BY <1>10 DEF OnPrompt, OnPromptRefused
  <2>3. QED
    BY <1>0, <1>2, <2>1, <2>2, AtMoves
<1>11. CASE OnOption
  <2> DEFINE p == Head(inbox).prompt
             d == AcpDecision(Head(inbox).option)
             s == task[p].session
  <2>1. /\ Read /\ p \in Prompts /\ task[p].at = "chosen" /\ Head(inbox).option \in Options
        /\ UNCHANGED approval_disabled
    BY <1>11, HeadTyped DEF OnOption
  <2>2. InCalls(p) /\ s \in Sessions
    BY <2>1, TaskTyped DEF InCalls
  <2>3. \A t \in Sessions : granted[t] \subseteq granted'[t]
    BY <1>0, <1>11, <2>2 DEF OnOption, Decided, TypeOK
  <2>4. /\ OutcomeOf(d) \in {"Pass", "FailedContinue", "ManualAttention"}
        /\ OutcomeOf(d) = "Pass" => d \in Consent
    BY <2>1, Decides DEF Outcomes
  <2>5. CASE OutcomeOf(d) = "Pass"
    <3>1. At(p, "running") /\ said' = [said EXCEPT ![p] = d]
      BY <1>11, <2>5 DEF OnOption, Decided, Start
    <3>2. /\ \A r \in Prompts \ {p} : task'[r] = task[r] /\ said'[r] = said[r]
          /\ task'[p].at = "running" /\ said'[p] \in Consent
      BY <1>0, <2>1, <2>4, <2>5, <3>1, AtMoves DEF TypeOK
    <3>3. QED
      BY <2>1, <2>3, <3>2 DEF Steps
  <2>6. CASE OutcomeOf(d) = "FailedContinue"
    <3>1. EndCall(p)
      BY <1>11, <2>6 DEF OnOption, Decided
    <3>2. QED
      BY <2>1, <2>2, <2>3, <3>1, EndCallSteps DEF Steps
  <2>7. CASE OutcomeOf(d) = "ManualAttention"
    <3>1. At(p, "done") /\ UNCHANGED said
      BY <1>11, <2>7 DEF OnOption, Decided, Respond
    <3>2. QED
      BY <1>0, <2>1, <2>3, <3>1, AtMoves DEF Steps
  <2>8. QED
    BY <2>4, <2>5, <2>6, <2>7
<1>12. QED
  BY <1>1, <1>3, <1>4, <1>5, <1>6, <1>7, <1>8, <1>9, <1>10, <1>11 DEF Next, Work, Dispatch

\* A task asks only about what the hook has a rule for.
LEMMA NextAsked ==
  ASSUME Shape, [Next]_vars, NEW q \in Prompts
  PROVE  Asked(q)'
<1>1. Steps(q) /\ Asked(q)
  BY NextSteps DEF Shape, CallsInv
<1>2. QED
  BY <1>1 DEF Steps, Asked, Gated

-----------------------------------------------------------------------------
(* Messages and sessions. *)

\* A task at work reads no message and touches no session.
LEMMA WorkApart ==
  ASSUME Shape, NEW p \in Prompts, Work(p)
  PROVE  /\ task[p].at \notin {"unsent", "sent", "chosen", "done"}
         /\ \A q \in Prompts \ {p} : task'[q] = task[q]
         /\ UNCHANGED <<inbox, sessions, granted>>
<1>1. \A q \in Prompts \ {p} : task'[q] = task[q]
  BY WorkMoves DEF Moves, Same
<1>2. QED
  BY <1>1 DEF Work, Lock, Begin, Exhausted, Gate, Execute, ChildExhausted, Reply, ChildReply,
              net, log

\* A new message about a task that had none.
LEMMA PostKeeps ==
  ASSUME Shape, NEW p \in Prompts, task[p].at \notin {"sent", "chosen"},
         \A q \in Prompts \ {p} : task'[q] = task[q],
         NEW m \in Messages, Post(m), m.type \in {"prompt", "option"}, m.prompt = p,
         task'[p].at = IF m.type = "prompt" THEN "sent" ELSE "chosen"
  PROVE  InboxInv'
<1>1. inbox \in Seq(Messages) /\ inbox' = Append(inbox, m) /\ InboxInv
  BY DEF Shape, TypeOK, Post
<1>2. /\ DOMAIN inbox' = DOMAIN inbox \union {Len(inbox) + 1}
      /\ Len(inbox) + 1 \notin DOMAIN inbox
      /\ \A i \in DOMAIN inbox : inbox'[i] = inbox[i]
      /\ inbox'[Len(inbox) + 1] = m
  BY <1>1, AppendFacts
<1>3. \A i \in DOMAIN inbox :
        inbox[i].type # "other" =>
          /\ inbox[i].type \in {"prompt", "option"}
          /\ inbox[i].prompt \in Prompts /\ inbox[i].prompt # p
  <2>1. \A i \in DOMAIN inbox : inbox[i] \in Messages
    BY <1>1
  <2>2. QED
    BY <1>1, <2>1 DEF InboxInv, Messages
<1>4. QED
  BY <1>1, <1>2, <1>3 DEF InboxInv

\* A message that was read, with whatever it made of its task.
LEMMA ReadKeeps ==
  ASSUME Shape, Read,
         Head(inbox).type = "other" => UNCHANGED task,
         Head(inbox).type # "other" =>
           \A q \in Prompts \ {Head(inbox).prompt} : task'[q] = task[q]
  PROVE  InboxInv'
<1>1. inbox \in Seq(Messages) /\ inbox # <<>> /\ inbox' = Tail(inbox) /\ InboxInv
  BY DEF Shape, TypeOK, Read
<1>2. /\ \A i \in DOMAIN inbox' :
           i + 1 \in DOMAIN inbox /\ i + 1 # 1 /\ inbox'[i] = inbox[i + 1]
      /\ \A i, j \in DOMAIN inbox' : i # j => i + 1 # j + 1
      /\ Head(inbox) = inbox[1] /\ 1 \in DOMAIN inbox
  BY <1>1
<1>3. \A i \in DOMAIN inbox : inbox[i] \in Messages
  BY <1>1
<1>4. ASSUME NEW i \in DOMAIN inbox, i # 1, inbox[i].type # "other"
      PROVE  inbox[i].prompt \in Prompts /\ task'[inbox[i].prompt] = task[inbox[i].prompt]
  <2>1. inbox[i].prompt \in Prompts
    BY <1>3, <1>4 DEF Messages
  <2>2. Head(inbox).type # "other" => inbox[i].prompt # Head(inbox).prompt
    BY <1>1, <1>2, <1>4 DEF InboxInv
  <2>3. QED
    BY <2>1, <2>2
<1>5. ASSUME NEW i \in DOMAIN inbox'
      PROVE  /\ inbox'[i].type = "prompt" => task'[inbox'[i].prompt].at = "sent"
             /\ inbox'[i].type = "option" => task'[inbox'[i].prompt].at = "chosen"
  <2>1. i + 1 \in DOMAIN inbox /\ i + 1 # 1 /\ inbox'[i] = inbox[i + 1]
    BY <1>2
  <2>2. inbox[i + 1].type # "other" => task'[inbox[i + 1].prompt] = task[inbox[i + 1].prompt]
    BY <1>4, <2>1
  <2>3. /\ inbox[i + 1].type = "prompt" => task[inbox[i + 1].prompt].at = "sent"
        /\ inbox[i + 1].type = "option" => task[inbox[i + 1].prompt].at = "chosen"
    BY <1>1, <2>1 DEF InboxInv
  <2>4. QED
    BY <2>1, <2>2, <2>3
<1>6. ASSUME NEW i \in DOMAIN inbox', NEW j \in DOMAIN inbox', i # j,
             inbox'[i].type # "other", inbox'[j].type # "other"
      PROVE  inbox'[i].prompt # inbox'[j].prompt
  BY <1>1, <1>2, <1>6 DEF InboxInv
<1>7. QED
  BY <1>5, <1>6 DEF InboxInv

\* Messages are about tasks that wait for them.
LEMMA NextInbox ==
  ASSUME Shape, [Next]_vars
  PROVE  InboxInv'
<1>0. TypeOK /\ InboxInv /\ task \in [Prompts -> Tasks]
  BY DEF Shape, TypeOK
<1>1. CASE UNCHANGED vars
  BY <1>0, <1>1 DEF vars, net, InboxInv
<1>2. ASSUME NEW p \in Prompts, Work(p) PROVE InboxInv'
  <2>1. /\ task[p].at \notin {"sent", "chosen"} /\ UNCHANGED inbox
        /\ \A q \in Prompts \ {p} : task'[q] = task[q]
    BY <1>2, WorkApart
  <2>2. \A i \in DOMAIN inbox : inbox[i] \in Messages
    BY <1>0 DEF TypeOK
  <2>3. \A i \in DOMAIN inbox :
          inbox[i].type # "other" => inbox[i].prompt \in Prompts \ {p}
    BY <1>0, <2>1, <2>2 DEF InboxInv, Messages
  <2>4. QED
    BY <1>0, <2>1, <2>3 DEF InboxInv
<1>3. ASSUME NEW s \in Sessions, SendPrompt(s) PROVE InboxInv'
  <2>1. PICK p \in Prompts :
          /\ task[p].at = "unsent"
          /\ task' = [task EXCEPT ![p].at = "sent", ![p].session = s]
          /\ Post([type |-> "prompt", prompt |-> p])
    BY <1>3 DEF SendPrompt
  <2>2. task'[p].at = "sent" /\ \A q \in Prompts \ {p} : task'[q] = task[q]
    BY <1>0, <2>1 DEF Tasks
  <2>3. QED
    BY <2>1, <2>2, PostKeeps DEF Messages
<1>4. CASE SendOther
  <2> DEFINE m == [type |-> "other"]
  <2>1. inbox \in Seq(Messages) /\ inbox' = Append(inbox, m) /\ UNCHANGED task
    BY <1>0, <1>4 DEF SendOther, Post, TypeOK
  <2>2. /\ DOMAIN inbox' = DOMAIN inbox \union {Len(inbox) + 1}
        /\ \A i \in DOMAIN inbox : inbox'[i] = inbox[i]
        /\ inbox'[Len(inbox) + 1].type = "other"
    BY <2>1, AppendFacts
  <2>3. QED
    BY <1>0, <2>1, <2>2 DEF InboxInv
<1>5. ASSUME NEW p \in Prompts, NEW o \in Options, Choose(p, o) PROVE InboxInv'
  <2>1. /\ task[p].at = "asking" /\ At(p, "chosen")
        /\ Post([type |-> "option", prompt |-> p, option |-> o])
    BY <1>5 DEF Choose, At
  <2>2. task'[p].at = "chosen" /\ \A q \in Prompts \ {p} : task'[q] = task[q]
    BY <1>0, <2>1, AtMoves
  <2>3. QED
    BY <2>1, <2>2, PostKeeps DEF Messages
<1>6. CASE Dispatch
  <2>1. CASE OnOther
    BY <2>1, ReadKeeps DEF OnOther
  <2>2. CASE OnPrompt \/ OnPromptRefused
    <3> DEFINE p == Head(inbox).prompt
    <3>1. Read /\ p \in Prompts /\ Head(inbox).type = "prompt"
      BY <2>2, HeadTyped DEF OnPrompt, OnPromptRefused
    <3>2. PICK to \in {"spawned", "done"} : At(p, to)
      BY <2>2 DEF OnPrompt, OnPromptRefused
    <3>3. \A q \in Prompts \ {p} : task'[q] = task[q]
      BY <1>0, <3>1, <3>2, AtMoves
    <3>4. QED
      BY <3>1, <3>3, ReadKeeps
  <2>3. CASE OnOption
    <3> DEFINE p == Head(inbox).prompt
               d == AcpDecision(Head(inbox).option)
    <3>1. /\ Read /\ p \in Prompts /\ Head(inbox).type = "option" /\ InCalls(p)
          /\ Head(inbox).option \in Options /\ Decided(p, d)
      BY <2>3, HeadTyped DEF OnOption, InCalls
    <3>2. OutcomeOf(d) \in {"Pass", "FailedContinue", "ManualAttention"}
      BY <3>1, Decides DEF Outcomes
    <3>3. At(p, "running") \/ EndCall(p) \/ At(p, "done")
      <4>1. CASE OutcomeOf(d) = "Pass"
        BY <3>1, <4>1 DEF Decided, Start
      <4>2. CASE OutcomeOf(d) = "FailedContinue"
        BY <3>1, <4>2 DEF Decided
      <4>3. CASE OutcomeOf(d) = "ManualAttention"
        BY <3>1, <4>3 DEF Decided, Respond
      <4>4. QED
        BY <3>2, <4>1, <4>2, <4>3
    <3>4. \A q \in Prompts \ {p} : task'[q] = task[q]
      BY <1>0, <3>1, <3>3, AtMoves, EndCallSteps
    <3>5. QED
      BY <3>1, <3>4, ReadKeeps
  <2>4. QED
    BY <1>6, <2>1, <2>2, <2>3 DEF Dispatch
<1>7. QED
  BY <1>1, <1>2, <1>3, <1>4, <1>5, <1>6 DEF Next

\* A session cache is made once and then grows with what is granted.
LEMMA NextSession ==
  ASSUME Shape, SessionInv, [Next]_vars
  PROVE  SessionInv'
<1>0. TypeOK /\ task \in [Prompts -> Tasks]
  BY DEF Shape, TypeOK
<1>1. \/ \E p \in Prompts : Moves(p)
      \/ UNCHANGED task
  BY NextMoves
<1>2. ASSUME NEW q \in Prompts, task[q].at \in {"unsent", "sent", "done"},
             task'[q].at \notin {"unsent", "sent", "done"}
      PROVE  task[q].at = "sent" /\ task'[q].at = "spawned" /\ task'[q].session = task[q].session
  <2>1. Moves(q)
    BY <1>1, <1>2 DEF Moves, Same
  <2>2. QED
    BY <1>2, <2>1 DEF Moves, Same, Sends, Reads, Queues, Begins, Returns, Turns, Proceeds,
                      Completes, Active, InCalls
<1>3. \A q \in Prompts : task[q].at # "unsent" =>
        task'[q].session = task[q].session /\ task[q].session \in Sessions
  BY <1>1, TaskTyped DEF Moves, Same
<1>4. ASSUME \A s \in Sessions : sessions[s] # None => sessions'[s] # None,
             \A q \in Prompts : task[q].at = "sent" =>
               task'[q].at # "spawned" \/ sessions'[task[q].session] # None,
             \A s \in Sessions :
               granted'[s] = IF sessions'[s] = None THEN {} ELSE sessions'[s]
      PROVE  SessionInv'
  <2> SUFFICES ASSUME NEW q \in Prompts, task'[q].at \notin {"unsent", "sent", "done"}
               PROVE  sessions'[task'[q].session] # None
    BY <1>4 DEF SessionInv
  <2>1. CASE task[q].at \in {"unsent", "sent", "done"}
    BY <1>2, <1>4, <2>1
  <2>2. CASE task[q].at \notin {"unsent", "sent", "done"}
    BY <1>3, <1>4, <2>2 DEF SessionInv
  <2>3. QED
    BY <2>1, <2>2
<1>5. ASSUME UNCHANGED <<sessions, granted>>,
             \A q \in Prompts : task[q].at = "sent" => task'[q].at # "spawned"
      PROVE  SessionInv'
  BY <1>4, <1>5 DEF SessionInv
<1>6. CASE UNCHANGED vars
  BY <1>5, <1>6 DEF vars, log
<1>7. ASSUME NEW p \in Prompts, Work(p) PROVE SessionInv'
  BY <1>5, <1>7, WorkApart
<1>8. ASSUME NEW s \in Sessions, SendPrompt(s) PROVE SessionInv'
  <2>1. PICK p \in Prompts : task' = [task EXCEPT ![p].at = "sent", ![p].session = s]
    BY <1>8 DEF SendPrompt
  <2>2. \A q \in Prompts : task'[q] = task[q] \/ task'[q].at = "sent"
    BY <1>0, <2>1 DEF Tasks
  <2>3. QED
    BY <1>5, <1>8, <2>2 DEF SendPrompt, log
<1>9. CASE SendOther \/ OnOther
  BY <1>5, <1>9 DEF SendOther, OnOther, log
<1>10. ASSUME NEW p \in Prompts, NEW o \in Options, Choose(p, o) PROVE SessionInv'
  <2>1. At(p, "chosen")
    BY <1>10 DEF Choose, At
  <2>2. QED
    BY <1>0, <1>5, <1>10, <2>1, AtMoves DEF Choose, log
<1>11. CASE OnPromptRefused
  <2>1. Head(inbox).prompt \in Prompts /\ At(Head(inbox).prompt, "done")
    BY <1>11, HeadTyped DEF OnPromptRefused
  <2>2. QED
    BY <1>0, <1>5, <1>11, <2>1, AtMoves DEF OnPromptRefused, log
<1>12. CASE OnPrompt
  <2> DEFINE p == Head(inbox).prompt
             s == task[p].session
  <2>1. /\ p \in Prompts /\ s \in Sessions /\ At(p, "spawned")
        /\ EnsureSession(s) /\ UNCHANGED granted
    BY <1>12, HeadTyped, TaskTyped DEF OnPrompt, log
  <2>2. {} # None
    BY AcpAssumption
  <2>3. /\ sessions'[s] = IF sessions[s] = None THEN {} ELSE sessions[s]
        /\ \A t \in Sessions \ {s} : sessions'[t] = sessions[t]
    BY <1>0, <2>1 DEF EnsureSession, TypeOK
  <2>4. \A q \in Prompts \ {p} : task'[q] = task[q]
    BY <1>0, <2>1, AtMoves
  <2>5. QED
    BY <1>4, <2>1, <2>2, <2>3, <2>4 DEF SessionInv
<1>13. CASE OnOption
  <2> DEFINE p == Head(inbox).prompt
             d == AcpDecision(Head(inbox).option)
             s == task[p].session
             name == Head(task[p].calls)
  <2>1. /\ p \in Prompts /\ task[p].at = "chosen" /\ InCalls(p) /\ Decided(p, d)
        /\ s \in Sessions /\ name \in DOMAIN CoderDefaults /\ Head(inbox).option \in Options
    BY <1>13, HeadTyped, TaskTyped DEF OnOption, InCalls, Shape, CallsInv, Asked
  <2>2. /\ sessions[s] \in SUBSET DOMAIN CoderDefaults /\ sessions[s] # None
        /\ granted[s] = sessions[s]
    BY <1>0, <2>1 DEF TypeOK, SessionInv
  <2>3. /\ sessions' = [sessions EXCEPT ![s] = Remember(d, name, @)]
        /\ granted' = IF d = "ApprovedForSession"
                      THEN [granted EXCEPT ![s] = @ \union {name}] ELSE granted
    BY <2>1 DEF Decided
  <2>4. /\ sessions'[s] = granted'[s] /\ sessions'[s] \in SUBSET DOMAIN CoderDefaults
        /\ \A t \in Sessions \ {s} : sessions'[t] = sessions[t] /\ granted'[t] = granted[t]
    BY <1>0, <2>1, <2>2, <2>3 DEF Remember, TypeOK
  <2>5. sessions'[s] # None
    BY <2>4, AcpAssumption
  <2>6. \A q \in Prompts : task[q].at = "sent" => task'[q].at # "spawned"
    <3>1. OutcomeOf(d) \in {"Pass", "FailedContinue", "ManualAttention"}
      BY <2>1, Decides DEF Outcomes
    <3>2. At(p, "running") \/ EndCall(p) \/ At(p, "done")
      <4>1. CASE OutcomeOf(d) = "Pass"
        BY <2>1, <4>1 DEF Decided, Start
      <4>2. CASE OutcomeOf(d) = "FailedContinue"
        BY <2>1, <4>2 DEF Decided
      <4>3. CASE OutcomeOf(d) = "ManualAttention"
        BY <2>1, <4>3 DEF Decided, Respond
      <4>4. QED
        BY <3>1, <4>1, <4>2, <4>3
    <3>3. \A q \in Prompts \ {p} : task'[q] = task[q]
      BY <1>0, <2>1, <3>2, AtMoves, EndCallSteps
    <3>4. QED
      BY <2>1, <3>3
  <2>7. QED
    BY <1>4, <2>4, <2>5, <2>6 DEF SessionInv
<1>14. QED
  BY <1>6, <1>7, <1>8, <1>9, <1>10, <1>11, <1>12, <1>13 DEF Next, Dispatch

-----------------------------------------------------------------------------
(* Conversations. *)

\* A step that extends a conversation is one of the task that holds the lock.
LEMMA OnlyHolderAppends ==
  ASSUME Shape, NEW p \in Prompts, Moves(p), NEW q \in Prompts \ {p}, Active(q),
         task[p].session = task[q].session
  PROVE  UNCHANGED conv
<1>1. QueueInv
  BY DEF Shape
<1>2. ~Active(p)
  BY <1>1, OneActive
<1>3. ~Begins(p)
  BY <1>1 DEF Begins, QueueInv, InPlace
<1>4. QED
  BY <1>2, <1>3 DEF Moves, Sends, Reads, Queues, Returns, Turns, Proceeds, Completes, Active

\* How a step changes the conversations.
LEMMA MoveAppends ==
  ASSUME Shape, NEW p \in Prompts, Moves(p)
  PROVE  \/ UNCHANGED conv
         \/ /\ \E kind \in {"prompt", "text", "calls", "results"} : Appends(p, kind)
            /\ task[p].session \in Sessions
            /\ Active(p) \/ Begins(p)
            /\ Active(p)' \/ task'[p].at = "done"
<1>1. CASE Sends(p) \/ Reads(p) \/ Queues(p) \/ Proceeds(p)
  BY <1>1 DEF Sends, Reads, Queues, Proceeds
<1>2. CASE Begins(p)
  BY <1>2, TaskTyped DEF Begins, Active
<1>3. CASE Returns(p)
  BY <1>3, TaskTyped DEF Returns, Active, InCalls
<1>4. CASE Turns(p)
  BY <1>4, TaskTyped DEF Turns, Active, InCalls
<1>5. CASE Completes(p)
  BY <1>5, TaskTyped DEF Completes, Active, InCalls
<1>6. QED
  BY <1>1, <1>2, <1>3, <1>4, <1>5 DEF Moves

\* What has an entry is not empty.
LEMMA Empties ==
  ASSUME NEW c \in Seq(Entries), NEW i \in 1 .. Len(c)
  PROVE  c # <<>>
  OBVIOUS

\* A pair stays one when the conversation grows.
LEMMA PairedKept ==
  ASSUME NEW p, NEW c \in Seq(Entries), NEW e, NEW n \in 0 .. Len(c), Paired(p, c, n)
  PROVE  Paired(p, Append(c, e), n)
<1> DEFINE d == Append(c, e)
<1>1. /\ Len(c) \in Nat /\ Len(d) = Len(c) + 1
      /\ \A i \in 1 .. Len(c) : d[i] = c[i]
  BY AppendFacts
<1> HIDE DEF d
<1>2. ASSUME NEW i \in 1 .. n, d[i] = [prompt |-> p, kind |-> "calls"]
      PROVE  i < Len(d) /\ d[i + 1] = [prompt |-> p, kind |-> "results"]
  <2>1. i \in 1 .. Len(c) /\ c[i] = [prompt |-> p, kind |-> "calls"]
    BY <1>1, <1>2
  <2>2. i < Len(c) /\ c[i + 1] = [prompt |-> p, kind |-> "results"]
    BY <2>1 DEF Paired
  <2>3. i + 1 \in 1 .. Len(c)
    BY <1>1, <2>1, <2>2
  <2>4. QED
    BY <1>1, <2>2, <2>3
<1>3. QED
  BY <1>2 DEF Paired, d

\* Every entry belongs to a prompt of the session that has the lock or had it.
LEMMA MoveOwned ==
  ASSUME Shape, ConvInv, NEW p \in Prompts, Moves(p), NEW t \in Sessions,
         NEW i \in DOMAIN conv'[t]
  PROVE  Owned(t, i)'
<1> DEFINE s == task[p].session
<1>1. /\ conv \in [Sessions -> Seq(Entries)] /\ conv[t] \in Seq(Entries)
      /\ \A q \in Prompts \ {p} : task'[q] = task[q]
      /\ task[p].at # "unsent" => task'[p].session = s
  BY DEF Shape, TypeOK, Moves, Same
<1>2. ASSUME NEW q \in Prompts, task[q].session = t, Active(q) \/ task[q].at = "done"
      PROVE  task'[q].session = t /\ (Active(q)' \/ task'[q].at = "done")
  <2>1. CASE q # p
    BY <1>1, <1>2, <2>1 DEF Active, InCalls
  <2>2. CASE q = p
    BY <1>1, <1>2, <2>2 DEF Moves, Sends, Reads, Queues, Begins, Returns, Turns, Proceeds,
                            Completes, Active, InCalls
  <2>3. QED
    BY <2>1, <2>2
<1>3. CASE i \in DOMAIN conv[t] /\ conv'[t][i] = conv[t][i]
  <2>1. PICK q \in Prompts :
          conv[t][i].prompt = q /\ task[q].session = t /\ (Active(q) \/ task[q].at = "done")
    BY <1>3 DEF ConvInv, Owned
  <2>2. QED
    BY <1>2, <1>3, <2>1 DEF Owned
<1>4. CASE ~(i \in DOMAIN conv[t] /\ conv'[t][i] = conv[t][i])
  <2>1. conv'[t] # conv[t]
    BY <1>4
  <2>2. PICK kind \in {"prompt", "text", "calls", "results"} : Appends(p, kind)
    BY <2>1, MoveAppends
  <2>3. s \in Sessions /\ (Active(p)' \/ task'[p].at = "done") /\ (Active(p) \/ Begins(p))
    BY <2>1, MoveAppends
  <2>4. t = s /\ conv'[t] = Append(conv[t], [prompt |-> p, kind |-> kind])
    BY <2>1, <2>2, <2>3 DEF Appends
  <2>5. i = Len(conv[t]) + 1 /\ conv'[t][i] = [prompt |-> p, kind |-> kind]
    BY <1>1, <1>4, <2>4, AppendFacts
  <2>6. task'[p].session = t
    BY <1>1, <2>3, <2>4 DEF Begins, Active, InCalls
  <2>7. QED
    BY <2>3, <2>5, <2>6 DEF Owned
<1>5. QED
  BY <1>3, <1>4

\* The newest entry of a conversation is the active task's.
LEMMA MoveEnds ==
  ASSUME Shape, ConvInv, NEW p \in Prompts, Moves(p)
  PROVE  Ends(p)'
<1> DEFINE s == task[p].session
           c == conv[s]
<1>1. /\ conv \in [Sessions -> Seq(Entries)] /\ Ends(p)
      /\ task[p].at # "unsent" => task'[p].session = s /\ s \in Sessions
  BY TaskTyped DEF Shape, TypeOK, ConvInv, Moves, Same
<1>2. CASE Sends(p) \/ Reads(p) \/ Queues(p)
  BY <1>1, <1>2 DEF Sends, Reads, Queues, Ends, Active, InCalls
<1>3. CASE Returns(p)
  BY <1>3 DEF Returns, Ends, Active, InCalls
<1>4. CASE Proceeds(p)
  <2>1. task'[p].session = s /\ conv' = conv /\ InCalls(p) /\ InCalls(p)' /\ task'[p].at # "model"
        /\ answered'[p] = answered[p] /\ task[p].at # "done"
    BY <1>1, <1>4 DEF Proceeds, InCalls
  <2>2. QED
    BY <1>1, <2>1 DEF Ends, Active
<1>5. CASE Completes(p) /\ UNCHANGED conv
  <2>1. task'[p].session = s /\ InCalls(p) /\ answered'[p] = answered[p] /\ task[p].at # "done"
    BY <1>1, <1>5 DEF Completes, InCalls
  <2>2. task'[p].at = "call"
    <3>1. CASE task'[p].at = "model"
      <4>1. s \in Sessions /\ c \in Seq(Entries)
        BY <1>1, <2>1 DEF InCalls
      <4>2. c = Append(c, [prompt |-> p, kind |-> "results"])
        BY <1>5, <3>1, <4>1 DEF Completes, Appends
      <4>3. FALSE
        BY <4>1, <4>2, AppendFacts
      <4>4. QED
        BY <4>3
    <3>2. QED
      BY <1>5, <3>1 DEF Completes
  <2>3. QED
    BY <1>1, <1>5, <2>1, <2>2 DEF Ends, Active, InCalls
<1>6. ASSUME NEW kind \in {"prompt", "text", "calls", "results"}, Appends(p, kind),
             task[p].at # "unsent", task'[p].at # "done", answered'[p] # "end_turn",
             task'[p].at = "model" =>
               kind # "calls" /\ Paired(p, c, Len(c) - 1)
               /\ (c # <<>> /\ c[Len(c)] = [prompt |-> p, kind |-> "calls"] => kind = "results"),
             InCalls(p)' => kind = "calls" /\ Paired(p, c, Len(c))
      PROVE  Ends(p)'
  <2> DEFINE e == [prompt |-> p, kind |-> kind]
             d == Append(c, e)
  <2>1. s \in Sessions /\ c \in Seq(Entries) /\ task'[p].session = s /\ conv'[s] = d
    BY <1>1, <1>6 DEF Appends
  <2>2. /\ Len(c) \in Nat /\ Len(d) = Len(c) + 1 /\ d # <<>> /\ d[Len(d)] = e
        /\ \A i \in 1 .. Len(c) : d[i] = c[i]
    BY <2>1, AppendFacts
  <2>3. ASSUME InCalls(p)' PROVE Paired(p, d, Len(d) - 1) /\ e = [prompt |-> p, kind |-> "calls"]
    <3>1. kind = "calls" /\ Paired(p, c, Len(c))
      BY <1>6, <2>3
    <3>2. Len(c) \in 0 .. Len(c) /\ Len(d) - 1 = Len(c)
      BY <2>2
    <3>3. Paired(p, d, Len(c))
      <4> HIDE DEF c, e
      <4>1. QED
        BY <2>1, <3>1, <3>2, PairedKept
    <3>4. QED
      BY <3>1, <3>2, <3>3
  <2>4. ASSUME task'[p].at = "model" PROVE Paired(p, d, Len(d))
    <3> SUFFICES ASSUME NEW i \in 1 .. Len(d), d[i] = [prompt |-> p, kind |-> "calls"]
                 PROVE  i < Len(d) /\ d[i + 1] = [prompt |-> p, kind |-> "results"]
      BY DEF Paired
    <3>1. i # Len(d)
      BY <1>6, <2>2, <2>4
    <3>2. i \in 1 .. Len(c) /\ c[i] = [prompt |-> p, kind |-> "calls"] /\ i < Len(d)
      BY <2>2, <3>1
    <3>3. CASE i = Len(c)
      <4>1. c # <<>>
        BY <2>1, <3>2, Empties
      <4>2. kind = "results"
        BY <1>6, <2>4, <3>2, <3>3, <4>1
      <4>3. QED
        BY <2>2, <3>2, <3>3, <4>2
    <3>4. CASE i # Len(c)
      <4>1. i \in 1 .. Len(c) - 1
        BY <2>2, <3>2, <3>4
      <4>2. c[i + 1] = [prompt |-> p, kind |-> "results"]
        BY <1>6, <2>4, <3>2, <4>1 DEF Paired
      <4>3. QED
        BY <2>2, <3>2, <4>1, <4>2
    <3>5. QED
      BY <3>3, <3>4
  <2> HIDE DEF d
  <2>5. QED
    BY <1>6, <2>1, <2>2, <2>3, <2>4 DEF Ends
<1>7. CASE Begins(p)
  <2>1. s \in Sessions /\ c \in Seq(Entries) /\ task[p].at = "queued" /\ task'[p].at = "model"
        /\ Appends(p, "prompt") /\ answered' = answered
    BY <1>1, <1>7 DEF Begins
  <2>2. \A i \in DOMAIN c : c[i].prompt # p
    BY <2>1 DEF ConvInv, Owned, Active, InCalls
  <2>3. Paired(p, c, Len(c) - 1)
    BY <2>1, <2>2 DEF Paired
  <2>4. c # <<>> => c[Len(c)].prompt # p
    BY <2>1, <2>2
  <2>5. answered'[p] # "end_turn"
    BY <1>1, <2>1 DEF Ends
  <2>6. QED
    BY <1>6, <2>1, <2>3, <2>4, <2>5 DEF InCalls
<1>8. CASE Turns(p)
  <2>1. s \in Sessions /\ task[p].at = "model" /\ task'[p].at = "call" /\ Appends(p, "calls")
        /\ answered' = answered
    BY <1>1, <1>8 DEF Turns
  <2>2. Paired(p, c, Len(c)) /\ answered'[p] # "end_turn"
    BY <1>1, <2>1 DEF Ends
  <2>3. QED
    BY <1>6, <2>1, <2>2
<1>9. CASE Completes(p) /\ Appends(p, "results") /\ task'[p].at = "model"
  <2>1. InCalls(p) /\ answered' = answered /\ task[p].at \notin {"unsent", "done"}
    BY <1>9 DEF Completes, InCalls
  <2>2. Paired(p, c, Len(c) - 1) /\ answered'[p] # "end_turn"
    BY <1>1, <2>1 DEF Ends
  <2>3. QED
    BY <1>6, <1>9, <2>1, <2>2 DEF InCalls
<1>10. QED
  BY <1>2, <1>3, <1>4, <1>5, <1>7, <1>8, <1>9 DEF Moves, Completes

\* So conversations are kept in order.
LEMMA MoveConv ==
  ASSUME Shape, ConvInv, NEW p \in Prompts, Moves(p)
  PROVE  ConvInv'
<1>1. ASSUME NEW q \in Prompts \ {p} PROVE Ends(q)'
  <2>1. task'[q] = task[q] /\ answered'[q] = answered[q] /\ Ends(q)
    BY DEF Moves, Same, ConvInv
  <2>2. CASE ~Active(q)
    BY <2>1, <2>2 DEF Ends, Active, InCalls
  <2>3. CASE Active(q)
    <3>1. task[q].session \in Sessions
      BY <2>3, TaskTyped DEF Active, InCalls
    <3>2. conv'[task[q].session] = conv[task[q].session]
      BY ZenonT(30), <2>3, <3>1, MoveAppends, OnlyHolderAppends DEF Appends
    <3>3. QED
      BY <2>1, <3>2 DEF Ends, Active, InCalls
  <2>4. QED
    BY <2>2, <2>3
<1>2. QED
  BY <1>1, MoveOwned, MoveEnds DEF ConvInv

\* Entries of a prompt have none of another between them.
Contiguous(c) ==
  \A i, j \in DOMAIN c :
    i < j /\ c[i].prompt = c[j].prompt => \A k \in i .. j : c[k].prompt = c[i].prompt

\* A turn that was answered is complete, and the client saw all of it.
Complete(p) ==
  answered[p] = "end_turn" =>
    /\ open[p] = {}
    /\ LET c == conv[task[p].session]
       IN  \A i \in DOMAIN c :
             c[i] = [prompt |-> p, kind |-> "calls"] =>
               i < Len(c) /\ c[i + 1] = [prompt |-> p, kind |-> "results"]

LEMMA WholeTurns ==
  TurnsAreWhole <=> (\A s \in Sessions : Contiguous(conv[s])) /\ \A p \in Prompts : Complete(p)
  BY DEF TurnsAreWhole, Contiguous, Complete

\* An entry of the prompt at the end, or of a new one, keeps turns together.
LEMMA AppendContiguous ==
  ASSUME NEW c \in Seq(Entries), Contiguous(c), NEW e \in Entries,
         \/ c # <<>> /\ c[Len(c)].prompt = e.prompt
         \/ \A i \in DOMAIN c : c[i].prompt # e.prompt
  PROVE  Contiguous(Append(c, e))
<1> DEFINE d == Append(c, e)
           n == Len(c)
<1>1. /\ n \in Nat /\ DOMAIN c = 1 .. n /\ DOMAIN d = 1 .. n + 1
      /\ \A i \in 1 .. n : d[i] = c[i]
      /\ d[n + 1] = e
  BY AppendFacts
<1>2. ASSUME NEW i \in 1 .. n + 1, NEW j \in 1 .. n + 1, i < j, d[i].prompt = d[j].prompt,
             NEW k \in i .. j
      PROVE  d[k].prompt = d[i].prompt
  <2>1. i \in 1 .. n /\ d[i] = c[i] /\ k \in 1 .. n + 1
    BY <1>1, <1>2
  <2>2. CASE j # n + 1
    <3>1. j \in 1 .. n /\ k \in 1 .. n /\ d[j] = c[j] /\ d[k] = c[k]
      BY <1>1, <1>2, <2>1, <2>2
    <3>2. QED
      BY <1>1, <1>2, <2>1, <3>1 DEF Contiguous
  <2>3. CASE j = n + 1
    <3>1. c[i].prompt = e.prompt
      BY <1>1, <1>2, <2>1, <2>3
    <3>2. c # <<>> /\ c[n].prompt = e.prompt /\ n \in 1 .. n
      BY <1>1, <2>1, <3>1
    <3>3. CASE k = n + 1
      BY <1>1, <2>1, <3>1, <3>3
    <3>4. CASE k # n + 1
      <4>1. k \in 1 .. n /\ k \in i .. n /\ d[k] = c[k]
        BY <1>1, <1>2, <2>1, <2>3, <3>4
      <4>2. CASE i = n
        BY <1>1, <2>1, <4>1, <4>2
      <4>3. CASE i # n
        <5>1. i < n
          <6> HIDE DEF d, n
          <6>1. n \in Nat /\ i \in 1 .. n /\ i # n
            BY <1>1, <2>1, <4>3
          <6>2. QED
            BY <6>1
        <5>2. QED
          BY <1>1, <2>1, <3>1, <3>2, <4>1, <5>1 DEF Contiguous
      <4>4. QED
        BY <4>2, <4>3
    <3>5. QED
      BY <3>3, <3>4
  <2>4. QED
    BY <2>2, <2>3
<1> HIDE DEF d
<1>3. Contiguous(d)
  BY <1>1, <1>2 DEF Contiguous
<1>4. QED
  BY <1>3 DEF d

\* Turns stay whole.
LEMMA MoveWhole ==
  ASSUME Shape, ConvInv, TurnsAreWhole, NEW p \in Prompts, Moves(p)
  PROVE  TurnsAreWhole'
<1> DEFINE s == task[p].session
           c == conv[s]
<1>1. /\ conv \in [Sessions -> Seq(Entries)]
      /\ \A q \in Prompts \ {p} :
           task'[q] = task[q] /\ answered'[q] = answered[q] /\ open'[q] = open[q]
      /\ task[p].at # "unsent" => task'[p].session = s
  BY DEF Shape, TypeOK, Moves, Same
<1>2. (\A t \in Sessions : Contiguous(conv[t])) /\ \A q \in Prompts : Complete(q) /\ Ends(q)
  BY WholeTurns DEF ConvInv
<1>3. ASSUME NEW t \in Sessions PROVE Contiguous(conv'[t])
  <2>1. CASE conv'[t] = conv[t]
    BY <1>2, <2>1
  <2>2. CASE conv'[t] # conv[t]
    <3>1. PICK kind \in {"prompt", "text", "calls", "results"} : Appends(p, kind)
      BY <2>2, MoveAppends
    <3>2. t = s /\ conv'[t] = Append(c, [prompt |-> p, kind |-> kind]) /\ c \in Seq(Entries)
      BY <1>1, <2>2, <3>1 DEF Appends
    <3>3. Active(p) => c # <<>> /\ c[Len(c)].prompt = p
      BY <1>2 DEF Ends
    <3>4. Begins(p) => \A i \in DOMAIN c : c[i].prompt # p
      <4> SUFFICES ASSUME Begins(p), NEW i \in DOMAIN c PROVE c[i].prompt # p
        OBVIOUS
      <4>1. task[p].at = "queued"
        BY DEF Begins
      <4>2. Owned(s, i)
        BY <3>2 DEF ConvInv
      <4>3. PICK q \in Prompts : c[i].prompt = q /\ (Active(q) \/ task[q].at = "done")
        BY <4>2 DEF Owned
      <4>4. q # p
        BY <4>1, <4>3 DEF Active, InCalls
      <4>5. QED
        BY <4>3, <4>4
    <3>5. Active(p) \/ Begins(p)
      BY <2>2, MoveAppends
    <3>6. [prompt |-> p, kind |-> kind] \in Entries
      BY DEF Entries
    <3>7. QED
      BY <1>2, <3>2, <3>3, <3>4, <3>5, <3>6, AppendContiguous
  <2>3. QED
    BY <2>1, <2>2
<1>4. ASSUME NEW q \in Prompts \ {p} PROVE Complete(q)'
  <2> SUFFICES ASSUME answered'[q] = "end_turn" PROVE Complete(q)'
    BY DEF Complete
  <2> DEFINE t == task[q].session
  <2>1. /\ task'[q] = task[q] /\ open'[q] = open[q] /\ answered[q] = "end_turn"
        /\ task[q].at = "done" /\ t \in Sessions /\ Complete(q)
    BY <1>1, <1>2, TaskTyped DEF Ends
  <2>2. CASE conv'[t] = conv[t]
    BY <2>1, <2>2 DEF Complete
  <2>3. CASE conv'[t] # conv[t]
    <3>1. PICK kind \in {"prompt", "text", "calls", "results"} : Appends(p, kind)
      BY <2>1, <2>3, MoveAppends
    <3> DEFINE e == [prompt |-> p, kind |-> kind]
               d == Append(conv[t], e)
    <3>2. conv'[t] = d /\ conv[t] \in Seq(Entries)
      BY <1>1, <2>1, <2>3, <3>1 DEF Appends
    <3>3. /\ Len(conv[t]) \in Nat /\ Len(d) = Len(conv[t]) + 1
          /\ DOMAIN d = 1 .. Len(conv[t]) + 1 /\ DOMAIN conv[t] = 1 .. Len(conv[t])
          /\ \A i \in 1 .. Len(conv[t]) : d[i] = conv[t][i]
          /\ d[Len(conv[t]) + 1] = e
      BY <3>2, AppendFacts
    <3> HIDE DEF d
    <3>4. ASSUME NEW i \in DOMAIN d, d[i] = [prompt |-> q, kind |-> "calls"]
          PROVE  i < Len(d) /\ d[i + 1] = [prompt |-> q, kind |-> "results"]
      <4>1. i \in 1 .. Len(conv[t]) /\ conv[t][i] = [prompt |-> q, kind |-> "calls"]
        <5>1. i # Len(conv[t]) + 1
          BY <3>3, <3>4
        <5>2. QED
          BY <3>3, <3>4, <5>1
      <4>2. i < Len(conv[t]) /\ conv[t][i + 1] = [prompt |-> q, kind |-> "results"]
        BY <2>1, <3>3, <4>1 DEF Complete
      <4>3. i + 1 \in 1 .. Len(conv[t])
        BY <3>3, <4>1, <4>2
      <4>4. QED
        BY <3>3, <4>1, <4>2, <4>3
    <3>5. QED
      BY <2>1, <3>2, <3>4 DEF Complete
  <2>4. QED
    BY <2>2, <2>3
<1>5. Complete(p)'
  <2> SUFFICES ASSUME answered'[p] = "end_turn" PROVE Complete(p)'
    BY DEF Complete
  <2>1. task[p].at # "done"
    BY DEF Moves, Sends, Reads, Queues, Begins, Returns, Turns, Proceeds, Completes, Active, InCalls
  <2>2. answered[p] # "end_turn"
    BY <1>2, <2>1 DEF Ends
  <2>3. Returns(p)
    BY <2>2 DEF Moves, Sends, Reads, Queues, Begins, Turns, Proceeds, Completes
  <2>4. /\ task[p].at = "model" /\ Appends(p, "text") /\ open' = open
        /\ s \in Sessions /\ task'[p].session = s
    BY <1>1, <2>3, TaskTyped DEF Returns
  <2>5. open'[p] = {}
    BY <2>4 DEF Shape, CallsInv, Open
  <2> DEFINE e == [prompt |-> p, kind |-> "text"]
             d == Append(c, e)
  <2>6. /\ conv'[s] = d /\ c \in Seq(Entries) /\ Paired(p, c, Len(c))
    BY <1>1, <1>2, <2>4 DEF Appends, Ends
  <2>7. /\ Len(c) \in Nat /\ Len(d) = Len(c) + 1 /\ DOMAIN d = 1 .. Len(d) /\ d[Len(d)] = e
    BY <2>6, AppendFacts
  <2>8. Paired(p, d, Len(c))
    BY <2>6, <2>7, PairedKept
  <2> HIDE DEF d
  <2>9. ASSUME NEW i \in DOMAIN d, d[i] = [prompt |-> p, kind |-> "calls"]
        PROVE  i < Len(d) /\ d[i + 1] = [prompt |-> p, kind |-> "results"]
    <3>1. i # Len(d)
      BY <2>7, <2>9
    <3>2. i \in 1 .. Len(c)
      BY <2>7, <3>1
    <3>3. QED
      BY <2>8, <2>9, <3>2 DEF Paired
  <2>10. QED
    BY <2>4, <2>5, <2>6, <2>9 DEF Complete
<1>6. QED
  <2>1. (\A t \in Sessions : Contiguous(conv[t])')
    BY <1>3
  <2>2. \A q \in Prompts : Complete(q)'
    BY <1>4, <1>5
  <2>3. QED
    BY <2>1, <2>2 DEF TurnsAreWhole, Contiguous, Complete

-----------------------------------------------------------------------------
(* Consent. *)

\* What a session has consent for, it is not asked about, by any prompt.
LEMMA NextConsent ==
  ASSUME Shape, SessionInv, ConsentStays, [Next]_vars
  PROVE  ConsentStays'
<1> SUFFICES ASSUME NEW q \in Prompts
             PROVE  LET name == Head(task'[q].calls)
                        t == task'[q].session
                    IN  /\ /\ task'[q].at = "running" /\ name \in DOMAIN CoderDefaults
                           /\ ~approval_disabled'
                           => said'[q] \in Consent \/ name \in granted'[t]
                        /\ task'[q].at = "asking" => name \notin granted'[t]
  BY DEF ConsentStays
<1> DEFINE name == Head(task[q].calls)
           t == task[q].session
<1>1. Steps(q)
  BY NextSteps
<1>2. task[q].at # "unsent" => t \in Sessions
  BY TaskTyped
<1>3. task[q].at \notin {"unsent", "sent", "done"} => t \in Sessions /\ sessions[t] = granted[t]
  BY <1>2 DEF SessionInv
<1>4. ASSUME task'[q].at = "running", Head(task'[q].calls) \in DOMAIN CoderDefaults,
             ~approval_disabled', said'[q] \notin Consent
      PROVE  Head(task'[q].calls) \in granted'[task'[q].session]
  <2>1. CASE task'[q] = task[q] /\ said'[q] = said[q]
    <3>1. name \in granted[t] /\ t \in Sessions
      BY <1>1, <1>2, <1>4, <2>1 DEF ConsentStays, Steps
    <3>2. QED
      BY <1>1, <2>1, <3>1 DEF Steps
  <2>2. CASE /\ Gated(q)
             /\ \/ approval_disabled \/ name \notin DOMAIN CoderDefaults
                \/ name \in sessions[t]
    <3>1. name \in sessions[t]
      BY <1>1, <1>4, <2>2 DEF Gated, Steps
    <3>2. QED
      BY <1>3, <2>2, <3>1 DEF Gated
  <2>3. QED
    BY <1>1, <1>4, <2>1, <2>2 DEF Steps
<1>5. ASSUME task'[q].at = "asking"
      PROVE  Head(task'[q].calls) \notin granted'[task'[q].session]
  <2>1. CASE Gated(q) /\ name \notin sessions[t]
    BY <1>3, <2>1 DEF Gated
  <2>2. CASE task'[q] = task[q]
    <3>1. name \notin granted[t] /\ t \in Sessions /\ Active(q)
      BY <1>2, <1>5, <2>2 DEF ConsentStays, Active, InCalls
    <3>2. granted'[t] = granted[t]
      <4>1. CASE OnOption
        <5> DEFINE p == Head(inbox).prompt
                   d == AcpDecision(Head(inbox).option)
        <5>1. /\ p \in Prompts /\ task[p].at = "chosen" /\ Active(p)
              /\ granted' = IF d = "ApprovedForSession"
                            THEN [granted EXCEPT ![task[p].session] = @ \union {Head(task[p].calls)}]
                            ELSE granted
          BY <4>1, HeadTyped DEF OnOption, Decided, Active, InCalls
        <5>2. p # q
          BY <1>5, <2>2, <5>1
        <5>3. task[p].session # t
          BY <3>1, <5>1, <5>2, OneActive DEF Shape
        <5>4. QED
          BY <3>1, <5>1, <5>3 DEF Shape, TypeOK
      <4>2. CASE ~OnOption
        <5>1. UNCHANGED granted
          BY <4>2, WorkApart
             DEF Next, Dispatch, OnPrompt, OnPromptRefused, OnOther, SendPrompt, SendOther,
                 Choose, vars, log
        <5>2. QED
          BY <5>1
      <4>3. QED
        BY <4>1, <4>2
    <3>3. QED
      BY <2>2, <3>1, <3>2
  <2>3. QED
    BY <1>1, <1>5, <2>1, <2>2 DEF Steps
<1>6. QED
  BY <1>4, <1>5

-----------------------------------------------------------------------------
(* The theorems. *)

Inv == Shape /\ SessionInv /\ ConvInv /\ SessionsApart

\* The server starts with no session and no message.
LEMMA InitInv == Init => Inv
<1> SUFFICES ASSUME Init PROVE Inv
  OBVIOUS
<1>1. TypeOK
  <2>1. Unsent \in Tasks
    BY SessionAgentLoaded DEF Unsent, Tasks
  <2>2. inbox \in Seq(Messages) /\ (\A s \in Sessions : queue[s] \in Seq(Prompts) /\ conv[s] \in Seq(Entries))
    BY DEF Init
  <2>3. QED
    BY <2>1, <2>2 DEF Init, TypeOK
<1>2. \A p \in Prompts : task[p].at = "unsent" /\ ~Active(p) /\ ~InCalls(p)
  BY DEF Init, Unsent, Active, InCalls
<1>3. InboxInv /\ QueueInv
  BY <1>2 DEF Init, InboxInv, QueueInv, Placed, InPlace
<1>4. CallsInv
  BY <1>2 DEF Init, CallsInv, Open, Asked
<1>5. SessionInv
  BY <1>2 DEF Init, SessionInv
<1>6. None # "end_turn"
  BY AcpAssumption DEF Answers
<1>7. ConvInv /\ TurnsAreWhole
  BY <1>2, <1>6 DEF Init, ConvInv, Owned, Ends, TurnsAreWhole
<1>8. ConsentStays
  BY <1>2 DEF ConsentStays
<1>9. QED
  BY <1>1, <1>3, <1>4, <1>5, <1>7, <1>8 DEF Inv, Shape, SessionsApart

\* Every step keeps all of it.
LEMMA NextInv == Inv /\ [Next]_vars => Inv'
<1> SUFFICES ASSUME Inv, [Next]_vars PROVE Inv'
  OBVIOUS
<1> USE DEF Inv, SessionsApart
<1>1. TypeOK' /\ InboxInv' /\ SessionInv' /\ ConsentStays'
  BY NextMoves, NextInbox, NextSession, NextConsent
<1>2. \A q \in Prompts : Asked(q)'
  BY NextAsked
<1>3. ASSUME NEW p \in Prompts, Moves(p) PROVE Inv'
  <2>1. QueueInv' /\ ConvInv' /\ TurnsAreWhole'
    BY <1>3, MoveQueue, MoveConv, MoveWhole
  <2>2. \A q \in Prompts : Open(q)'
    BY <1>1, <1>3, MoveOpen
  <2>3. QED
    BY <1>1, <1>2, <2>1, <2>2 DEF Shape, CallsInv
<1>4. CASE UNCHANGED <<task, queue, conv, open, answered>>
  <2>1. QueueInv'
    BY <1>4 DEF Shape, QueueInv, Placed, InPlace, Active, InCalls
  <2>2. ConvInv'
    BY <1>4 DEF ConvInv, Owned, Ends, Active, InCalls
  <2>3. TurnsAreWhole'
    BY <1>4 DEF TurnsAreWhole
  <2>4. \A q \in Prompts : Open(q)'
    BY <1>4 DEF Shape, CallsInv, Open, InCalls
  <2>5. QED
    BY <1>1, <1>2, <2>1, <2>2, <2>3, <2>4 DEF Shape, CallsInv
<1>5. QED
  BY <1>3, <1>4, NextMoves

\* The variables always hold values of their types: the server never has a
\* call under way without one, nor a session cache that is not a set of tools.
THEOREM Types == Spec => []TypeOK
<1>1. Inv => TypeOK
  BY DEF Inv, Shape
<1>2. QED
  BY InitInv, NextInv, <1>1, PTL DEF Spec

\* The turns of a session are whole and apart, however prompts, answers and
\* other messages interleave, and consent stays with its session.
THEOREM Apart == Spec => []SessionsApart
<1>1. Inv => SessionsApart
  BY DEF Inv
<1>2. QED
  BY InitInv, NextInv, <1>1, PTL DEF Spec

\* At any time, one task of a session is in its turn at most.
THEOREM OneTurnAtATime ==
  Spec => [](\A p, q \in Prompts :
               Active(p) /\ Active(q) /\ task[p].session = task[q].session => p = q)
<1> DEFINE One == \A p, q \in Prompts :
                    Active(p) /\ Active(q) /\ task[p].session = task[q].session => p = q
<1>1. Inv => One
  BY OneActive DEF Inv, Shape
<1>2. QED
  BY InitInv, NextInv, <1>1, PTL DEF Spec

=============================================================================
