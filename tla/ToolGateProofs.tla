--------------------------- MODULE ToolGateProofs ---------------------------
(***************************************************************************)
(* The way of a tool call through ToolGate, for any servers, requests,     *)
(* hooks and batch sizes: consent, what runs together, the first contact   *)
(* with a server, and the causes in the audit log.                         *)
(***************************************************************************)
EXTENDS ToolGate, FiniteSetTheorems, TLAPS

\* What the session cache holds the user said, and what the annotation cache
\* holds of a trusted server that server said.
CachesInv ==
  /\ approved \subseteq session
  /\ \A t \in Tools : annotations[t] = "read_only" /\ Trusted(t[1]) => t \in announced
  /\ announced \subseteq vouched

\* The consent a call that has started had.
Consented(c) ==
  AskedFor(batch[c]) /\ ~Unheard(batch[c]) =>
    /\ Classify(rules, batch[c].name) # "Deny"
    /\ policy \in {"OnRequest", "UnlessTrusted"}
    /\ \/ said[c] \in Consent
       \/ batch[c].name \in session
       \/ policy = "UnlessTrusted" /\ Vouched(batch[c])

\* What the matcher does not answer with "Allow" is what the property is about.
LEMMA NotAllowed ==
  ASSUME NEW req, AskedFor(req), ~Unheard(req)
  PROVE  Classify(rules, req.name) # "Allow"
  BY DEF AskedFor, Unheard

\* Only a matcher's "Ask", under a policy that may ask, leads to a question.
AskedInv ==
  \A c \in DOMAIN batch :
    pc[c] = "asking" =>
      /\ Classify(rules, batch[c].name) \notin {"Allow", "Deny"}
      /\ policy \in {"OnRequest", "UnlessTrusted"}

ConsentInv == CachesInv /\ AskedInv /\ RunsWithConsent

\* A sequential call has left "waiting" only after those it waits for were
\* over, and what is over stays so.
OrderInv ==
  /\ \A c \in DOMAIN batch : mode[c] = "parallel" => Harmless(batch[c])
  /\ \A c, d \in DOMAIN batch :
       /\ mode[c] = "sequential" /\ pc[c] # "waiting"
       /\ c # d /\ (mode[d] = "parallel" \/ d < c)
       => Over(d)

\* Without a cached connection no process was started, and whoever is still
\* connecting found none before its batch.
ContactInv ==
  /\ \A s \in Servers : cached[s] = None => spawned[s] = <<>>
  /\ \A c \in DOMAIN batch :
       link[c].at = "connecting" =>
         LET s == batch[c].server
         IN  s \in Servers /\ \A m \in DOMAIN spawned[s] : spawned[s][m] = batches

\* The audit writer knows the running calls of the batch and no others.
AuditInv ==
  \A c \in Calls :
    /\ pending[c] = IF pc[c] = "running" THEN Call(c) ELSE None
    /\ c \in started => pc[c] \in {"running", "ended"}
    /\ pc[c] = "running" => c \in started


-----------------------------------------------------------------------------
(* What the steps of a call have in common. *)

\* The steps of one call of the batch.
Step(c) ==
  \/ Gate(c) \/ (\E k \in Keys : Answer(c, CliDecision(k))) \/ Finish(c)
  \/ Contact(c) \/ StartUp(c) \/ NoStart(c)
  \/ Result(c) \/ Break(c) \/ Timeout(c) \/ List(c)

\* The places of a call are numbers from 1 on, and a batch takes the first.
LEMMA PlacesOfBatch ==
  ASSUME NEW b \in Batches
  PROVE  /\ \E n \in Nat : DOMAIN b = 1 .. n
         /\ DOMAIN b \subseteq Calls /\ Calls \subseteq Nat
         /\ \A c \in DOMAIN b : b[c] \in Requests
<1>1. Cardinality(Calls) \in Nat
  BY FS_CardinalityType, GateAssumption
<1>2. PICK n \in Calls : b \in [1 .. n -> Requests]
  BY DEF Batches
<1>3. n \in Nat /\ 1 .. n \subseteq Calls /\ Calls \subseteq Nat
  BY <1>1, GateAssumption
<1>4. QED
  BY <1>2, <1>3

\* So with the batch under way, if there is one.
LEMMA BatchTyped ==
  ASSUME TypeOK
  PROVE  /\ DOMAIN batch \subseteq Calls /\ Calls \subseteq Nat
         /\ \A c \in DOMAIN batch : batch[c] \in Requests
<1>1. CASE batch \in Batches
  BY <1>1, PlacesOfBatch
<1>2. CASE batch = <<>>
  <2>1. Cardinality(Calls) \in Nat
    BY FS_CardinalityType, GateAssumption
  <2>2. Calls \subseteq Nat
    BY <2>1, GateAssumption
  <2>3. QED
    BY <1>2, <2>2
<1>3. QED
  BY <1>1, <1>2 DEF TypeOK

\* The answers of the terminal are decisions.
LEMMA CliAnswers == \A k \in Keys : CliDecision(k) \in Decisions
  BY DEF Keys, CliDecision, Decisions

\* A verdict about a call: it starts, ends at once, or stops the run.
LEMMA FollowCases ==
  ASSUME NEW c, NEW outcome \in Outcomes, Follow(c, outcome)
  PROVE  \/ outcome = "Pass" /\ Start(c)
         \/ outcome = "FailedContinue" /\ End(c)
         \/ outcome = "ManualAttention" /\ Attention(c)
  BY DEF Follow, Outcomes

\* Every decision has an outcome; consent is what passes.
LEMMA OutcomeTyped ==
  ASSUME NEW d \in Decisions
  PROVE  OutcomeOf(d) \in Outcomes /\ (OutcomeOf(d) = "Pass" => d \in Consent)
  BY DEF OutcomeOf, Outcomes, Decisions, Consent

\* What the hook answers without a question.
LEMMA BeforeTyped ==
  ASSUME NEW p, NEW r, NEW n, NEW h, NEW a, Before(p, r, n, h, a) # "Ask"
  PROVE  Before(p, r, n, h, a) \in {"Pass", "FailedContinue"}
  BY DEF Before

\* How a step of a call changes the state of the call and the audit log.
Moves(c) ==
  \/ pc[c] \in {"waiting", "asking"} /\ Start(c)
  \/ pc[c] \in {"waiting", "asking", "running"} /\ End(c)
  \/ pc[c] \in {"waiting", "asking"} /\ Attention(c)
  \/ pc[c] = "waiting" /\ Goto(c, "asking") /\ UNCHANGED <<stopped, audit>>
  \/ pc[c] = "running" /\ UNCHANGED <<pc, stopped, audit>>

LEMMA StepMoves ==
  ASSUME NEW c, Step(c)
  PROVE  /\ Moves(c)
         /\ pc[c] = "waiting" => Turn(c)
         /\ UNCHANGED <<policy, rules, batch, mode, batches, changes>>
<1>1. CASE Gate(c)
  <2>1. CASE Verdict(batch[c]) = "Ask"
    BY <1>1, <2>1 DEF Gate, Moves, mcp, hook
  <2>2. CASE Verdict(batch[c]) # "Ask"
    <3>1. Verdict(batch[c]) \in {"Pass", "FailedContinue"}
      BY <2>2, BeforeTyped DEF Verdict
    <3>2. Follow(c, Verdict(batch[c])) /\ pc[c] = "waiting"
      BY <1>1, <2>2 DEF Gate
    <3>3. Start(c) \/ End(c)
      BY <3>1, <3>2, FollowCases DEF Outcomes
    <3>4. QED
      BY <1>1, <3>2, <3>3 DEF Gate, Moves, mcp, hook
  <2>3. QED
    BY <2>1, <2>2
<1>2. CASE \E k \in Keys : Answer(c, CliDecision(k))
  <2>1. PICK k \in Keys : Answer(c, CliDecision(k))
    BY <1>2
  <2>2. Follow(c, OutcomeOf(CliDecision(k))) /\ pc[c] = "asking"
    BY <2>1 DEF Answer
  <2>3. OutcomeOf(CliDecision(k)) \in Outcomes
    BY CliAnswers, OutcomeTyped
  <2>4. Start(c) \/ End(c) \/ Attention(c)
    BY <2>2, <2>3, FollowCases
  <2>5. QED
    BY <2>1, <2>2, <2>4 DEF Answer, Moves
<1>3. CASE Finish(c)
  BY <1>3 DEF Finish, Moves, hook
<1>4. CASE Contact(c) \/ StartUp(c) \/ NoStart(c) \/ Result(c) \/ Break(c)
           \/ Timeout(c) \/ List(c)
  <2>1. Then(c)
    BY <1>4 DEF Contact, StartUp, NoStart, Result, Break, Timeout, List
  <2>2. QED
    BY <2>1 DEF Then, Moves, hook
<1>5. QED
  BY <1>1, <1>2, <1>3, <1>4 DEF Step

\* The disjuncts of Next.
LEMMA NextCases ==
  ASSUME [Next]_vars
  PROVE  \/ \E b \in Batches : Dispatch(b)
         \/ \E c \in DOMAIN batch : Step(c)
         \/ Fail
         \/ Environment
         \/ UNCHANGED vars
  BY DEF Next, Step

-----------------------------------------------------------------------------
(* Types. *)

\* What a request that is accepted names is configured, hence a known server.
LEMMA ConfiguredServers == DOMAIN config \subseteq Servers
  BY McpAssumption DEF config, Layered

\* What a call that got a connection waits for.
LEMMA LinkedTyped ==
  ASSUME NEW r \in Requests, NEW n \in Nat
  PROVE  Linked(r, n) \in Links
  BY GateAssumption DEF Linked, Off, Conn, Links

\* The state of the client, initially.
LEMMA InitMcp ==
  ASSUME McpInit(FirstHints) PROVE McpTypeOK
<1>1. spawned \in [Servers -> Seq(Nat)] /\ link \in [Calls -> Links]
  BY DEF McpInit, Off, Links
<1>2. QED
  BY <1>1, GateAssumption DEF McpInit, McpTypeOK, Hints

\* The initial state has its type.
LEMMA InitTyped == Init => TypeOK
<1> SUFFICES ASSUME Init PROVE TypeOK
  OBVIOUS
<1>1. McpTypeOK
  BY InitMcp DEF Init
<1>2. policy \in Policies /\ \E h \in Hooks : policy = h.policy /\ rules = h.rules
  BY GateAssumption DEF Init
<1>3. \A c \in Calls : link[c] = Off
  BY DEF Init, McpInit
<1>4. mode \in [DOMAIN batch -> {"parallel", "sequential"}]
  BY DEF Init
<1>5. QED
  BY <1>1, <1>2, <1>3, <1>4 DEF Init, TypeOK, AuditEvents

\* The steps of the client keep its state well-formed.
LEMMA StepMcp ==
  ASSUME TypeOK, NEW c \in DOMAIN batch, Step(c)
  PROVE  McpTypeOK'
<1> DEFINE r == batch[c]
<1>1. c \in Calls /\ r \in Requests /\ r.server \in Servers /\ McpTypeOK /\ batches \in Nat
  BY BatchTyped, GateAssumption DEF TypeOK
<1>2. CASE UNCHANGED mcp
  BY <1>1, <1>2 DEF mcp, McpTypeOK
<1>3. CASE Reach(c, r)
  <2>1. cached[r.server] # None => Linked(r, cached[r.server]) \in Links
    BY <1>1, LinkedTyped DEF McpTypeOK
  <2>2. link' \in [Calls -> Links]
    BY <1>1, <1>3, <2>1 DEF Reach, McpTypeOK, Links
  <2>3. QED
    BY <1>1, <1>3, <2>2 DEF Reach, McpTypeOK
<1>4. CASE Connected(c, r, batches)
  <2> DEFINE s == r.server
             n == Len(spawned[s]) + 1
  <2>1. spawned[s] \in Seq(Nat) /\ n \in Nat
    BY <1>1 DEF McpTypeOK
  <2>2. /\ spawned' \in [Servers -> Seq(Nat)]
        /\ spawned'[s] = Append(spawned[s], batches)
        /\ \A t \in Servers \ {s} : spawned'[t] = spawned[t]
    BY <1>1, <1>4, <2>1 DEF Connected, McpTypeOK
  <2>3. DOMAIN spawned'[s] = DOMAIN spawned[s] \union {n}
    BY <2>1, <2>2, <1>1
  <2>4. cached' = [cached EXCEPT ![s] = n] /\ alive' = alive \union {<<s, n>>}
    BY <1>4 DEF Connected, Conn
  <2>5. ASSUME NEW t \in Servers PROVE cached'[t] \in {None} \union DOMAIN spawned'[t]
    <3>1. cached'[t] = IF t = s THEN n ELSE cached[t]
      BY <1>1, <2>4 DEF McpTypeOK
    <3>2. cached[t] \in {None} \union DOMAIN spawned[t]
      BY <1>1 DEF McpTypeOK
    <3>3. QED
      BY <2>2, <2>3, <3>1, <3>2
  <2>6. ASSUME NEW conn \in alive'
        PROVE  conn[1] \in Servers /\ conn[2] \in DOMAIN spawned'[conn[1]]
    <3>1. CASE conn \in alive
      <4>1. conn[1] \in Servers /\ conn[2] \in DOMAIN spawned[conn[1]]
        BY <1>1, <3>1 DEF McpTypeOK
      <4>2. QED
        BY <2>2, <2>3, <4>1
    <3>2. CASE conn = <<s, n>>
      BY <1>1, <2>3, <3>2
    <3>3. QED
      BY <2>4, <3>1, <3>2
  <2>7. Linked(r, n) \in Links
    BY <1>1, <2>1, LinkedTyped
  <2>8. link' \in [Calls -> Links]
    BY <1>1, <1>4, <2>7 DEF Connected, McpTypeOK
  <2>9. QED
    BY <1>1, <1>4, <2>1, <2>2, <2>4, <2>5, <2>6, <2>8 DEF Connected, McpTypeOK
<1>5. CASE link' = [link EXCEPT ![c] = Off] /\ UNCHANGED <<cached, spawned, alive, native, annotations, announced>>
  BY <1>1, <1>5 DEF McpTypeOK, Off, Links
<1>6. CASE Listed(c, r)
  <2>1. annotations' \in [Tools -> Hints] /\ announced' \subseteq Tools
    BY <1>1, <1>6 DEF Listed, Heard, McpTypeOK
  <2>2. QED
    BY <1>1, <1>6, <2>1 DEF Listed, Drop, McpTypeOK, Off, Links
<1>7. QED
  BY <1>2, <1>3, <1>4, <1>5, <1>6
     DEF Step, Gate, Answer, Finish, Contact, StartUp, NoStart, Result, Break, Timeout,
         List, ConnectFails, Answered, CallFails, CallTimesOut, Drop

\* The state of a call and the audit log stay well-formed.
LEMMA MovesTyped ==
  ASSUME TypeOK, NEW c \in Calls, Moves(c), UNCHANGED batches
  PROVE  /\ pc' \in [Calls -> {"none", "waiting", "asking", "running", "ended", "stopped"}]
         /\ pending' \in [Calls -> AuditEvents] /\ caused_by' \in [Calls -> AuditEvents]
         /\ started' \subseteq Calls
<1>1. Call(c) \in AuditEvents /\ None \in AuditEvents
  BY DEF TypeOK, AuditEvents, Call
<1>2. pending[c] \in AuditEvents
  BY DEF TypeOK
<1>3. QED
  BY <1>1, <1>2 DEF TypeOK, Moves, Start, End, Attention, Goto, audit

\* A call waits for a server only while it runs.
LEMMA StepLinks ==
  ASSUME TypeOK, NEW c \in DOMAIN batch, Step(c)
  PROVE  \A d \in Calls : link'[d] # Off => pc'[d] = "running"
<1> SUFFICES ASSUME NEW d \in Calls, link'[d] # Off PROVE pc'[d] = "running"
  OBVIOUS
<1>1. c \in Calls /\ link \in [Calls -> Links]
         /\ pc \in [Calls -> {"none", "waiting", "asking", "running", "ended", "stopped"}]
         /\ \A e \in Calls : link[e] # Off => pc[e] = "running"
  BY BatchTyped DEF TypeOK, McpTypeOK
<1>2. Moves(c)
  BY StepMoves
<1>3. CASE link' = link /\ Finish(c)
  BY <1>1, <1>3 DEF Finish, End, Goto
<1>4. CASE link' = link /\ pc[c] \in {"waiting", "asking"}
  BY <1>1, <1>2, <1>4 DEF Moves, Start, End, Attention, Goto
<1>5. CASE link' = [link EXCEPT ![c] = link'[c]] /\ Then(c)
  BY <1>1, <1>5 DEF Then, End, Goto
<1>6. link' = link \/ link' = [link EXCEPT ![c] = link'[c]]
  BY <1>1 DEF Step, Gate, Answer, Finish, Contact, StartUp, NoStart, Result, Break, Timeout,
         List, ConnectFails, Answered, CallFails, CallTimesOut, Drop, Reach, Connected, Listed, mcp
<1>7. \/ link' = link /\ Finish(c)
      \/ link' = link /\ pc[c] \in {"waiting", "asking"}
      \/ link' = [link EXCEPT ![c] = link'[c]] /\ Then(c)
  BY <1>1 DEF Step, Gate, Answer, Finish, Contact, StartUp, NoStart, Result, Break, Timeout,
         List, ConnectFails, Answered, CallFails, CallTimesOut, Drop, Reach, Connected, Listed, mcp
<1>8. QED
  BY <1>3, <1>4, <1>5, <1>7

\* What the user said, of the tools that were asked about.
LEMMA StepHook ==
  ASSUME TypeOK, NEW c \in DOMAIN batch, Step(c)
  PROVE  /\ approved' \subseteq Names /\ session' \subseteq Names
         /\ said' \in [Calls -> Decisions \union {"nothing"}]
<1>1. c \in Calls /\ batch[c].name \in Names
  BY BatchTyped DEF Names
<1>2. CASE \E k \in Keys : Answer(c, CliDecision(k))
  <2>1. PICK k \in Keys : Answer(c, CliDecision(k))
    BY <1>2
  <2>2. CliDecision(k) \in Decisions
    BY CliAnswers
  <2>3. QED
    BY <1>1, <2>1, <2>2 DEF Answer, TypeOK, Remember
<1>3. CASE UNCHANGED hook
  BY <1>3 DEF hook, TypeOK
<1>4. QED
  BY <1>2, <1>3 DEF Step, Gate, Finish, Contact, StartUp, NoStart, Result, Break,
                    Timeout, List, Then

\* Every step keeps the types.
LEMMA NextTyped == TypeOK /\ [Next]_vars => TypeOK'
<1> SUFFICES ASSUME TypeOK, [Next]_vars PROVE TypeOK'
  OBVIOUS
<1>1. ASSUME NEW b \in Batches, Dispatch(b) PROVE TypeOK'
  <2>1. DOMAIN b \subseteq Calls
    BY PlacesOfBatch
  <2>2. McpTypeOK'
    BY <1>1 DEF Dispatch, TypeOK, mcp, McpTypeOK
  <2>3. mode' \in [DOMAIN b -> {"parallel", "sequential"}]
    BY <1>1 DEF Dispatch, Mode
  <2>4. \A c \in Calls : link'[c] = Off
    BY <1>1 DEF Dispatch, TypeOK, mcp, Over
  <2>5. batches' \in Nat /\ batch' = b
    BY <1>1 DEF Dispatch, TypeOK
  <2>6. pc' \in [Calls -> {"none", "waiting", "asking", "running", "ended", "stopped"}]
    BY <1>1 DEF Dispatch
  <2>7. vouched' \subseteq Tools
    BY <1>1 DEF Dispatch, TypeOK, McpTypeOK
  <2>8. QED
    BY <1>1, <2>2, <2>3, <2>4, <2>5, <2>6, <2>7 DEF Dispatch, TypeOK, AuditEvents, Batches
<1>2. ASSUME NEW c \in DOMAIN batch, Step(c) PROVE TypeOK'
  <2>1. UNCHANGED <<policy, rules, batch, mode, batches>> /\ Moves(c) /\ c \in Calls
    BY <1>2, StepMoves, BatchTyped
  <2>2. McpTypeOK'
    BY <1>2, StepMcp
  <2>3. \A d \in Calls : link'[d] # Off => pc'[d] = "running"
    BY <1>2, StepLinks
  <2>4. vouched' \subseteq Tools
    <3>1. vouched \subseteq Tools /\ announced' \subseteq Tools
      BY <2>2 DEF TypeOK, McpTypeOK
    <3>2. vouched' = vouched \/ vouched' = vouched \union announced'
      BY <1>2 DEF Step, Gate, Answer, Finish, Contact, StartUp, NoStart, Result, Break,
                  Timeout, List, Then
    <3>3. QED
      BY <3>1, <3>2
  <2>5. QED
    BY <1>2, <2>1, <2>2, <2>3, <2>4, MovesTyped, StepHook DEF TypeOK
<1>3. CASE Fail
  BY <1>3 DEF Fail, TypeOK, mcp, hook, audit, McpTypeOK
<1>4. CASE Environment
  <2>1. ASSUME NEW conn \in alive, ServerDies(conn) PROVE McpTypeOK'
    BY <2>1 DEF ServerDies, TypeOK, McpTypeOK
  <2>2. ASSUME NEW t \in Changing, NEW h \in Hints, ServerChanges(t, h) PROVE McpTypeOK'
    <3>1. native' \in [Tools -> Hints]
      BY <2>2 DEF ServerChanges, TypeOK, McpTypeOK
    <3>2. QED
      BY <2>2, <3>1 DEF ServerChanges, TypeOK, McpTypeOK
  <2>3. McpTypeOK' /\ link' = link
    BY <1>4, <2>1, <2>2 DEF Environment, ServerDies, ServerChanges
  <2>4. QED
    BY <1>4, <2>3 DEF Environment, TypeOK, hook, calls, audit
<1>5. CASE UNCHANGED vars
  BY <1>5 DEF vars, TypeOK, mcp, hook, calls, audit, McpTypeOK
<1>6. QED
  BY <1>1, <1>2, <1>3, <1>4, <1>5, NextCases

\* The variables always hold values of their types: the caches of the client,
\* what a call waits for, and that only a running call waits for a server.
THEOREM Types == Spec => []TypeOK
<1>1. QED
  BY InitTyped, NextTyped, PTL DEF Spec

-----------------------------------------------------------------------------
(* Consent. *)

\* Nothing has been asked or said before the first batch.
LEMMA InitConsent == Init => ConsentInv
  BY DEF Init, McpInit, ConsentInv, CachesInv, AskedInv, RunsWithConsent

\* A request whose tool is known to be read-only is one a trusted server
\* last listed as such.
LEMMA ReadOnlyAnnounced ==
  ASSUME CachesInv, NEW r \in Requests, ReadOnly(r)
  PROVE  <<r.server, r.raw>> \in announced /\ Vouched(r)
<1>1. <<r.server, r.raw>> \in Tools /\ Trusted(r.server)
  BY GateAssumption DEF ReadOnly, Tools
<1>2. QED
  BY <1>1 DEF ReadOnly, CachesInv, Vouched

\* What the hook lets pass without a question has had consent.
LEMMA PassHasConsent ==
  ASSUME TypeOK, CachesInv, NEW c \in DOMAIN batch, Verdict(batch[c]) = "Pass"
  PROVE  Consented(c)
<1>1. batch[c] \in Requests
  BY BatchTyped
<1>2. ReadOnly(batch[c]) => Vouched(batch[c])
  BY <1>1, ReadOnlyAnnounced
<1> DEFINE r == batch[c]
           kind == Classify(rules, r.name)
<1>3. CASE kind = "Allow"
  BY <1>3, NotAllowed DEF Consented
<1>4. CASE kind # "Allow"
  <2>1. kind # "Deny" /\ policy \notin {"Never", "FailOnAsk"}
    BY <1>4 DEF Verdict, Before
  <2>4. (policy = "UnlessTrusted" /\ ReadOnly(r)) \/ r.name \in approved
    BY <1>4, <2>1 DEF Verdict, Before
  <2>2. policy \in {"OnRequest", "UnlessTrusted"}
    BY <2>1 DEF TypeOK, Policies
  <2>5. \/ policy = "UnlessTrusted" /\ Vouched(r)
        \/ r.name \in session
    BY <1>2, <2>4, Zenon DEF CachesInv
  <2>6. QED
    BY <1>4, <2>1, <2>2, <2>5 DEF Consented
<1>5. QED
  BY <1>3, <1>4

\* What it asks about may be asked about.
LEMMA AskMayAsk ==
  ASSUME TypeOK, NEW r, Verdict(r) = "Ask"
  PROVE  /\ Classify(rules, r.name) \notin {"Allow", "Deny"}
         /\ policy \in {"OnRequest", "UnlessTrusted"}
  BY DEF Verdict, Before, TypeOK, Policies

\* The caches are behind what was said, after every step of a call.
LEMMA StepCaches ==
  ASSUME TypeOK, CachesInv, NEW c \in DOMAIN batch, Step(c)
  PROVE  /\ CachesInv'
         /\ session \subseteq session' /\ vouched \subseteq vouched'
<1>1. CASE \E k \in Keys : Answer(c, CliDecision(k))
  BY <1>1 DEF Answer, Remember, mcp, CachesInv
<1>2. CASE /\ UNCHANGED hook /\ UNCHANGED <<annotations, announced>>
           /\ vouched' = vouched \/ vouched' = vouched \union announced'
  BY <1>2 DEF hook, CachesInv
<1>3. CASE List(c)
  <2>1. UNCHANGED <<approved, session>> /\ vouched' = vouched \union announced'
    BY <1>3 DEF List, Then, hook
  <2>2. ASSUME NEW t \in Tools, annotations'[t] = "read_only", Trusted(t[1])
        PROVE  t \in announced'
    <3> DEFINE heard == Heard(batch[c].server)
    <3>1. /\ annotations'[t] = IF t \in heard THEN native[t] ELSE annotations[t]
          /\ announced' = (announced \ heard) \union
                {u \in heard : native[u] = "read_only" /\ Trusted(batch[c].server)}
      BY <1>3 DEF List, Listed
    <3>2. CASE t \in heard
      BY <2>2, <3>1, <3>2 DEF Heard
    <3>3. CASE t \notin heard
      BY <2>2, <3>1, <3>3 DEF CachesInv
    <3>4. QED
      BY <3>2, <3>3
  <2>3. QED
    BY <2>1, <2>2 DEF CachesInv, Trusted
<1>4. QED
  BY <1>1, <1>2, <1>3
     DEF Step, Gate, Finish, Contact, StartUp, NoStart, Result, Break, Timeout, Then, mcp,
         Reach, Connected, ConnectFails, Answered, CallFails, CallTimesOut, Drop

\* The call that starts has had consent, whether it was asked about or not.
LEMMA StartHasConsent ==
  ASSUME TypeOK, ConsentInv, NEW c \in DOMAIN batch, Step(c), c \notin started, c \in started'
  PROVE  Consented(c)'
<1>1. c \in Calls /\ UNCHANGED <<policy, rules, batch>>
  BY BatchTyped, StepMoves
<1>2. CASE Gate(c)
  <2>1. Verdict(batch[c]) # "Ask"
    BY <1>2 DEF Gate, audit
  <2>2. Verdict(batch[c]) \in {"Pass", "FailedContinue"} /\ Follow(c, Verdict(batch[c]))
    BY <1>2, <2>1, BeforeTyped DEF Gate, Verdict
  <2>3. Verdict(batch[c]) = "Pass"
    BY <2>2 DEF Follow, End
  <2>4. Consented(c)
    BY <2>3, PassHasConsent DEF ConsentInv
  <2>5. QED
    BY <1>1, <1>2, <2>4 DEF Gate, hook, mcp, Consented, AskedFor, Unheard, Vouched
<1>3. CASE \E k \in Keys : Answer(c, CliDecision(k))
  <2>1. PICK k \in Keys : Answer(c, CliDecision(k))
    BY <1>3
  <2>2. CliDecision(k) \in Decisions
    BY CliAnswers
  <2>3. OutcomeOf(CliDecision(k)) = "Pass"
    BY <2>1, <2>2, OutcomeTyped, FollowCases DEF Answer, End, Attention, audit
  <2>4. CliDecision(k) \in Consent
    BY <2>2, <2>3, OutcomeTyped
  <2>5. said'[c] \in Consent
    BY <1>1, <2>1, <2>4 DEF Answer, TypeOK
  <2>6. /\ Classify(rules, batch[c].name) \notin {"Allow", "Deny"}
        /\ policy \in {"OnRequest", "UnlessTrusted"}
    BY <2>1 DEF Answer, ConsentInv, AskedInv
  <2>7. QED
    BY <1>1, <2>5, <2>6 DEF Consented
<1>4. QED
  BY <1>2, <1>3
     DEF Step, Finish, Contact, StartUp, NoStart, Result, Break, Timeout, List, Then, End, audit

\* Consent is never taken back.
LEMMA NextConsent == TypeOK /\ AuditInv /\ ConsentInv /\ [Next]_vars => ConsentInv'
<1> SUFFICES ASSUME TypeOK, AuditInv, ConsentInv, [Next]_vars PROVE ConsentInv'
  OBVIOUS
<1>1. ASSUME NEW b \in Batches, Dispatch(b) PROVE ConsentInv'
  <2>1. started' = {} /\ batch' = b /\ \A c \in DOMAIN b : pc'[c] = "waiting"
    BY <1>1, PlacesOfBatch DEF Dispatch
  <2>2. QED
    BY <1>1, <2>1 DEF Dispatch, ConsentInv, CachesInv, AskedInv, RunsWithConsent, mcp, Trusted
<1>2. ASSUME NEW c \in DOMAIN batch, Step(c) PROVE ConsentInv'
  <2>1. CachesInv' /\ session \subseteq session' /\ vouched \subseteq vouched'
    BY <1>2, StepCaches DEF ConsentInv
  <2>2. UNCHANGED <<policy, rules, batch>> /\ Moves(c) /\ DOMAIN batch \subseteq Calls
    BY <1>2, StepMoves, BatchTyped
  <2>3. AskedInv'
    <3> SUFFICES ASSUME NEW d \in DOMAIN batch, pc'[d] = "asking"
                 PROVE  /\ Classify(rules, batch[d].name) \notin {"Allow", "Deny"}
                        /\ policy \in {"OnRequest", "UnlessTrusted"}
      BY <2>2 DEF AskedInv
    <3>1. CASE pc[d] = "asking"
      BY <3>1 DEF ConsentInv, AskedInv
    <3>2. CASE pc[d] # "asking"
      <4>1. d = c /\ pc[c] = "waiting" /\ Goto(c, "asking")
        BY <2>2, <3>2 DEF Moves, Start, End, Attention, Goto, TypeOK
      <4>2. Verdict(batch[c]) = "Ask"
        <5>1. Gate(c)
          BY <1>2, <4>1 DEF Step, Answer, Finish, Contact, StartUp, NoStart, Result, Break,
                            Timeout, List, Then
        <5>2. Verdict(batch[c]) # "Ask" =>
                Follow(c, Verdict(batch[c])) /\ Verdict(batch[c]) \in {"Pass", "FailedContinue"}
          BY <5>1, BeforeTyped DEF Gate, Verdict
        <5>3. ~Start(c) /\ ~End(c)
          BY <2>2, <4>1 DEF Start, End, Goto, TypeOK
        <5>4. QED
          BY <5>2, <5>3, FollowCases DEF Outcomes
      <4>3. QED
        BY <4>1, <4>2, AskMayAsk
    <3>3. QED
      BY <3>1, <3>2
  <2>4. ASSUME NEW d \in DOMAIN batch, d \in started' PROVE Consented(d)'
    <3>1. CASE d \in started
      <4>1. Consented(d)
        BY <3>1 DEF ConsentInv, RunsWithConsent, Consented
      <4>2. said'[d] = said[d]
        <5>1. pc[d] \in {"running", "ended"}
          BY <2>2, <3>1 DEF AuditInv
        <5>2. QED
          BY <1>2, <2>2, <5>1
             DEF Step, Gate, Answer, Finish, Contact, StartUp, NoStart, Result, Break, Timeout,
                 List, Then, hook, TypeOK
      <4>3. QED
        BY <2>1, <2>2, <4>1, <4>2 DEF Consented, AskedFor, Unheard, Vouched
    <3>2. CASE d \notin started
      <4>1. d = c
        BY <2>4, <3>2, <2>2 DEF Moves, Start, End, Attention, audit
      <4>2. QED
        BY <1>2, <2>4, <3>2, <4>1, StartHasConsent
    <3>3. QED
      BY <3>1, <3>2
  <2>5. RunsWithConsent'
    BY <2>2, <2>4 DEF RunsWithConsent, Consented
  <2>6. QED
    BY <2>1, <2>3, <2>5 DEF ConsentInv
<1>3. CASE Fail \/ Environment \/ UNCHANGED vars
  <2>1. UNCHANGED <<hook, batch, pc, started, annotations, announced, vouched>>
    BY <1>3 DEF Fail, Environment, vars, mcp, hook, calls, audit, ServerDies, ServerChanges
  <2>2. QED
    BY <2>1 DEF hook, ConsentInv, CachesInv, AskedInv, RunsWithConsent,
              AskedFor, Unheard, Vouched, Trusted
<1>4. QED
  BY <1>1, <1>2, <1>3, NextCases

-----------------------------------------------------------------------------
(* The audit log. *)

\* Nothing is pending at first.
LEMMA InitAudit == Init => AuditInv /\ EndNamesItsStart
  BY DEF Init, AuditInv, EndNamesItsStart

\* A Start is noted once and taken out by the End of the same call; a new batch
\* finds nothing pending.
LEMMA NextAudit ==
  TypeOK /\ AuditInv /\ EndNamesItsStart /\ [Next]_vars => AuditInv' /\ EndNamesItsStart'
<1> SUFFICES ASSUME TypeOK, AuditInv, EndNamesItsStart, [Next]_vars
             PROVE  AuditInv' /\ EndNamesItsStart'
  OBVIOUS
<1>1. ASSUME NEW b \in Batches, Dispatch(b) PROVE AuditInv' /\ EndNamesItsStart'
  <2>1. \A c \in Calls : pending[c] = None /\ pc'[c] \in {"waiting", "none"}
    BY <1>1 DEF Dispatch, Over, AuditInv
  <2>2. started' = {} /\ pending' = pending
    BY <1>1 DEF Dispatch
  <2>3. QED
    BY <2>1, <2>2 DEF AuditInv, EndNamesItsStart
<1>2. ASSUME NEW c \in DOMAIN batch, Step(c) PROVE AuditInv' /\ EndNamesItsStart'
  <2>1. Moves(c) /\ UNCHANGED batches /\ c \in Calls
    BY <1>2, StepMoves, BatchTyped
  <2>2. ASSUME NEW d \in Calls, d # c
        PROVE  /\ pc'[d] = pc[d] /\ pending'[d] = pending[d] /\ caused_by'[d] = caused_by[d]
               /\ d \in started' <=> d \in started
    BY <2>1, <2>2 DEF Moves, Start, End, Attention, Goto, audit, TypeOK
  <2>3. /\ pending'[c] = IF pc'[c] = "running" THEN Call(c) ELSE None
        /\ c \in started' => pc'[c] \in {"running", "ended"}
        /\ pc'[c] = "running" => c \in started'
        /\ pc'[c] = "ended" => caused_by'[c] = IF c \in started' THEN Call(c) ELSE None
    BY <2>1 DEF Moves, Start, End, Attention, Goto, audit, TypeOK, AuditInv
  <2>4. \A d \in Calls : Call(d)' = Call(d)
    BY <2>1 DEF Call
  <2>5. QED
    BY <2>2, <2>3, <2>4 DEF AuditInv, EndNamesItsStart
<1>3. CASE Fail \/ Environment \/ UNCHANGED vars
  BY <1>3 DEF Fail, Environment, vars, calls, audit, AuditInv, EndNamesItsStart, Call
<1>4. QED
  BY <1>1, <1>2, <1>3, NextCases

\* An audit record of a tool's end names the start of that very call, however
\* often the model uses an id again.
THEOREM EndsNameStarts == Spec => []EndNamesItsStart
<1>1. Init => TypeOK /\ AuditInv /\ EndNamesItsStart
  BY InitTyped, InitAudit
<1>2. TypeOK /\ AuditInv /\ EndNamesItsStart /\ [Next]_vars
        => (TypeOK /\ AuditInv /\ EndNamesItsStart)'
  BY NextTyped, NextAudit
<1>3. QED
  BY <1>1, <1>2, PTL DEF Spec

\* No call of a kind the matcher asks about runs without the user's consent to
\* it, and none the matcher denies runs at all.
THEOREM CallsHadConsent == Spec => []RunsWithConsent
<1> DEFINE I == TypeOK /\ AuditInv /\ EndNamesItsStart /\ ConsentInv
<1>1. Init => I
  BY InitTyped, InitAudit, InitConsent
<1>2. I /\ [Next]_vars => I'
  BY NextTyped, NextAudit, NextConsent
<1>3. I => RunsWithConsent
  BY DEF ConsentInv
<1>4. QED
  BY <1>1, <1>2, <1>3, PTL DEF Spec

-----------------------------------------------------------------------------
(* The order of a batch. *)

\* A step of one call leaves the others where they are, never goes back, and
\* leaves "waiting" only in its turn.
LEMMA StepOrder ==
  ASSUME TypeOK, NEW c \in DOMAIN batch, Step(c)
  PROVE  /\ \A d \in Calls \ {c} : pc'[d] = pc[d]
         /\ ~Over(c)
         /\ pc[c] # "waiting" => pc'[c] # "waiting"
         /\ pc[c] = "waiting" => Turn(c)
         /\ pc'[c] # "none"
<1>1. Moves(c) /\ c \in Calls
  BY StepMoves, BatchTyped
<1>2. pc[c] = "waiting" => Turn(c)
  BY StepMoves
<1>3. QED
  BY <1>1, <1>2 DEF Moves, Start, End, Attention, Goto, Over, TypeOK

\* There is no batch at first.
LEMMA InitOrder == Init => OrderInv
  BY DEF Init, OrderInv

\* The classification stands for the whole batch, and so does what is over.
LEMMA NextOrder == TypeOK /\ CachesInv /\ OrderInv /\ [Next]_vars => OrderInv'
<1> SUFFICES ASSUME TypeOK, CachesInv, OrderInv, [Next]_vars PROVE OrderInv'
  OBVIOUS
<1>1. ASSUME NEW b \in Batches, Dispatch(b) PROVE OrderInv'
  <2>1. /\ batch' = b /\ UNCHANGED <<announced, annotations>>
        /\ \A c \in DOMAIN b : pc'[c] = "waiting" /\ b[c] \in Requests
    BY <1>1, PlacesOfBatch DEF Dispatch, mcp
  <2>2. ASSUME NEW c \in DOMAIN b, mode'[c] = "parallel" PROVE Harmless(b[c])'
    <3>1. Mode(b[c]) = "parallel"
      BY <1>1, <2>2 DEF Dispatch
    <3>2. b[c].name = "mcp_call" => ReadOnly(b[c])
      BY <3>1 DEF Mode, SideEffects, BrowserTools
    <3>3. b[c].name \notin SideEffects
      BY <3>1 DEF Mode, SideEffects, BrowserTools
    <3>4. b[c].name = "mcp_call" => <<b[c].server, b[c].raw>> \in announced
      BY <2>1, <3>2, ReadOnlyAnnounced
    <3>5. vouched' = announced
      BY <1>1 DEF Dispatch
    <3>6. QED
      BY <3>3, <3>4, <3>5 DEF Harmless, Vouched
  <2>3. QED
    BY <2>1, <2>2 DEF OrderInv
<1>2. ASSUME NEW c \in DOMAIN batch, Step(c) PROVE OrderInv'
  <2>1. UNCHANGED <<batch, mode>> /\ vouched \subseteq vouched'
    BY <1>2, StepMoves, StepCaches
  <2>2. ASSUME NEW d \in DOMAIN batch, mode[d] = "parallel" PROVE Harmless(batch[d])'
    BY <2>1, <2>2 DEF OrderInv, Harmless, Vouched
  <2>3. ASSUME NEW d \in DOMAIN batch, NEW e \in DOMAIN batch,
               mode[d] = "sequential", pc'[d] # "waiting", d # e,
               mode[e] = "parallel" \/ e < d
        PROVE  Over(e)'
    <3>1. Over(e)
      <4>1. CASE pc[d] # "waiting"
        BY <2>3, <4>1 DEF OrderInv
      <4>2. CASE pc[d] = "waiting"
        <5>1. d = c /\ Turn(c)
          BY <1>2, <2>3, <4>2, StepOrder, BatchTyped
        <5>2. QED
          BY <2>3, <5>1 DEF Turn
      <4>3. QED
        BY <4>1, <4>2
    <3>2. e # c /\ e \in Calls
      BY <1>2, <3>1, StepOrder, BatchTyped
    <3>3. pc'[e] = pc[e]
      BY <1>2, <3>2, StepOrder
    <3>4. QED
      BY <3>1, <3>3 DEF Over
  <2>4. QED
    BY <2>1, <2>2, <2>3 DEF OrderInv
<1>3. CASE Fail \/ Environment \/ UNCHANGED vars
  BY <1>3 DEF Fail, Environment, vars, mcp, calls, ServerDies, ServerChanges,
              OrderInv, Harmless, Vouched, Over
<1>4. QED
  BY <1>1, <1>2, <1>3, NextCases

\* Of two calls that are active, both were classified as parallel.
LEMMA OrderSuffices == TypeOK /\ OrderInv => TogetherOnlyIfHarmless
<1> SUFFICES ASSUME TypeOK, OrderInv, NEW c \in DOMAIN batch, NEW d \in DOMAIN batch, c # d,
                    pc[c] \in {"asking", "running"}, pc[d] \in {"asking", "running"}
             PROVE  Harmless(batch[c]) /\ Harmless(batch[d])
  BY DEF TogetherOnlyIfHarmless
<1>1. c \in Nat /\ d \in Nat /\ ~Over(c) /\ ~Over(d)
  BY BatchTyped DEF Over
<1>2. mode[c] \in {"parallel", "sequential"} /\ mode[d] \in {"parallel", "sequential"}
  BY DEF TypeOK
<1>3. c < d \/ d < c
  BY <1>1
<1>4. mode[c] = "parallel" /\ mode[d] = "parallel"
  BY <1>1, <1>2, <1>3 DEF OrderInv
<1>5. QED
  BY <1>4 DEF OrderInv

\* Two calls are active together only when neither has side effects, as far as
\* a trusted server said, whatever is listed while the batch runs.
THEOREM TogetherHarmless == Spec => []TogetherOnlyIfHarmless
<1> DEFINE I == TypeOK /\ AuditInv /\ EndNamesItsStart /\ ConsentInv /\ OrderInv
<1>1. Init => I
  BY InitTyped, InitAudit, InitConsent, InitOrder
<1>2. I /\ [Next]_vars => I'
  <2>1. I /\ [Next]_vars => TypeOK' /\ AuditInv' /\ EndNamesItsStart' /\ ConsentInv'
    BY NextTyped, NextAudit, NextConsent
  <2>2. I /\ [Next]_vars => OrderInv'
    BY NextOrder DEF ConsentInv
  <2>3. QED
    BY <2>1, <2>2
<1>3. I => TogetherOnlyIfHarmless
  BY OrderSuffices
<1>4. QED
  BY <1>1, <1>2, <1>3, PTL DEF Spec

-----------------------------------------------------------------------------
(* The first contact with a server. *)

\* No process has been started at first.
LEMMA InitContact == Init => ContactInv /\ FirstContactOnly
  BY DEF Init, McpInit, ContactInv, FirstContactOnly, Off

\* A step of a call that starts no process.
LEMMA QuietContact ==
  ASSUME TypeOK, ContactInv, FirstContactOnly, UNCHANGED <<batch, batches, cached, spawned>>,
         \A c \in DOMAIN batch :
           link'[c].at = "connecting" =>
             \/ link[c].at = "connecting"
             \/ batch[c].server \in Servers /\ cached[batch[c].server] = None
  PROVE  ContactInv' /\ FirstContactOnly'
<1>1. FirstContactOnly'
  BY DEF FirstContactOnly
<1>2. ASSUME NEW c \in DOMAIN batch, link'[c].at = "connecting"
      PROVE  /\ batch[c].server \in Servers
             /\ \A m \in DOMAIN spawned[batch[c].server] : spawned[batch[c].server][m] = batches
  <2>1. CASE link[c].at = "connecting"
    BY <2>1 DEF ContactInv
  <2>2. CASE batch[c].server \in Servers /\ cached[batch[c].server] = None
    BY <2>2 DEF ContactInv
  <2>3. QED
    BY <1>2, <2>1, <2>2
<1>3. UNCHANGED <<batch, batches, cached, spawned>>
  OBVIOUS
<1>4. \A s \in Servers : cached'[s] = None => spawned'[s] = <<>>
  BY <1>3 DEF ContactInv
<1>5. QED
  BY <1>1, <1>2, <1>3, <1>4 DEF ContactInv

\* A process is started in the batch that found the server without one, and
\* all before it were started there too.
LEMMA NextContact ==
  TypeOK /\ ContactInv /\ FirstContactOnly /\ [Next]_vars => ContactInv' /\ FirstContactOnly'
<1> SUFFICES ASSUME TypeOK, ContactInv, FirstContactOnly, [Next]_vars
             PROVE  ContactInv' /\ FirstContactOnly'
  OBVIOUS
<1>1. ASSUME NEW b \in Batches, Dispatch(b) PROVE ContactInv' /\ FirstContactOnly'
  <2>1. \A c \in Calls : link'[c].at # "connecting"
    BY <1>1 DEF Dispatch, TypeOK, mcp, Over, Off
  <2>2. DOMAIN batch' \subseteq Calls
    BY <1>1, PlacesOfBatch DEF Dispatch
  <2>3. UNCHANGED <<cached, spawned>>
    BY <1>1 DEF Dispatch, mcp
  <2>4. QED
    BY <2>1, <2>2, <2>3 DEF ContactInv, FirstContactOnly
<1>2. ASSUME NEW c \in DOMAIN batch, Step(c) PROVE ContactInv' /\ FirstContactOnly'
  <2> DEFINE r == batch[c]
             s == r.server
  <2>1. /\ c \in Calls /\ DOMAIN batch \subseteq Calls /\ s \in Servers /\ batches \in Nat
        /\ UNCHANGED <<batch, batches>>
        /\ \A d \in DOMAIN batch : batch[d].server \in Servers
    BY <1>2, StepMoves, BatchTyped, GateAssumption DEF TypeOK
  <2>2. link \in [Calls -> Links] /\ spawned \in [Servers -> Seq(Nat)]
          /\ cached \in [Servers -> Nat \union {None}]
    BY DEF TypeOK, McpTypeOK
  <2>3. CASE Connected(c, r, batches)
    <3> DEFINE n == Len(spawned[s]) + 1
    <3>1. n \in Nat /\ n # None
      BY <2>1, <2>2, McpAssumption
    <3>2. /\ spawned' = [spawned EXCEPT ![s] = Append(spawned[s], batches)]
          /\ cached' = [cached EXCEPT ![s] = n]
          /\ link' = [link EXCEPT ![c] = Linked(r, n)]
          /\ link[c].at = "connecting"
      BY <2>3 DEF Connected
    <3>3. \A m \in DOMAIN spawned[s] : spawned[s][m] = batches
      BY <3>2 DEF ContactInv
    <3>4. \A m \in DOMAIN spawned'[s] : spawned'[s][m] = batches
      <4>1. spawned'[s] = Append(spawned[s], batches)
        BY <2>1, <2>2, <3>2
      <4>2. spawned[s] \in Seq(Nat)
        BY <2>1, <2>2
      <4>3. QED
        BY <2>1, <3>3, <4>1, <4>2
    <3>5. \A t \in Servers \ {s} : spawned'[t] = spawned[t] /\ cached'[t] = cached[t]
      BY <2>2, <3>2
    <3>6. cached'[s] # None
      BY <2>1, <2>2, <3>1, <3>2
    <3>7. FirstContactOnly'
      BY <3>4, <3>5 DEF FirstContactOnly
    <3>8. \A d \in DOMAIN batch : link'[d].at = "connecting" => link[d].at = "connecting"
      BY <2>1, <2>2, <3>2
    <3>9. ASSUME NEW d \in DOMAIN batch, link'[d].at = "connecting",
                 NEW m \in DOMAIN spawned'[batch[d].server]
          PROVE  spawned'[batch[d].server][m] = batches
      <4>1. CASE batch[d].server = s
        BY <3>4, <3>9, <4>1
      <4>2. CASE batch[d].server # s
        <5>1. spawned'[batch[d].server] = spawned[batch[d].server]
          BY <2>1, <3>5, <4>2
        <5>2. QED
          BY <3>8, <3>9, <5>1 DEF ContactInv
      <4>3. QED
        BY <4>1, <4>2
    <3>10. QED
      BY <2>1, <3>5, <3>6, <3>7, <3>9 DEF ContactInv
  <2>4. CASE Reach(c, r)
    <3>1. \A d \in DOMAIN batch :
            link'[d].at = "connecting" =>
              \/ link[d].at = "connecting"
              \/ batch[d].server \in Servers /\ cached[batch[d].server] = None
      BY <2>1, <2>2, <2>4 DEF Reach, Linked, Off
    <3>2. QED
      BY <2>1, <2>4, <3>1, QuietContact DEF Reach
  <2>5. CASE /\ UNCHANGED <<cached, spawned>>
             /\ link' = link \/ link' = [link EXCEPT ![c] = Off]
    <3>1. ASSUME NEW d \in DOMAIN batch, link'[d].at = "connecting"
          PROVE  link[d].at = "connecting"
      <4>1. CASE link' = link
        BY <3>1, <4>1
      <4>2. CASE link' = [link EXCEPT ![c] = Off]
        <5>1. c # d
          BY <2>1, <2>2, <3>1, <4>2 DEF Off
        <5>2. QED
          BY <2>1, <2>2, <3>1, <4>2, <5>1
      <4>3. QED
        BY <2>5, <4>1, <4>2
    <3>2. QED
      BY <2>1, <2>5, <3>1, QuietContact
  <2>6. QED
    BY <1>2, <2>3, <2>4, <2>5
       DEF Step, Gate, Answer, Finish, Contact, StartUp, NoStart, Result, Break, Timeout,
           List, ConnectFails, Answered, CallFails, CallTimesOut, Drop, Listed, mcp
<1>3. CASE Fail \/ Environment \/ UNCHANGED vars
  BY <1>3 DEF Fail, Environment, vars, mcp, calls, ServerDies, ServerChanges,
              ContactInv, FirstContactOnly
<1>4. QED
  BY <1>1, <1>2, <1>3, NextCases

\* All processes of a server were started by one batch: its first contacts may
\* race, later calls share what they left.
THEOREM OneFirstContact == Spec => []FirstContactOnly
<1>1. Init => TypeOK /\ ContactInv /\ FirstContactOnly
  BY InitTyped, InitContact
<1>2. TypeOK /\ ContactInv /\ FirstContactOnly /\ [Next]_vars
        => (TypeOK /\ ContactInv /\ FirstContactOnly)'
  BY NextTyped, NextContact
<1>3. QED
  BY <1>1, <1>2, PTL DEF Spec

=============================================================================
