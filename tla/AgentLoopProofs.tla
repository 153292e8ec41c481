--------------------------- MODULE AgentLoopProofs ---------------------------
(***************************************************************************)
(* The driver loop, for any iteration cap, any batches of calls and any    *)
(* number of queued messages: types, exclusive sequential calls, what is   *)
(* left to happen after an abort, and what the log holds of the            *)
(* conversation.                                                           *)
(***************************************************************************)
EXTENDS AgentLoop, TLAPS

\* Where the driver looks at the newest message, there is one.
LastExists ==
  pc \in {"commit_prompt", "commit_marker", "commit_assistant",
          "tools", "sequential", "results"}
    => messages # <<>>

TInv == TypeOK /\ LastExists

\* Requests after the abort are those of the turn that has begun: none before
\* its compaction, at most one for the summary before its own.
LateInv ==
  /\ ~aborted => late = NoRequests
  /\ pc = "compact" => late = NoRequests
  /\ pc \in {"summary", "commit_marker", "request"} => late["turn"] = 0
  /\ AbortStopsRequests

\* The batch belongs to the newest message; its sequential calls wait for the
\* parallel ones and then run down the list.
BatchInv ==
  /\ pc \in {"tools", "sequential"} => Len(phase) = Len(Calls)
  /\ pc = "tools" =>
       \A k \in DOMAIN phase : Calls[k] = "sequential" => phase[k] = "waiting"
  /\ pc = "sequential" =>
       /\ \A k \in DOMAIN phase : Calls[k] = "parallel" => phase[k] = "done"
       /\ \A j, k \in DOMAIN phase :
            /\ j < k /\ Calls[j] = "sequential" /\ Calls[k] = "sequential"
            /\ phase[k] # "waiting"
            => phase[j] = "done"

-----------------------------------------------------------------------------
(* Facts about data. *)

\* The newest message of a history is a message.
LEMMA LastIsMessage ==
  ASSUME NEW s \in Seq(Message), s # <<>>
  PROVE  Last(s) \in Message
  BY DEF Last

\* Numbered messages of a kind are messages.
LEMMA MsgIsMessage ==
  ASSUME NEW kind \in Kinds, NEW calls \in Batches \union {<<>>},
         NEW of \in Nat, NEW n \in Nat
  PROVE  Msg(kind, calls, of, n) \in Message
  BY DEF Msg, Message

\* What a call may be in, and what setting one call's state keeps.
CallStates == {"waiting", "gate", "run", "done", "err"}

LEMMA SetState ==
  ASSUME phase \in Seq(CallStates), NEW k \in DOMAIN phase, NEW v \in CallStates,
         phase' = [phase EXCEPT ![k] = v]
  PROVE  phase' \in Seq(CallStates) /\ Len(phase') = Len(phase)
  OBVIOUS

\* A request may be counted as late.
LEMMA AskTyped ==
  ASSUME late \in [Requests -> Nat], NEW kind \in Requests, Ask(kind)
  PROVE  late' \in [Requests -> Nat]
  BY DEF Ask

\* Drained messages extend a history.
LEMMA PushAllTyped ==
  ASSUME messages \in Seq(Message), pushed \in Nat,
         NEW kind \in Kinds, NEW k \in Nat, PushAll(kind, k)
  PROVE  messages' \in Seq(Message) /\ pushed' \in Nat
<1> DEFINE new == [i \in 1 .. k |-> Msg(kind, <<>>, 0, pushed + i - 1)]
<1>1. \A i \in 1 .. k : Msg(kind, <<>>, 0, pushed + i - 1) \in Message
  <2> TAKE i \in 1 .. k
  <2>1. pushed + i - 1 \in Nat
    OBVIOUS
  <2>2. QED
    BY <2>1, MsgIsMessage
<1>2. new \in Seq(Message)
  BY <1>1
<1>3. messages' = messages \o new /\ pushed' = pushed + k
  BY DEF PushAll
<1>4. QED
  BY <1>2, <1>3

\* So does a pushed one, which is then the newest.
LEMMA PushTyped ==
  ASSUME messages \in Seq(Message), pushed \in Nat,
         NEW kind \in Kinds, NEW calls \in Batches \union {<<>>}, NEW of \in Nat,
         Push(kind, calls, of)
  PROVE  messages' \in Seq(Message) /\ messages' # <<>> /\ pushed' \in Nat
  BY MsgIsMessage DEF Push

\* A commit extends the log by the newest message or leaves it.
LEMMA CommitTyped ==
  ASSUME messages \in Seq(Message), messages # <<>>, log \in Seq(Message),
         refused \subseteq Nat, NEW o \in Outcomes, Commit(o)
  PROVE  log' \in Seq(Message) /\ refused' \subseteq Nat
<1>1. Last(messages) \in Message
  BY LastIsMessage
<1>2. Last(messages).n \in Nat
  BY <1>1 DEF Message
<1>3. CASE o = "pass"
  <2>1. log' = Append(log, Last(messages)) /\ refused' = refused
    BY <1>3 DEF Commit
  <2>2. QED
    BY <1>1, <2>1
<1>4. CASE o # "pass"
  <2>1. log' = log /\ refused' = refused \union {Last(messages).n}
    BY <1>4 DEF Commit
  <2>2. QED
    BY <1>2, <2>1
<1>5. QED
  BY <1>3, <1>4

-----------------------------------------------------------------------------
(* Types. *)

\* What the steps below unfold throughout.
USE DEF Resting, Running, Outcomes, Gate, Settled, run, queue, batch, vars

\* The initial state has its type.
LEMMA InitTInv == Init => TInv
<1> SUFFICES ASSUME Init PROVE TInv
  OBVIOUS
<1>1. /\ messages \in Seq(Message) /\ log \in Seq(Message)
      /\ phase \in Seq(CallStates) /\ late \in [Requests -> Nat]
  BY DEF Init, NoRequests
<1>2. QED
  BY <1>1 DEF Init, TInv, TypeOK, LastExists, CallStates

\* Every step keeps the types, and leaves a message where the driver looks for one.
LEMMA StepTInv == TInv /\ [Next]_vars => TInv'
<1> SUFFICES ASSUME TInv, [Next]_vars PROVE TInv'
  OBVIOUS
<1> USE DEF TInv, LastExists, CallStates
<1>0. TypeOK
  OBVIOUS
<1>1. CASE UNCHANGED vars
  BY <1>1 DEF TypeOK
<1>2. CASE Begin
  <2>1. PICK o \in Outcomes :
          /\ Gate(o, "commit_prompt")
          /\ IF o = "pass" THEN Push("prompt", <<>>, 0)
                           ELSE UNCHANGED <<messages, pushed>>
    BY <1>2 DEF Begin
  <2>2. CASE o = "pass"
    <3>1. messages' \in Seq(Message) /\ messages' # <<>> /\ pushed' \in Nat
      BY <2>1, <2>2, PushTyped, <1>0 DEF TypeOK, Kinds
    <3>2. QED
      BY <1>2, <2>1, <2>2, <3>1 DEF Begin, TypeOK, NoRequests
  <2>3. CASE o # "pass"
    BY <1>2, <2>1, <2>3 DEF Begin, TypeOK, NoRequests
  <2>4. QED
    BY <2>2, <2>3
<1>3. CASE CommitPrompt
  <2>1. PICK o \in Outcomes : Gate(o, "top") /\ Commit(o)
    BY <1>3 DEF CommitPrompt
  <2>2. log' \in Seq(Message) /\ refused' \subseteq Nat
    BY <1>3, <2>1, CommitTyped DEF CommitPrompt, TypeOK
  <2>3. QED
    BY <1>3, <2>1, <2>2 DEF CommitPrompt, TypeOK
<1>4. CASE HitLimit
  BY <1>4 DEF HitLimit, TypeOK
<1>5. CASE SeeAbort
  BY <1>5 DEF SeeAbort, TypeOK
<1>6. CASE StartTurn
  <2>1. messages' \in Seq(Message) /\ pushed' \in Nat
    BY <1>6, PushAllTyped DEF StartTurn, TypeOK, Kinds
  <2>2. QED
    BY <1>6, <2>1 DEF StartTurn, TypeOK
<1>7. CASE Compact
  BY <1>7, AskTyped DEF Compact, TypeOK, Requests
<1>23. CASE Summarize
  <2>1. messages' \in Seq(Message) /\ pushed' \in Nat
        /\ (pc' = "commit_marker" => messages' # <<>>)
    BY <1>23, PushTyped DEF Summarize, TypeOK, Kinds
  <2>2. QED
    BY <1>23, <2>1 DEF Summarize, TypeOK
<1>8. CASE CommitMarker
  <2>1. PICK o \in Outcomes, post \in Outcomes :
          Commit(o) /\ Gate(IF o = "pass" THEN post ELSE o, "request")
    BY <1>8 DEF CommitMarker
  <2>2. log' \in Seq(Message) /\ refused' \subseteq Nat
    BY <1>8, <2>1, CommitTyped DEF CommitMarker, TypeOK
  <2>3. QED
    BY <1>8, <2>1, <2>2 DEF CommitMarker, TypeOK
<1>9. CASE Request
  BY <1>9, AskTyped DEF Request, TypeOK, Requests
<1>10. CASE StreamError
  BY <1>10 DEF StreamError, TypeOK
<1>11. CASE Answer
  <2>1. messages' \in Seq(Message) /\ messages' # <<>> /\ pushed' \in Nat
    BY <1>11, PushTyped DEF Answer, TypeOK, Kinds
  <2>2. QED
    BY <1>11, <2>1 DEF Answer, TypeOK
<1>12. CASE CommitAssistant
  <2>1. PICK o \in Outcomes, post \in Outcomes :
          /\ Commit(o)
          /\ Gate(IF o = "pass" THEN post ELSE o,
                  IF stop = "error" THEN "agent_end"
                  ELSE IF Calls = <<>> THEN "follow_up" ELSE "tools")
    BY <1>12 DEF CommitAssistant
  <2>2. log' \in Seq(Message) /\ refused' \subseteq Nat
    BY <1>12, <2>1, CommitTyped DEF CommitAssistant, TypeOK
  <2>3. Last(messages) \in Message
    BY <1>12, LastIsMessage DEF CommitAssistant, TypeOK
  <2>4. Calls \in Seq(Modes)
    <3>1. Calls \in Batches \union {<<>>}
      BY <2>3 DEF Message, Calls
    <3>2. <<>> \in Seq(Modes)
      OBVIOUS
    <3>3. QED
      BY <3>1, <3>2, LoopAssumption
  <2>5. phase' \in Seq(CallStates)
    BY <1>12, <2>4 DEF CommitAssistant
  <2>6. QED
    BY <1>12, <2>1, <2>2, <2>5 DEF CommitAssistant, TypeOK
<1>13. ASSUME NEW k \in DOMAIN phase,
              StartCall(k) \/ PassCall(k) \/ FinishCall(k) \/ FailCall(k)
       PROVE  TInv'
  <2>1. phase' \in Seq(CallStates)
    <3>1. PICK v \in CallStates : phase' = [phase EXCEPT ![k] = v]
      BY <1>13 DEF StartCall, PassCall, FinishCall, FailCall, CallStates
    <3>2. QED
      BY <3>1, SetState DEF TypeOK, CallStates
  <2>2. QED
    BY <1>13, <2>1 DEF StartCall, PassCall, FinishCall, FailCall, Ready, TypeOK
<1>14. CASE CollectParallel
  BY <1>14 DEF CollectParallel, TypeOK
<1>15. CASE CollectSequential
  BY <1>15 DEF CollectSequential, TypeOK
<1>16. CASE PushResult
  <2>1. Last(messages) \in Message
    BY <1>16, LastIsMessage DEF PushResult, TypeOK
  <2>2. Answered + 1 \in Nat
    BY <2>1 DEF Answered, Message
  <2>3. PICK k \in Nat : k = Answered + 1
    BY <2>2
  <2>4. Push("tool", <<>>, k) /\ log' = Append(log, Msg("tool", <<>>, k, pushed))
    BY <1>16, <2>3 DEF PushResult
  <2>5. messages' \in Seq(Message) /\ messages' # <<>> /\ pushed' \in Nat
    BY <2>4, PushTyped DEF TypeOK, Kinds
  <2>6. Msg("tool", <<>>, k, pushed) \in Message
    BY MsgIsMessage DEF TypeOK, Kinds
  <2>7. log' \in Seq(Message)
    BY <2>4, <2>6 DEF TypeOK
  <2>8. QED
    <3>1. phase' \in Seq(CallStates) /\ terminate' \in BOOLEAN
      <4>1. \/ phase' = phase /\ UNCHANGED terminate
            \/ phase' = <<>> /\ terminate' = TRUE
        BY <1>16 DEF PushResult
      <4>2. <<>> \in Seq(CallStates)
        OBVIOUS
      <4>3. phase \in Seq(CallStates) /\ terminate \in BOOLEAN
        BY DEF TypeOK, CallStates
      <4>4. QED
        BY <4>1, <4>2, <4>3
    <3>2. pc' \in {"results", "agent_end", "top"} /\ stop' \in {"none", "end_turn", "error"}
      BY <1>16 DEF PushResult, TypeOK
    <3>3. UNCHANGED <<iteration, aborted, late, steering, follow_ups, refused>>
      BY <1>16 DEF PushResult
    <3>4. QED
      BY <2>5, <2>7, <3>1, <3>2, <3>3 DEF TypeOK, CallStates
<1>17. CASE FollowUp
  <2>1. messages' \in Seq(Message) /\ pushed' \in Nat
    BY <1>17, PushAllTyped DEF FollowUp, TypeOK, Kinds
  <2>2. QED
    BY <1>17, <2>1 DEF FollowUp, TypeOK
<1>18. CASE AgentEnd
  BY <1>18 DEF AgentEnd, TypeOK
<1>19. CASE Abort
  BY <1>19 DEF Abort, TypeOK
<1>20. CASE Enqueue
  BY <1>20 DEF Enqueue, TypeOK
<1>21. CASE Crash
  BY <1>21 DEF Crash, TypeOK
<1>22. QED
  BY <1>1, <1>2, <1>3, <1>4, <1>5, <1>6, <1>7, <1>8, <1>9, <1>10, <1>11, <1>12,
     <1>13, <1>14, <1>15, <1>16, <1>17, <1>18, <1>19, <1>20, <1>21, <1>23
  DEF Next, Driver

\* Every reachable state has its type.
THEOREM TypeCorrect == Spec => []TypeOK
<1>1. TInv => TypeOK
  BY DEF TInv
<1>2. QED
  BY InitTInv, StepTInv, <1>1, PTL DEF Spec

-----------------------------------------------------------------------------
(* Aborts. *)

\* Every step keeps the bound on late requests: those of the turn in which the
\* signal comes up are followed by the poll at the top of the loop.
LEMMA StepLateInv == TypeOK /\ LateInv /\ [Next]_vars => LateInv'
<1> SUFFICES ASSUME TypeOK, LateInv, [Next]_vars PROVE LateInv'
  OBVIOUS
<1> USE DEF LateInv, AbortStopsRequests, Requests, NoRequests
<1>0. aborted \in BOOLEAN /\ late \in [Requests -> Nat]
  BY DEF TypeOK
<1>1. CASE UNCHANGED vars
  BY <1>1
<1>2. CASE Begin
  BY <1>2 DEF Begin
<1>3. CASE StartTurn
  BY <1>3 DEF StartTurn
<1>4. CASE Request
  BY <1>0, <1>4 DEF Request, Ask
<1>12. CASE Compact
  BY <1>0, <1>12 DEF Compact, Ask
<1>5. CASE Abort
  BY <1>5 DEF Abort
<1>6. CASE \/ CommitPrompt \/ HitLimit \/ SeeAbort \/ StreamError \/ Answer
           \/ CollectParallel \/ CollectSequential
           \/ FollowUp \/ AgentEnd \/ Crash
  BY <1>6 DEF CommitPrompt, HitLimit, SeeAbort, StreamError, Answer,
              CollectParallel, CollectSequential, FollowUp, AgentEnd, Crash
<1>7. CASE Summarize \/ CommitMarker \/ Enqueue
  BY <1>7 DEF Summarize, CommitMarker, Enqueue
<1>8. CASE CommitAssistant
  BY <1>8 DEF CommitAssistant
<1>9. ASSUME NEW k \in DOMAIN phase,
             StartCall(k) \/ PassCall(k) \/ FinishCall(k) \/ FailCall(k)
      PROVE  LateInv'
  BY <1>9 DEF StartCall, PassCall, FinishCall, FailCall, Ready
<1>10. CASE PushResult
  <2>1. UNCHANGED <<late, aborted>> /\ pc' \in {"results", "agent_end", "top"}
    BY <1>10 DEF PushResult
  <2>2. QED
    BY <2>1
<1>11. QED
  BY <1>1, <1>2, <1>3, <1>4, <1>5, <1>6, <1>7, <1>8, <1>9, <1>10, <1>12
  DEF Next, Driver

\* After the abort signal only the turn that has begun makes requests, at most
\* one for a summary and one for itself, whatever is queued and however many
\* turns are left.
THEOREM AbortHolds == Spec => []AbortStopsRequests
<1>1. Init => LateInv
  BY DEF Init, LateInv, AbortStopsRequests, Requests, NoRequests
<1>2. LateInv => AbortStopsRequests
  BY DEF LateInv
<1>3. QED
  BY <1>1, StepLateInv, <1>2, TypeCorrect, PTL DEF Spec

-----------------------------------------------------------------------------
(* Tool batches. *)

\* Every step keeps the order of a batch.
LEMMA StepBatchInv == TInv /\ BatchInv /\ [Next]_vars => BatchInv'
<1> SUFFICES ASSUME TInv, BatchInv, [Next]_vars PROVE BatchInv'
  OBVIOUS
<1>0. TypeOK /\ phase \in Seq(CallStates)
  BY DEF TInv, TypeOK, CallStates
<1>1. CASE UNCHANGED vars
  BY <1>1 DEF BatchInv, Calls
<1>2. CASE pc' \notin {"tools", "sequential"}
  BY <1>2 DEF BatchInv
<1>3. CASE CommitAssistant
  <2>1. CASE pc' = "tools"
    <3>1. Calls' = Calls /\ phase' = [k \in DOMAIN Calls |-> "waiting"]
      BY <1>3 DEF CommitAssistant, Calls
    <3>2. Last(messages) \in Message
      BY <1>3, LastIsMessage DEF CommitAssistant, TInv, TypeOK, LastExists
    <3>3. Calls \in Batches \union {<<>>}
      BY <3>2 DEF Message, Calls
    <3>4. Calls \in Seq(Modes)
      <4>1. <<>> \in Seq(Modes)
        OBVIOUS
      <4>2. QED
        BY <3>3, <4>1, LoopAssumption
    <3>5. Len(phase') = Len(Calls')
      BY <3>1, <3>4
    <3>6. QED
      BY <2>1, <3>1, <3>4, <3>5 DEF BatchInv
  <2>2. CASE pc' # "tools"
    BY <1>2, <1>3, <2>2 DEF CommitAssistant
  <2>3. QED
    BY <2>1, <2>2
<1>4. ASSUME NEW k \in DOMAIN phase, StartCall(k) PROVE BatchInv'
  <2>1. Ready(k) /\ phase' = [phase EXCEPT ![k] = "gate"] /\ UNCHANGED <<pc, messages>>
    BY <1>4 DEF StartCall
  <2>2. Calls' = Calls /\ Len(phase') = Len(phase) /\ DOMAIN phase' = DOMAIN phase
    BY <2>1, <1>0 DEF Calls
  <2>3. QED
    BY <2>1, <2>2, <1>0 DEF BatchInv, Ready, Idx
<1>5. ASSUME NEW k \in DOMAIN phase, PassCall(k) \/ FinishCall(k) PROVE BatchInv'
  <2>1. PICK v \in {"run", "done"} :
          /\ phase[k] \in {"gate", "run"} /\ phase' = [phase EXCEPT ![k] = v]
          /\ UNCHANGED <<pc, messages>>
    BY <1>5 DEF PassCall, FinishCall
  <2>2. Calls' = Calls /\ Len(phase') = Len(phase) /\ DOMAIN phase' = DOMAIN phase
    BY <2>1, <1>0 DEF Calls
  <2>3. QED
    BY <2>1, <2>2, <1>0 DEF BatchInv
<1>6. ASSUME NEW k \in DOMAIN phase, FailCall(k) PROVE BatchInv'
  <2>1. /\ phase[k] = "gate" /\ phase' = [phase EXCEPT ![k] = "err"]
        /\ pc' = (IF pc = "sequential" THEN "failed" ELSE pc) /\ messages' = messages
    BY <1>6 DEF FailCall
  <2>2. Calls' = Calls /\ Len(phase') = Len(phase) /\ DOMAIN phase' = DOMAIN phase
    BY <2>1, <1>0 DEF Calls
  <2>3. QED
    BY <2>1, <2>2, <1>0 DEF BatchInv
<1>7. CASE CollectParallel
  BY <1>7, <1>0 DEF CollectParallel, BatchInv, Calls, Idx
<1>8. CASE Abort \/ Enqueue
  BY <1>8 DEF Abort, Enqueue, BatchInv, Calls
<1>9. QED
  BY <1>1, <1>2, <1>3, <1>4, <1>5, <1>6, <1>7, <1>8
  DEF Next, Driver, Begin, CommitPrompt, HitLimit, SeeAbort, StartTurn, Compact,
      Summarize, CommitMarker, Request, StreamError, Answer, CollectSequential, PushResult,
      FollowUp, AgentEnd, Crash

\* A sequential call never overlaps another call of its batch: bash, edit and
\* write run alone, for any list of calls the model may answer with.
THEOREM SequentialAlone == Spec => []SequentialIsAlone
<1>1. Init => BatchInv
  BY DEF Init, BatchInv
<1>2. TInv /\ BatchInv => SequentialIsAlone
  <2> SUFFICES ASSUME TInv, BatchInv,
                      NEW j \in DOMAIN phase, NEW k \in DOMAIN phase,
                      pc \in {"tools", "sequential"},
                      j # k, Calls[k] = "sequential",
                      phase[j] \in {"gate", "run"}, phase[k] \in {"gate", "run"}
               PROVE  FALSE
    BY DEF SequentialIsAlone
  <2>1. pc = "sequential"
    BY DEF BatchInv
  <2>2. Calls[j] \in Modes
    <3>1. Last(messages) \in Message
      BY LastIsMessage DEF TInv, TypeOK, LastExists
    <3>2. Calls \in Batches \union {<<>>}
      BY <3>1 DEF Message, Calls
    <3>3. Len(phase) = Len(Calls) /\ phase \in Seq(CallStates)
      BY DEF BatchInv, TInv, TypeOK, CallStates
    <3>4. Calls \in Seq(Modes)
      <4>1. <<>> \in Seq(Modes)
        OBVIOUS
      <4>2. QED
        BY <3>2, <4>1, LoopAssumption
    <3>5. QED
      BY <3>3, <3>4
  <2>3. Calls[j] = "sequential"
    BY <2>1, <2>2 DEF BatchInv, Modes
  <2>4. j \in Nat /\ k \in Nat
    BY DEF TInv, TypeOK
  <2>5. j < k \/ k < j
    BY <2>4
  <2>6. QED
    BY <2>1, <2>3, <2>5 DEF BatchInv
<1>3. Spec => [](TInv /\ BatchInv)
  BY InitTInv, StepTInv, <1>1, StepBatchInv, PTL DEF Spec
<1>4. QED
  BY <1>2, <1>3, PTL

-----------------------------------------------------------------------------
(* What a step does to the conversation and to the log. *)

Gates == {"commit_prompt", "commit_marker", "commit_assistant"}
Gated == {"prompt", "assistant", "marker"}

\* Nothing, and no gate is entered.
Rests ==
  /\ UNCHANGED <<messages, pushed, log, refused>>
  /\ pc' = pc \/ (pc \notin Gates /\ pc' \notin Gates)

\* A message is pushed and its gate entered.
Enters(kind, calls) ==
  /\ pc \notin Gates /\ Push(kind, calls, 0)
  /\ pc' \in Gates /\ (pc' = "commit_assistant" => kind = "assistant")
  /\ UNCHANGED <<log, refused>>

\* The newest message leaves its gate.
Leaves(o) ==
  /\ pc \in Gates /\ pc' \notin Gates /\ Commit(o)
  /\ UNCHANGED <<messages, pushed>>

\* Queued messages are drained into the conversation.
Drains(kind, k) ==
  /\ pc \notin Gates /\ pc' \notin Gates /\ PushAll(kind, k)
  /\ UNCHANGED <<log, refused>>

\* A result is stored in both.
Results(k) ==
  /\ pc = "results" /\ pc' \notin Gates /\ k = Answered + 1
  /\ Push("tool", <<>>, k)
  /\ log' = Append(log, Msg("tool", <<>>, k, pushed))
  /\ UNCHANGED refused

\* The conversation is read back from the log.
Resumes == pc' \notin Gates /\ messages' = log /\ UNCHANGED <<pushed, log, refused>>

Moves ==
  \/ Rests \/ Resumes
  \/ \E kind \in Gated, calls \in Batches \union {<<>>} : Enters(kind, calls)
  \/ \E o \in Outcomes : Leaves(o)
  \/ \E kind \in Injected, k \in Nat : Drains(kind, k)
  \/ \E k \in Nat : Results(k)

\* Every step is one of these.
LEMMA NextMoves == TInv /\ [Next]_vars => Moves
<1> SUFFICES ASSUME TInv, [Next]_vars PROVE Moves
  OBVIOUS
<1>0. TypeOK
  BY DEF TInv
<1>1. CASE Begin
  <2>1. PICK o \in Outcomes :
          /\ Gate(o, "commit_prompt")
          /\ IF o = "pass" THEN Push("prompt", <<>>, 0)
                           ELSE UNCHANGED <<messages, pushed>>
    BY <1>1 DEF Begin
  <2>2. CASE o = "pass"
    <3>1. Enters("prompt", <<>>)
      BY <1>1, <2>1, <2>2 DEF Begin, Enters, Gates
    <3>2. QED
      BY <3>1 DEF Moves, Gated
  <2>3. CASE o # "pass"
    <3>1. Rests
      BY <1>1, <2>1, <2>3 DEF Begin, Rests, Gates
    <3>2. QED
      BY <3>1 DEF Moves
  <2>4. QED
    BY <2>2, <2>3
<1>2. CASE CommitPrompt
  <2>1. \E o \in Outcomes : Leaves(o)
    BY <1>2 DEF CommitPrompt, Leaves, Gates
  <2>2. QED
    BY <2>1 DEF Moves
<1>3. CASE StartTurn
  <2>1. Drains("steering", steering)
    BY <1>3 DEF StartTurn, Drains, Gates
  <2>2. QED
    BY <1>0, <2>1 DEF Moves, TypeOK, Injected
<1>4. CASE Compact \/ Summarize
  <2>1. Rests \/ Enters("marker", <<>>)
    BY <1>4 DEF Compact, Summarize, Rests, Enters, Gates
  <2>2. QED
    BY <2>1 DEF Moves, Gated
<1>5. CASE CommitMarker
  <2>1. PICK o \in Outcomes, post \in Outcomes :
          Commit(o) /\ Gate(IF o = "pass" THEN post ELSE o, "request")
    BY <1>5 DEF CommitMarker
  <2>2. Leaves(o)
    BY <1>5, <2>1 DEF CommitMarker, Leaves, Gates
  <2>3. QED
    BY <2>2 DEF Moves
<1>6. CASE Answer
  <2>1. PICK calls \in Batches \union {<<>>} : Push("assistant", calls, 0)
    BY <1>6 DEF Answer
  <2>2. Enters("assistant", calls)
    BY <1>6, <2>1 DEF Answer, Enters, Gates
  <2>3. QED
    BY <2>2 DEF Moves, Gated
<1>7. CASE CommitAssistant
  <2>1. PICK o \in Outcomes, post \in Outcomes :
          /\ Commit(o)
          /\ Gate(IF o = "pass" THEN post ELSE o,
                  IF stop = "error" THEN "agent_end"
                  ELSE IF Calls = <<>> THEN "follow_up" ELSE "tools")
    BY <1>7 DEF CommitAssistant
  <2>2. Leaves(o)
    BY <1>7, <2>1 DEF CommitAssistant, Leaves, Gates
  <2>3. QED
    BY <2>2 DEF Moves
<1>8. CASE PushResult
  <2>1. Last(messages) \in Message
    BY <1>8, LastIsMessage DEF PushResult, TInv, TypeOK, LastExists
  <2>2. Answered + 1 \in Nat
    BY <2>1 DEF Answered, Message
  <2>3. PICK k \in Nat : k = Answered + 1
    BY <2>2
  <2>4. Results(k)
    BY <1>8, <2>3 DEF PushResult, Results, Gates
  <2>5. QED
    BY <2>4 DEF Moves
<1>9. CASE FollowUp
  <2>1. Drains("follow_up", follow_ups)
    BY <1>9 DEF FollowUp, Drains, Gates
  <2>2. QED
    BY <1>0, <2>1 DEF Moves, TypeOK, Injected
<1>10. CASE Crash
  <2>1. Resumes
    BY <1>10 DEF Crash, Resumes, Gates
  <2>2. QED
    BY <2>1 DEF Moves
<1>11. ASSUME NEW k \in DOMAIN phase,
              StartCall(k) \/ PassCall(k) \/ FinishCall(k) \/ FailCall(k)
       PROVE  Rests
  BY <1>11 DEF StartCall, PassCall, FinishCall, FailCall, Ready, Rests, Gates
<1>12. CASE \/ HitLimit \/ SeeAbort \/ Request \/ StreamError \/ CollectParallel
            \/ CollectSequential \/ AgentEnd \/ Abort \/ Enqueue \/ UNCHANGED vars
  <2>1. CASE HitLimit \/ SeeAbort \/ Request \/ StreamError
    BY <2>1 DEF HitLimit, SeeAbort, Request, StreamError, Rests, Gates, Moves
  <2>2. CASE CollectParallel \/ CollectSequential \/ AgentEnd
    BY <2>2 DEF CollectParallel, CollectSequential, AgentEnd, Rests, Gates, Moves
  <2>3. CASE Abort \/ Enqueue \/ UNCHANGED vars
    BY <2>3 DEF Abort, Enqueue, Rests, Moves
  <2>4. QED
    BY <1>12, <2>1, <2>2, <2>3
<1>13. QED
  BY <1>1, <1>2, <1>3, <1>4, <1>5, <1>6, <1>7, <1>8, <1>9, <1>10, <1>11, <1>12
  DEF Next, Driver, Moves

-----------------------------------------------------------------------------
(* The log. *)

\* A message in its gate is one that goes to disk unless a hook stops the run,
\* and nobody has.
GateInv ==
  InGate =>
    /\ Last(messages).kind \in Gated /\ Last(messages).n \notin refused
    /\ pc = "commit_assistant" => Last(messages).kind = "assistant"

\* Numbers are handed out in order, to messages and to refusals.
NumberInv ==
  /\ \A i \in DOMAIN messages : messages[i].n < pushed
  /\ \A n \in refused : n < pushed

LogInv == NumberInv /\ GateInv /\ LogIsCommittedPart

\* What appending one message does to a history.
LEMMA AppendFacts ==
  ASSUME NEW s \in Seq(Message), NEW m \in Message
  PROVE  /\ Append(s, m) \in Seq(Message) /\ Append(s, m) # <<>>
         /\ Len(s) \in Nat /\ Len(Append(s, m)) = Len(s) + 1
         /\ DOMAIN s = 1 .. Len(s) /\ DOMAIN Append(s, m) = 1 .. Len(s) + 1
         /\ \A i \in 1 .. Len(s) : Append(s, m)[i] = s[i]
         /\ Append(s, m)[Len(s) + 1] = m /\ Last(Append(s, m)) = m
         /\ ToSet(Append(s, m)) = ToSet(s) \union {m}
<1> DEFINE d == Append(s, m)
           n == Len(s)
<1>1. /\ d \in Seq(Message) /\ d # <<>> /\ n \in Nat /\ Len(d) = n + 1
      /\ DOMAIN s = 1 .. n /\ DOMAIN d = 1 .. n + 1
      /\ \A i \in 1 .. n : d[i] = s[i]
      /\ d[n + 1] = m
  OBVIOUS
<1>2. Last(d) = m
  BY <1>1 DEF Last
<1>3. ToSet(d) = ToSet(s) \union {m}
  <2> HIDE DEF d, n
  <2>1. n + 1 \in 1 .. n + 1 /\ 1 .. n + 1 = (1 .. n) \union {n + 1}
    BY <1>1
  <2>2. QED
    BY <1>1, <2>1 DEF ToSet
<1>4. QED
  BY <1>1, <1>2, <1>3

\* A message with a number beyond the others keeps a history in order.
LEMMA AppendInOrder ==
  ASSUME NEW s \in Seq(Message), NEW m \in Message, InOrder(s),
         \A i \in DOMAIN s : s[i].n < m.n
  PROVE  InOrder(Append(s, m))
<1> DEFINE d == Append(s, m)
           n == Len(s)
<1>1. /\ n \in Nat /\ DOMAIN s = 1 .. n /\ DOMAIN d = 1 .. n + 1
      /\ \A i \in 1 .. n : d[i] = s[i]
      /\ d[n + 1] = m
  BY AppendFacts
<1> HIDE DEF d, n
<1>2. ASSUME NEW i \in 1 .. n + 1, NEW j \in 1 .. n + 1, i < j PROVE d[i].n < d[j].n
  <2>1. i \in 1 .. n
    BY <1>1, <1>2
  <2>2. CASE j = n + 1
    BY <1>1, <2>1, <2>2
  <2>3. CASE j # n + 1
    <3>1. j \in 1 .. n
      BY <1>1, <2>3
    <3>2. QED
      BY <1>1, <1>2, <2>1, <3>1 DEF InOrder
  <2>4. QED
    BY <2>2, <2>3
<1>3. QED
  BY <1>1, <1>2 DEF InOrder, d

\* What a history holds are messages, whose numbers are numbers.
LEMMA HistoryTyped ==
  ASSUME NEW s \in Seq(Message)
  PROVE  \A i \in DOMAIN s : s[i] \in Message /\ s[i].n \in Nat /\ s[i].of \in Nat
<1>1. \A i \in DOMAIN s : s[i] \in Message
  OBVIOUS
<1>2. QED
  BY <1>1 DEF Message

\* Outside of the gates, on disk is what fits there.
Fits(m) == m.kind \notin Injected /\ m.n \notin refused

LEMMA StoredFits ==
  ASSUME ~InGate
  PROVE  Stored = {m \in ToSet(messages) : Fits(m)}
  BY DEF Stored, Fits

\* A pushed message has the highest number, and its gate keeps it off the disk.
LEMMA EntersLog ==
  ASSUME TypeOK, LogInv, NEW kind \in Gated, NEW calls \in Batches \union {<<>>},
         Enters(kind, calls)
  PROVE  LogInv'
<1>1. PICK m \in Message : m = Msg(kind, calls, 0, pushed)
  BY MsgIsMessage DEF TypeOK, Gated, Kinds
<1>2. /\ messages' = Append(messages, m) /\ pushed' = pushed + 1
      /\ pc \notin Gates /\ pc' \in Gates /\ UNCHANGED <<log, refused>>
      /\ pc' = "commit_assistant" => kind = "assistant"
      /\ m.kind = kind /\ m.n = pushed
  BY <1>1 DEF Enters, Push, Msg
<1>3. /\ messages \in Seq(Message) /\ pushed \in Nat /\ refused \subseteq Nat
      /\ \A i \in DOMAIN messages : messages[i] \in Message /\ messages[i].n \in Nat
  BY HistoryTyped DEF TypeOK
<1>4. /\ Last(messages') = m /\ ToSet(messages') = ToSet(messages) \union {m}
      /\ \A i \in DOMAIN messages' :
           \/ messages'[i] = m
           \/ i \in DOMAIN messages /\ messages'[i] = messages[i]
  <2>1. /\ DOMAIN messages = 1 .. Len(messages) /\ DOMAIN messages' = 1 .. Len(messages) + 1
        /\ messages'[Len(messages) + 1] = m /\ Len(messages) \in Nat
        /\ \A i \in 1 .. Len(messages) : messages'[i] = messages[i]
        /\ Last(messages') = m /\ ToSet(messages') = ToSet(messages) \union {m}
    BY <1>2, <1>3, AppendFacts
  <2>2. 1 .. Len(messages) + 1 = (1 .. Len(messages)) \union {Len(messages) + 1}
    BY <2>1
  <2>3. ASSUME NEW i \in DOMAIN messages'
        PROVE  \/ messages'[i] = m
               \/ i \in DOMAIN messages /\ messages'[i] = messages[i]
    BY <2>1, <2>2
  <2>4. QED
    BY <2>1, <2>3
<1>5. NumberInv'
  <2>1. \A i \in DOMAIN messages' : messages'[i].n < pushed + 1
    BY <1>2, <1>3, <1>4 DEF LogInv, NumberInv
  <2>2. \A i \in refused : i < pushed + 1
    <3>1. \A i \in refused : i < pushed /\ i \in Nat
      BY <1>3 DEF LogInv, NumberInv
    <3>2. QED
      BY <1>3, <3>1
  <2>3. QED
    BY <1>2, <2>1, <2>2 DEF NumberInv
<1>6. m.n \notin refused /\ m \notin ToSet(messages)
  BY <1>2, <1>3 DEF LogInv, NumberInv, ToSet
<1>7. GateInv'
  BY <1>2, <1>4, <1>6 DEF GateInv
<1>8. Stored' = Stored
  <2>1. Stored = {x \in ToSet(messages) : x.kind \notin Injected /\ x.n \notin refused}
    BY <1>2, StoredFits DEF InGate, Gates, Fits
  <2>2. InGate'
    BY <1>2 DEF InGate, Gates
  <2>3. Stored' = {x \in ToSet(messages) \union {m} :
                     x.kind \notin Injected /\ x.n \notin refused /\ x # m}
    BY <1>2, <1>4, <2>2 DEF Stored
  <2>4. QED
    BY <1>6, <2>1, <2>3
<1>9. InOrder(messages')
  BY <1>2, <1>3, AppendInOrder DEF LogInv, LogIsCommittedPart, NumberInv
<1>10. QED
  BY <1>2, <1>5, <1>7, <1>8, <1>9 DEF LogInv, LogIsCommittedPart

\* Drained messages have the highest numbers and stay off the disk.
LEMMA DrainsLog ==
  ASSUME TypeOK, LogInv, NEW kind \in Injected, NEW k \in Nat, Drains(kind, k)
  PROVE  LogInv'
<1> DEFINE new == [i \in 1 .. k |-> Msg(kind, <<>>, 0, pushed + i - 1)]
           n   == Len(messages)
<1>1. /\ messages' = messages \o new /\ pushed' = pushed + k
      /\ pc \notin Gates /\ pc' \notin Gates /\ UNCHANGED <<log, refused>>
  BY DEF Drains, PushAll
<1>2. /\ messages \in Seq(Message) /\ pushed \in Nat /\ refused \subseteq Nat
      /\ \A i \in DOMAIN messages : messages[i].n \in Nat
  BY HistoryTyped DEF TypeOK
<1>3. /\ \A i \in 1 .. k : new[i].n = pushed + i - 1 /\ new[i].kind = kind
      /\ DOMAIN new = 1 .. k /\ Len(new) = k /\ new \in Seq(Message)
  <2>1. \A i \in 1 .. k : Msg(kind, <<>>, 0, pushed + i - 1) \in Message
    <3> TAKE i \in 1 .. k
    <3>1. pushed + i - 1 \in Nat /\ kind \in Kinds
      BY <1>2 DEF Injected, Kinds
    <3>2. QED
      BY <3>1, MsgIsMessage
  <2>2. new \in Seq(Message) /\ Len(new) = k
    BY <2>1
  <2>3. QED
    BY <2>2 DEF Msg
<1> HIDE DEF new
<1>4. /\ n \in Nat /\ DOMAIN messages = 1 .. n /\ DOMAIN messages' = 1 .. n + k
      /\ \A i \in 1 .. n : messages'[i] = messages[i]
      /\ \A i \in n + 1 .. n + k : messages'[i] = new[i - n]
  BY <1>1, <1>2, <1>3
<1> HIDE DEF n
<1>5. \A i \in 1 .. n + k :
        \/ i \in 1 .. n /\ messages'[i] = messages[i] /\ messages'[i].n < pushed
           /\ messages'[i].n \in Nat
        \/ i \in n + 1 .. n + k /\ messages'[i].n = pushed + (i - n) - 1
           /\ messages'[i].kind = kind
  <2> TAKE i \in 1 .. n + k
  <2>1. CASE i \in 1 .. n
    BY <1>2, <1>4, <2>1 DEF LogInv, NumberInv
  <2>2. CASE i \notin 1 .. n
    <3>1. i \in n + 1 .. n + k /\ i - n \in 1 .. k
      BY <1>4, <2>2
    <3>2. QED
      BY <1>3, <1>4, <3>1
  <2>3. QED
    BY <2>1, <2>2
<1>6. NumberInv'
  <2>1. \A i \in 1 .. n + k : messages'[i].n < pushed + k
    BY <1>2, <1>4, <1>5
  <2>2. QED
    BY <1>1, <1>2, <1>4, <2>1 DEF LogInv, NumberInv
<1>7. GateInv'
  BY <1>1 DEF GateInv, InGate, Gates
<1>8. Stored' = Stored
  <2>1. Stored = {x \in ToSet(messages) : x.kind \notin Injected /\ x.n \notin refused}
    BY <1>1, StoredFits DEF InGate, Gates, Fits
  <2>2. Stored' = {x \in ToSet(messages') : x.kind \notin Injected /\ x.n \notin refused}
    BY <1>1 DEF Stored, InGate, Gates
  <2>3. ASSUME NEW x \in ToSet(messages) PROVE x \in ToSet(messages')
    <3>1. PICK i \in 1 .. n : x = messages[i]
      BY <1>4, <2>3 DEF ToSet
    <3>2. i \in 1 .. n + k
      BY <1>4
    <3>3. QED
      BY <1>4, <3>1, <3>2 DEF ToSet
  <2>4. ASSUME NEW x \in ToSet(messages'), x.kind \notin Injected PROVE x \in ToSet(messages)
    <3>1. PICK i \in 1 .. n + k : x = messages'[i]
      BY <1>4, <2>4 DEF ToSet
    <3>2. QED
      BY <1>4, <1>5, <2>4, <3>1 DEF ToSet
  <2>5. QED
    BY <2>1, <2>2, <2>3, <2>4
<1>9. InOrder(messages')
  <2>1. ASSUME NEW i \in 1 .. n + k, NEW j \in 1 .. n + k, i < j
        PROVE  messages'[i].n < messages'[j].n
    <3>1. CASE j \in 1 .. n
      <4>1. i \in 1 .. n
        BY <1>4, <2>1, <3>1
      <4>2. QED
        BY <1>4, <2>1, <3>1, <4>1 DEF LogInv, LogIsCommittedPart, InOrder
    <3>2. CASE j \in n + 1 .. n + k
      BY SMTT(30), <1>2, <1>4, <1>5, <2>1, <3>2
    <3>3. QED
      BY <1>4, <3>1, <3>2
  <2>2. QED
    BY <1>4, <2>1 DEF InOrder
<1>10. QED
  BY <1>1, <1>6, <1>7, <1>8, <1>9 DEF LogInv, LogIsCommittedPart

\* A message leaves its gate for the disk, or is refused and never gets there.
LEMMA LeavesLog ==
  ASSUME TInv, LogInv, NEW o \in Outcomes, Leaves(o)
  PROVE  LogInv'
<1> DEFINE n == Len(messages)
           m == Last(messages)
<1>1. /\ pc \in Gates /\ pc' \notin Gates /\ UNCHANGED <<messages, pushed>>
      /\ refused' = IF o = "pass" THEN refused ELSE refused \union {m.n}
      /\ log' = IF o = "pass" THEN Append(log, m) ELSE log
  BY DEF Leaves, Commit
<1>2. /\ messages \in Seq(Message) /\ messages # <<>> /\ log \in Seq(Message)
      /\ pushed \in Nat /\ refused \subseteq Nat
  BY <1>1 DEF TInv, TypeOK, LastExists, Gates
<1>3. /\ n \in Nat /\ n > 0 /\ DOMAIN messages = 1 .. n /\ m = messages[n]
      /\ \A i \in 1 .. n : messages[i] \in Message /\ messages[i].n \in Nat
  BY <1>2, HistoryTyped DEF Last
<1> HIDE DEF n, m
<1>4. /\ InOrder(messages) /\ InOrder(log) /\ ToSet(log) = Stored
      /\ \A i \in 1 .. n : messages[i].n < pushed
      /\ \A x \in refused : x < pushed
      /\ m.kind \notin Injected /\ m.n \notin refused
  BY <1>1, <1>3 DEF LogInv, LogIsCommittedPart, NumberInv, GateInv, InGate, Gates, Gated, Injected, m
<1>5. Stored = {x \in ToSet(messages) : x.kind \notin Injected /\ x.n \notin refused /\ x # m}
  BY <1>1 DEF Stored, InGate, Gates, m
<1>6. \A i \in 1 .. n : messages[i] # m => messages[i].n < m.n
  <2> TAKE i \in 1 .. n
  <2> HAVE messages[i] # m
  <2>1. i < n /\ n \in 1 .. n
    BY <1>3
  <2>2. QED
    BY <1>3, <1>4, <2>1 DEF InOrder
<1>7. \A x \in ToSet(messages) : x # m => x.n < m.n
  BY <1>3, <1>6 DEF ToSet
<1>8. NumberInv'
  <2>1. m.n < pushed /\ m.n \in Nat
    BY <1>3, <1>4
  <2>2. QED
    BY <1>1, <1>3, <1>4, <2>1 DEF NumberInv
<1>9. GateInv'
  BY <1>1 DEF GateInv, InGate, Gates
<1>10. Stored' = {x \in ToSet(messages) : x.kind \notin Injected /\ x.n \notin refused'}
  BY <1>1 DEF Stored, InGate, Gates
<1>11. CASE o = "pass"
  <2>1. log' = Append(log, m) /\ refused' = refused
    BY <1>1, <1>11
  <2>2. m \in Message /\ m \in ToSet(messages)
    <3>1. n \in 1 .. n
      BY <1>3
    <3>2. QED
      BY <1>3, <3>1 DEF ToSet
  <2>3. ToSet(log') = ToSet(log) \union {m}
    BY <1>2, <2>1, <2>2, AppendFacts
  <2>4. ToSet(log') = Stored'
    BY <1>4, <1>5, <1>10, <2>1, <2>2, <2>3
  <2>5. \A i \in DOMAIN log : log[i].n < m.n
    <3>1. \A i \in DOMAIN log : log[i] \in ToSet(messages) /\ log[i] # m
      BY <1>4, <1>5 DEF ToSet
    <3>2. QED
      BY <1>7, <3>1
  <2>6. InOrder(log')
    BY <1>2, <1>4, <2>1, <2>2, <2>5, AppendInOrder
  <2>7. QED
    BY <1>1, <1>4, <1>8, <1>9, <2>4, <2>6 DEF LogInv, LogIsCommittedPart
<1>12. CASE o # "pass"
  <2>1. log' = log /\ refused' = refused \union {m.n}
    BY <1>1, <1>12
  <2>2. \A x \in ToSet(messages) : x # m <=> x.n # m.n
    <3> TAKE x \in ToSet(messages)
    <3>1. x # m => x.n < m.n
      BY <1>7
    <3>2. m.n \in Nat
      BY <1>3
    <3>3. QED
      BY <3>1, <3>2
  <2>3. Stored' = Stored
    BY <1>5, <1>10, <2>1, <2>2
  <2>4. QED
    BY <1>1, <1>4, <1>8, <1>9, <2>1, <2>3 DEF LogInv, LogIsCommittedPart
<1>13. QED
  BY <1>11, <1>12

\* What is stored is part of the conversation, so what outnumbers the
\* conversation outnumbers the log.
LEMMA LogNumbers ==
  ASSUME LogInv
  PROVE  \A i \in DOMAIN log : log[i].n < pushed
<1> TAKE i \in DOMAIN log
<1>1. log[i] \in ToSet(messages)
  BY DEF LogInv, LogIsCommittedPart, Stored, ToSet
<1>2. QED
  BY <1>1 DEF LogInv, NumberInv, ToSet

\* A result reaches memory and disk alike.
LEMMA ResultsLog ==
  ASSUME TypeOK, LogInv, NEW k \in Nat, Results(k)
  PROVE  LogInv'
<1>1. PICK m \in Message : m = Msg("tool", <<>>, k, pushed)
  BY MsgIsMessage DEF TypeOK, Kinds
<1>2. /\ messages' = Append(messages, m) /\ log' = Append(log, m) /\ pushed' = pushed + 1
      /\ pc \notin Gates /\ pc' \notin Gates /\ UNCHANGED refused
      /\ m.kind = "tool" /\ m.n = pushed
  BY <1>1 DEF Results, Push, Msg, Gates
<1>3. /\ messages \in Seq(Message) /\ log \in Seq(Message)
      /\ pushed \in Nat /\ refused \subseteq Nat
      /\ \A i \in DOMAIN messages : messages[i].n \in Nat
  BY HistoryTyped DEF TypeOK
<1>4. /\ ToSet(messages') = ToSet(messages) \union {m} /\ ToSet(log') = ToSet(log) \union {m}
  BY <1>2, <1>3, AppendFacts
<1>5. NumberInv'
  <2>1. \A x \in ToSet(messages') : x.n < pushed + 1
    <3>1. \A x \in ToSet(messages) : x.n < pushed /\ x.n \in Nat
      BY <1>3 DEF LogInv, NumberInv, ToSet
    <3>2. QED
      BY <1>2, <1>3, <1>4, <3>1
  <2>2. \A i \in DOMAIN messages' : messages'[i].n < pushed + 1
    BY <2>1 DEF ToSet
  <2>3. \A x \in refused : x < pushed + 1
    <3>1. \A x \in refused : x < pushed /\ x \in Nat
      BY <1>3 DEF LogInv, NumberInv
    <3>2. QED
      BY <1>3, <3>1
  <2>4. QED
    BY <1>2, <2>2, <2>3 DEF NumberInv
<1>6. GateInv'
  BY <1>2 DEF GateInv, InGate, Gates
<1>7. ToSet(log') = Stored'
  <2>1. ToSet(log) = {x \in ToSet(messages) : x.kind \notin Injected /\ x.n \notin refused}
    BY <1>2, StoredFits DEF InGate, Gates, Fits, LogInv, LogIsCommittedPart
  <2>2. Stored' = {x \in ToSet(messages) \union {m} : x.kind \notin Injected /\ x.n \notin refused}
    BY <1>2, <1>4 DEF Stored, InGate, Gates
  <2>3. m.kind \notin Injected /\ m.n \notin refused
    BY <1>2, <1>3 DEF LogInv, NumberInv, Injected
  <2>4. QED
    BY <1>4, <2>1, <2>2, <2>3
<1>8. InOrder(messages')
  BY <1>2, <1>3, AppendInOrder DEF LogInv, LogIsCommittedPart, NumberInv
<1>9. InOrder(log')
  <2>1. \A i \in DOMAIN log : log[i].n < m.n
    BY <1>2, LogNumbers
  <2>2. QED
    BY <1>2, <1>3, <2>1, AppendInOrder DEF LogInv, LogIsCommittedPart
<1>10. QED
  BY <1>5, <1>6, <1>7, <1>8, <1>9 DEF LogInv, LogIsCommittedPart

\* What is read back is what was stored.
LEMMA ResumesLog ==
  ASSUME LogInv, Resumes
  PROVE  LogInv'
<1>1. pc' \notin Gates /\ messages' = log /\ UNCHANGED <<pushed, log, refused>>
  BY DEF Resumes
<1>2. NumberInv'
  BY <1>1, LogNumbers DEF LogInv, NumberInv
<1>3. GateInv'
  BY <1>1 DEF GateInv, InGate, Gates
<1>4. Stored' = {x \in ToSet(log) : x.kind \notin Injected /\ x.n \notin refused}
  BY <1>1 DEF Stored, InGate, Gates
<1>5. \A x \in ToSet(log) : x.kind \notin Injected /\ x.n \notin refused
  BY DEF LogInv, LogIsCommittedPart, Stored
<1>6. QED
  BY <1>1, <1>2, <1>3, <1>4, <1>5 DEF LogInv, LogIsCommittedPart

\* Every step keeps the log what it is.
LEMMA StepLogInv == TInv /\ LogInv /\ [Next]_vars => LogInv'
<1> SUFFICES ASSUME TInv, LogInv, [Next]_vars PROVE LogInv'
  OBVIOUS
<1>1. TypeOK
  BY DEF TInv
<1>2. ASSUME Rests PROVE LogInv'
  <2>1. UNCHANGED <<messages, pushed, log, refused>> /\ (InGate' => InGate /\ pc' = pc)
        /\ InGate' = InGate
    BY <1>2 DEF Rests, InGate, Gates
  <2>2. NumberInv'
    BY <2>1 DEF LogInv, NumberInv
  <2>3. GateInv'
    BY <2>1 DEF LogInv, GateInv
  <2>4. Stored' = Stored
    BY <2>1 DEF Stored
  <2>5. QED
    BY <2>1, <2>2, <2>3, <2>4 DEF LogInv, LogIsCommittedPart
<1>3. QED
  BY <1>1, <1>2, NextMoves, EntersLog, DrainsLog, LeavesLog, ResultsLog, ResumesLog DEF Moves

\* The log is the committed part of the conversation, message for message and
\* in order, whatever hooks refuse, whoever queues and wherever the process is
\* killed.
THEOREM LogCommitted == Spec => []LogIsCommittedPart
<1>1. Init => LogInv
  BY DEF Init, LogInv, NumberInv, GateInv, InGate, LogIsCommittedPart, Stored, InOrder, ToSet
<1>2. LogInv => LogIsCommittedPart
  BY DEF LogInv
<1>3. QED
  BY InitTInv, StepTInv, <1>1, <1>2, StepLogInv, PTL DEF Spec

-----------------------------------------------------------------------------
(* Results and calls. *)

\* ResultsFollowCalls of one history.
Answers(s) ==
  \A i \in DOMAIN s :
    s[i].kind = "tool" =>
      LET a == i - s[i].of
      IN  /\ a \in DOMAIN s
          /\ s[a].kind = "assistant" /\ s[i].of \in DOMAIN s[a].calls
          /\ \A j \in (a + 1) .. i : s[j].kind = "tool" /\ s[j].of = j - a

\* A history that ends in an assistant message with n calls, the first of which
\* are answered, k of them, and not all.
Open(s, n, k) ==
  /\ s # <<>> /\ k < n /\ k < Len(s)
  /\ k = 0 \/ (Last(s).kind = "tool" /\ Last(s).of = k)
  /\ s[Len(s) - k].kind = "assistant" /\ Len(s[Len(s) - k].calls) = n

\* While a batch is being worked on, memory and disk both end in it.
OpenInv ==
  pc \in {"tools", "sequential", "results"} =>
    /\ log # <<>> /\ Last(log) = Last(messages)
    /\ Open(messages, Len(phase), Answered) /\ Open(log, Len(phase), Answered)

AnswersInv == Answers(messages) /\ Answers(log)

\* The call of result i is in message a.
CallIn(s, i, a) ==
  /\ a \in DOMAIN s
  /\ s[a].kind = "assistant" /\ s[i].of \in DOMAIN s[a].calls
  /\ \A j \in (a + 1) .. i : s[j].kind = "tool" /\ s[j].of = j - a

LEMMA CallOf ==
  ASSUME NEW s, Answers(s), NEW i \in DOMAIN s, s[i].kind = "tool"
  PROVE  CallIn(s, i, i - s[i].of)
  BY Zenon DEF Answers, CallIn

\* A message that is no result leaves the results before it where they are.
LEMMA AppendOther ==
  ASSUME NEW s \in Seq(Message), NEW m \in Message, m.kind # "tool", Answers(s)
  PROVE  Answers(Append(s, m))
<1> DEFINE d == Append(s, m)
           n == Len(s)
<1>1. /\ n \in Nat /\ DOMAIN s = 1 .. n /\ DOMAIN d = 1 .. n + 1
      /\ \A i \in 1 .. n : d[i] = s[i]
      /\ d[n + 1] = m
      /\ \A i \in 1 .. n : s[i].of \in Nat
  BY AppendFacts, HistoryTyped
<1> HIDE DEF d, n
<1>2. ASSUME NEW i \in 1 .. n + 1, d[i].kind = "tool"
      PROVE  LET a == i - d[i].of
             IN  /\ a \in 1 .. n + 1
                 /\ d[a].kind = "assistant" /\ d[i].of \in DOMAIN d[a].calls
                 /\ \A j \in (a + 1) .. i : d[j].kind = "tool" /\ d[j].of = j - a
  <2>1. i \in 1 .. n /\ d[i] = s[i]
    BY <1>1, <1>2
  <2>2. PICK a \in 1 .. n :
          /\ a = i - s[i].of
          /\ s[a].kind = "assistant" /\ s[i].of \in DOMAIN s[a].calls
          /\ \A j \in (a + 1) .. i : s[j].kind = "tool" /\ s[j].of = j - a
    BY <1>1, <1>2, <2>1 DEF Answers
  <2>3. d[a] = s[a] /\ \A j \in (a + 1) .. i : j \in 1 .. n /\ d[j] = s[j]
    BY <1>1, <2>1, <2>2
  <2>4. QED
    BY SMTT(30), <1>1, <2>1, <2>2, <2>3
<1>3. QED
  BY <1>1, <1>2 DEF Answers, d

\* Nor do several.
LEMMA AppendOthers ==
  ASSUME NEW s \in Seq(Message), NEW new \in Seq(Message),
         \A i \in DOMAIN new : new[i].kind # "tool", Answers(s)
  PROVE  Answers(s \o new)
<1> DEFINE d == s \o new
           n == Len(s)
           k == Len(new)
<1>1. /\ n \in Nat /\ k \in Nat /\ DOMAIN s = 1 .. n /\ DOMAIN d = 1 .. n + k
      /\ \A i \in 1 .. n : d[i] = s[i]
      /\ \A i \in n + 1 .. n + k : d[i] = new[i - n]
      /\ \A i \in 1 .. n : s[i].of \in Nat
      /\ \A i \in 1 .. k : new[i].kind # "tool"
  BY HistoryTyped
<1> HIDE DEF d, n, k
<1>2. ASSUME NEW i \in 1 .. n + k, d[i].kind = "tool"
      PROVE  LET a == i - d[i].of
             IN  /\ a \in 1 .. n + k
                 /\ d[a].kind = "assistant" /\ d[i].of \in DOMAIN d[a].calls
                 /\ \A j \in (a + 1) .. i : d[j].kind = "tool" /\ d[j].of = j - a
  <2>1. i \in 1 .. n /\ d[i] = s[i]
    <3>1. CASE i \in n + 1 .. n + k
      BY SMTT(30), <1>1, <1>2, <3>1
    <3>2. QED
      BY <1>1, <3>1
  <2>2. PICK a \in 1 .. n :
          /\ a = i - s[i].of
          /\ s[a].kind = "assistant" /\ s[i].of \in DOMAIN s[a].calls
          /\ \A j \in (a + 1) .. i : s[j].kind = "tool" /\ s[j].of = j - a
    <3>1. PICK a : a = i - s[i].of
      OBVIOUS
    <3>2. s[i].kind = "tool" /\ i \in DOMAIN s
      BY <1>1, <1>2, <2>1
    <3>3. CallIn(s, i, i - s[i].of)
      BY <3>2, CallOf
    <3>4. QED
      BY <1>1, <3>1, <3>3 DEF CallIn
  <2>3. d[a] = s[a] /\ \A j \in (a + 1) .. i : j \in 1 .. n /\ d[j] = s[j]
    BY <1>1, <2>1, <2>2
  <2>4. QED
    BY <1>1, <2>1, <2>2, <2>3
<1>3. QED
  BY <1>1, <1>2 DEF Answers, d

\* The next result goes where its call expects it.
LEMMA AppendResult ==
  ASSUME NEW s \in Seq(Message), NEW m \in Message, NEW n \in Nat, NEW k \in Nat,
         Answers(s), Open(s, n, k), m.kind = "tool", m.of = k + 1
  PROVE  /\ Answers(Append(s, m))
         /\ k + 1 < n => Open(Append(s, m), n, k + 1)
<1> DEFINE d == Append(s, m)
           l == Len(s)
           a == l - k
<1>1. /\ l \in Nat /\ DOMAIN s = 1 .. l /\ DOMAIN d = 1 .. l + 1
      /\ \A i \in 1 .. l : d[i] = s[i]
      /\ d[l + 1] = m /\ Last(d) = m /\ d # <<>> /\ Len(d) = l + 1
      /\ \A i \in 1 .. l : s[i] \in Message /\ s[i].of \in Nat
  BY AppendFacts, HistoryTyped
<1>2. /\ k < n /\ k < l /\ (k = 0 \/ (s[l].kind = "tool" /\ s[l].of = k))
      /\ s[a].kind = "assistant" /\ Len(s[a].calls) = n
  BY DEF Open, Last
<1> HIDE DEF d, l
<1>3. a \in 1 .. l /\ d[a] = s[a] /\ l + 1 - (k + 1) = a
  BY <1>1, <1>2
<1>4. DOMAIN s[a].calls = 1 .. n
  <2>1. s[a].calls \in Batches \union {<<>>}
    BY <1>1, <1>3 DEF Message
  <2>2. s[a].calls \in Seq(Modes)
    <3>1. <<>> \in Seq(Modes)
      OBVIOUS
    <3>2. QED
      BY <2>1, <3>1, LoopAssumption
  <2>3. QED
    BY <1>2, <2>2
<1> HIDE DEF a
<1>5. \A j \in (a + 1) .. l : s[j].kind = "tool" /\ s[j].of = j - a
  <2>1. CASE k = 0
    BY <1>1, <1>3, <2>1 DEF a
  <2>2. CASE k # 0
    <3>1. l \in 1 .. l /\ s[l].kind = "tool" /\ a = l - s[l].of
      BY <1>1, <1>2, <2>2 DEF a
    <3>2. QED
      BY <1>1, <3>1 DEF Answers
  <2>3. QED
    BY <2>1, <2>2
<1>6. ASSUME NEW i \in 1 .. l + 1, d[i].kind = "tool"
      PROVE  LET b == i - d[i].of
             IN  /\ b \in 1 .. l + 1
                 /\ d[b].kind = "assistant" /\ d[i].of \in DOMAIN d[b].calls
                 /\ \A j \in (b + 1) .. i : d[j].kind = "tool" /\ d[j].of = j - b
  <2>1. CASE i \in 1 .. l
    <3>1. PICK b \in 1 .. l :
            /\ b = i - s[i].of
            /\ s[b].kind = "assistant" /\ s[i].of \in DOMAIN s[b].calls
            /\ \A j \in (b + 1) .. i : s[j].kind = "tool" /\ s[j].of = j - b
      <4>1. PICK b : b = i - s[i].of
        OBVIOUS
      <4>2. s[i].kind = "tool" /\ i \in DOMAIN s
        BY <1>1, <1>6, <2>1
      <4>3. CallIn(s, i, i - s[i].of)
        BY <4>2, CallOf
      <4>4. QED
        BY <1>1, <4>1, <4>3 DEF CallIn
    <3>2. d[i] = s[i] /\ d[b] = s[b] /\ \A j \in (b + 1) .. i : j \in 1 .. l /\ d[j] = s[j]
      BY SMTT(30), <1>1, <2>1, <3>1
    <3>3. i - d[i].of = b /\ b \in 1 .. l + 1
      BY <1>1, <3>1, <3>2
    <3>4. QED
      BY <3>1, <3>2, <3>3
  <2>2. CASE i = l + 1
    <3>1. d[i] = m /\ i - d[i].of = a /\ d[i].of = k + 1 /\ k + 1 \in 1 .. n
      BY <1>1, <1>2, <1>3, <2>2
    <3>2. ASSUME NEW j \in (a + 1) .. i PROVE d[j].kind = "tool" /\ d[j].of = j - a
      <4>1. CASE j = i
        BY <1>1, <1>2, <1>3, <2>2, <3>1, <4>1 DEF a
      <4>2. CASE j # i
        <5>1. j \in (a + 1) .. l /\ j \in 1 .. l
          BY <1>1, <1>3, <2>2, <4>2
        <5>2. QED
          BY <1>1, <1>5, <5>1
      <4>3. QED
        BY <4>1, <4>2
    <3>3. a \in 1 .. l + 1 /\ d[a].kind = "assistant" /\ d[i].of \in DOMAIN d[a].calls
      BY <1>1, <1>2, <1>3, <1>4, <3>1
    <3>4. QED
      BY <3>1, <3>2, <3>3
  <2>3. QED
    BY <1>1, <2>1, <2>2
<1>7. Answers(d)
  BY <1>1, <1>6 DEF Answers
<1>8. k + 1 < n => Open(d, n, k + 1)
  BY <1>1, <1>2, <1>3 DEF Open
<1>9. QED
  BY <1>7, <1>8 DEF d

\* A step leaves the batch under way alone, or stores its next result, or opens
\* one with the answer just committed.
LEMMA StepOpenInv == TInv /\ LogInv /\ AnswersInv /\ OpenInv /\ [Next]_vars => OpenInv'
<1> SUFFICES ASSUME TInv, LogInv, AnswersInv, OpenInv, [Next]_vars PROVE OpenInv'
  OBVIOUS
<1> DEFINE Working == {"tools", "sequential", "results"}
<1>0. /\ messages \in Seq(Message) /\ log \in Seq(Message) /\ phase \in Seq(CallStates)
      /\ pushed \in Nat
  BY DEF TInv, TypeOK, CallStates
<1>1. CASE pc' \notin Working
  BY <1>1 DEF OpenInv
<1>2. ASSUME pc \in Working, UNCHANGED <<messages, log>>, Len(phase') = Len(phase)
      PROVE  OpenInv'
  BY <1>2 DEF OpenInv, Open, Answered
<1>3. ASSUME CommitAssistant, pc' = "tools" PROVE OpenInv'
  <2>1. PICK o \in Outcomes, post \in Outcomes :
          /\ Commit(o)
          /\ Gate(IF o = "pass" THEN post ELSE o,
                  IF stop = "error" THEN "agent_end"
                  ELSE IF Calls = <<>> THEN "follow_up" ELSE "tools")
    BY <1>3 DEF CommitAssistant
  <2>2. /\ log' = Append(log, Last(messages)) /\ messages' = messages /\ Calls # <<>>
        /\ phase' = [k \in DOMAIN Calls |-> "waiting"] /\ pc = "commit_assistant"
    BY <1>3, <2>1 DEF CommitAssistant, Commit
  <2>3. messages # <<>> /\ Last(messages) \in Message /\ Last(messages).kind = "assistant"
    BY <1>0, <2>2, LastIsMessage DEF TInv, LastExists, LogInv, GateInv, InGate
  <2>4. Calls \in Seq(Modes)
    <3>1. Calls \in Batches \union {<<>>}
      BY <2>3 DEF Message, Calls
    <3>2. <<>> \in Seq(Modes)
      OBVIOUS
    <3>3. QED
      BY <3>1, <3>2, LoopAssumption
  <2>5. Len(phase') = Len(Calls) /\ Len(Calls) \in Nat /\ Len(Calls) > 0
    BY <2>2, <2>4
  <2>6. log' # <<>> /\ Last(log') = Last(messages)
    BY <1>0, <2>2, <2>3, AppendFacts
  <2>7. Answered' = 0
    BY <2>2, <2>3 DEF Answered
  <2>8. Open(messages, Len(phase'), 0)
    <3>1. Len(messages) \in Nat /\ Len(messages) > 0 /\ Len(messages) - 0 = Len(messages)
      BY <1>0, <2>3
    <3>2. QED
      BY <2>3, <2>5, <3>1 DEF Open, Last, Calls
  <2>9. Open(log', Len(phase'), 0)
    <3>1. Len(log') \in Nat /\ Len(log') > 0 /\ Len(log') - 0 = Len(log')
      BY <1>0, <2>2, <2>3, AppendFacts
    <3>2. QED
      BY <2>3, <2>5, <2>6, <3>1 DEF Open, Last, Calls
  <2>10. QED
    BY <2>2, <2>6, <2>7, <2>8, <2>9 DEF OpenInv
<1>4. ASSUME PushResult, pc' = "results" PROVE OpenInv'
  <2>1. Last(messages) \in Message
    BY <1>4, LastIsMessage DEF PushResult, TInv, TypeOK, LastExists
  <2>2. Answered \in Nat
    BY <2>1 DEF Answered, Message
  <2>3. PICK m \in Message : m = Msg("tool", <<>>, Answered + 1, pushed)
    <3>1. PICK k \in Nat : k = Answered + 1
      BY <2>2
    <3>2. Msg("tool", <<>>, k, pushed) \in Message
      BY <1>0, MsgIsMessage DEF Kinds
    <3>3. QED
      BY <3>1, <3>2
  <2>4. /\ messages' = Append(messages, m) /\ log' = Append(log, m)
        /\ Answered + 1 < Len(phase) /\ phase' = phase
        /\ m.kind = "tool" /\ m.of = Answered + 1
    BY <1>4, <2>3 DEF PushResult, Push, Msg
  <2>5. Open(messages, Len(phase), Answered) /\ Open(log, Len(phase), Answered)
    BY <1>4 DEF OpenInv, PushResult
  <2>6. Len(phase) \in Nat
    BY <1>0
  <2>7. Open(messages', Len(phase), Answered + 1) /\ Open(log', Len(phase), Answered + 1)
    BY <1>0, <2>2, <2>4, <2>5, <2>6, AppendResult DEF AnswersInv
  <2>8. Last(messages') = m /\ Last(log') = m /\ log' # <<>>
    BY <1>0, <2>4, AppendFacts
  <2>9. Answered' = Answered + 1
    BY <2>4, <2>8 DEF Answered
  <2>10. QED
    BY <2>4, <2>7, <2>8, <2>9 DEF OpenInv
<1>5. ASSUME NEW k \in DOMAIN phase,
             StartCall(k) \/ PassCall(k) \/ FinishCall(k) \/ FailCall(k)
      PROVE  OpenInv'
  <2>1. pc \in Working /\ UNCHANGED <<messages, log>>
    BY <1>5 DEF StartCall, PassCall, FinishCall, FailCall, Ready
  <2>2. Len(phase') = Len(phase)
    <3>1. PICK v \in CallStates : phase' = [phase EXCEPT ![k] = v]
      BY <1>5 DEF StartCall, PassCall, FinishCall, FailCall, CallStates
    <3>2. QED
      BY <1>0, <3>1, SetState
  <2>3. QED
    BY <1>2, <2>1, <2>2
<1>6. CASE CollectParallel \/ CollectSequential
  BY <1>2, <1>6 DEF CollectParallel, CollectSequential
<1>7. CASE Abort \/ Enqueue \/ UNCHANGED vars
  BY <1>1, <1>2, <1>7 DEF Abort, Enqueue
<1>8. CASE CommitAssistant
  BY <1>1, <1>3, <1>8 DEF CommitAssistant
<1>9. CASE PushResult
  <2>1. pc' \in {"results", "agent_end", "top"}
    BY <1>9 DEF PushResult
  <2>2. QED
    BY <1>1, <1>4, <1>9, <2>1
<1>10. CASE \/ Begin \/ CommitPrompt \/ HitLimit \/ SeeAbort \/ StartTurn \/ Compact
            \/ Summarize \/ CommitMarker \/ Request \/ StreamError \/ Answer \/ FollowUp \/ AgentEnd
            \/ Crash
  <2>1. pc' \notin Working
    BY <1>10 DEF Begin, CommitPrompt, HitLimit, SeeAbort, StartTurn, Compact, Summarize,
                 CommitMarker, Request, StreamError, Answer, FollowUp, AgentEnd, Crash
  <2>2. QED
    BY <1>1, <2>1
<1>11. QED
  BY <1>5, <1>6, <1>7, <1>8, <1>9, <1>10 DEF Next, Driver

\* Every step keeps results behind their calls, in memory and on disk.
LEMMA StepAnswersInv == TInv /\ LogInv /\ AnswersInv /\ OpenInv /\ [Next]_vars => AnswersInv'
<1> SUFFICES ASSUME TInv, LogInv, AnswersInv, OpenInv, [Next]_vars PROVE AnswersInv'
  OBVIOUS
<1>0. messages \in Seq(Message) /\ log \in Seq(Message) /\ pushed \in Nat /\ TypeOK
      /\ phase \in Seq(CallStates)
  BY DEF TInv, TypeOK, CallStates
<1>1. CASE Rests \/ Resumes
  BY <1>1 DEF Rests, Resumes, AnswersInv
<1>2. ASSUME NEW kind \in Gated, NEW calls \in Batches \union {<<>>}, Enters(kind, calls)
      PROVE  AnswersInv'
  <2>1. PICK m \in Message : m = Msg(kind, calls, 0, pushed)
    BY <1>0, MsgIsMessage DEF Gated, Kinds
  <2>2. messages' = Append(messages, m) /\ log' = log /\ m.kind # "tool"
    BY <1>2, <2>1 DEF Enters, Push, Msg, Gated
  <2>3. QED
    BY <1>0, <2>2, AppendOther DEF AnswersInv
<1>3. ASSUME NEW o \in Outcomes, Leaves(o) PROVE AnswersInv'
  <2>1. /\ pc \in Gates /\ messages' = messages
        /\ log' = IF o = "pass" THEN Append(log, Last(messages)) ELSE log
    BY <1>3 DEF Leaves, Commit
  <2>2. Last(messages) \in Message /\ Last(messages).kind # "tool"
    BY <1>0, <2>1, LastIsMessage
    DEF TInv, LastExists, LogInv, GateInv, InGate, Gates, Gated
  <2>3. QED
    BY <1>0, <2>1, <2>2, AppendOther DEF AnswersInv
<1>4. ASSUME NEW kind \in Injected, NEW k \in Nat, Drains(kind, k) PROVE AnswersInv'
  <2>1. /\ messages' = messages \o [i \in 1 .. k |-> Msg(kind, <<>>, 0, pushed + i - 1)]
        /\ log' = log
    BY <1>4 DEF Drains, PushAll
  <2>2. \A i \in 1 .. k : /\ Msg(kind, <<>>, 0, pushed + i - 1) \in Message
                         /\ Msg(kind, <<>>, 0, pushed + i - 1).kind # "tool"
    <3> TAKE i \in 1 .. k
    <3>1. pushed + i - 1 \in Nat /\ kind \in Kinds /\ kind # "tool"
      BY <1>0 DEF Injected, Kinds
    <3>2. QED
      BY <3>1, MsgIsMessage DEF Msg
  <2> DEFINE new == [i \in 1 .. k |-> Msg(kind, <<>>, 0, pushed + i - 1)]
  <2>3. new \in Seq(Message) /\ \A i \in DOMAIN new : new[i].kind # "tool"
    BY <2>2
  <2> HIDE DEF new
  <2>4. messages' = messages \o new
    BY <2>1 DEF new
  <2>5. QED
    BY <1>0, <2>1, <2>3, <2>4, AppendOthers DEF AnswersInv
<1>5. ASSUME NEW k \in Nat, Results(k) PROVE AnswersInv'
  <2>1. PICK m \in Message : m = Msg("tool", <<>>, k, pushed)
    BY <1>0, MsgIsMessage DEF Kinds
  <2>2. Last(messages) \in Message
    BY <1>0, <1>5, LastIsMessage DEF Results, TInv, LastExists
  <2>3. Answered \in Nat /\ Len(phase) \in Nat
    BY <1>0, <2>2 DEF Answered, Message
  <2>4. /\ messages' = Append(messages, m) /\ log' = Append(log, m)
        /\ m.kind = "tool" /\ m.of = Answered + 1
    BY <1>5, <2>1 DEF Results, Push, Msg
  <2>5. Open(messages, Len(phase), Answered) /\ Open(log, Len(phase), Answered)
    BY <1>5 DEF OpenInv, Results
  <2>6. QED
    BY <1>0, <2>3, <2>4, <2>5, AppendResult DEF AnswersInv
<1>6. QED
  BY <1>1, <1>2, <1>3, <1>4, <1>5, NextMoves DEF Moves

\* The k-th result after an assistant message answers its k-th call, in memory
\* and on disk, for any lists of calls, in whatever order they end, and wherever
\* hooks, aborts and kills cut in.
THEOREM ResultsAnswer == Spec => []ResultsFollowCalls
<1>1. Init => AnswersInv /\ OpenInv /\ LogInv
  BY DEF Init, AnswersInv, Answers, OpenInv, LogInv, NumberInv, GateInv, InGate,
         LogIsCommittedPart, Stored, InOrder, ToSet
<1>2. AnswersInv => ResultsFollowCalls
  BY DEF AnswersInv, Answers, ResultsFollowCalls
<1>3. QED
  BY InitTInv, StepTInv, <1>1, <1>2, StepLogInv, StepOpenInv, StepAnswersInv, PTL DEF Spec

=============================================================================
