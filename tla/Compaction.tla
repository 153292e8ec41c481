----------------------------- MODULE Compaction -----------------------------
(***************************************************************************)
(* What of a conversation reaches the model: SummarizingTransform of       *)
(* hivecore-compaction (where to cut, when to compact, what to send in     *)
(* place of the head) and the request builder of hivecore-openai-adapter.  *)
(* Operators over a sequence of messages; ModelTurn runs them.             *)
(*                                                                         *)
(* A message keeps its kind, its number, for an assistant message the      *)
(* calls it makes, for a tool result the call it answers, and for a marker *)
(* or the summary made from it the two ids its payload records.  The text  *)
(* of a message is not modelled: its size is, as the unit of Tokens.       *)
(***************************************************************************)
EXTENDS Naturals, Sequences, FiniteSets, SequencesExt

CONSTANTS
  Threshold,          \* threshold_tokens()
  RecentTurnsToKeep,  \* recent_turns_to_keep
  MinTurnsToKeep      \* min_turns_to_keep

ASSUME CompactionAssumption ==
  /\ Threshold \in Nat
  /\ RecentTurnsToKeep \in Nat
  /\ MinTurnsToKeep \in Nat

Kinds == {"user", "assistant", "tool", "marker", "summary"}

\* No call, no id: what the fields of a message that has none hold.
None == 0

Message(kind, id, calls, of, covers, kept) ==
  [kind |-> kind, id |-> id, calls |-> calls, of |-> of, covers |-> covers, kept |-> kept]

User(id)             == Message("user", id, <<>>, None, None, None)
Assistant(id, calls) == Message("assistant", id, calls, None, None, None)
ToolResult(id, of)   == Message("tool", id, <<>>, of, None, None)

\* The messages of these kinds, in order.
OfKinds(s, kinds) ==
  FoldLeft(LAMBDA t, m : IF m.kind \in kinds THEN Append(t, m) ELSE t, <<>>, s)

\* A marker is the one Custom message the program makes; it is never visible.
VisibleKinds == Kinds \ {"marker"}
VisibleToModel(m) == m.kind \in VisibleKinds
Visible(s) == OfKinds(s, VisibleKinds)

IsTurn(m) == m.kind \in {"user", "assistant"}
Users(s) == OfKinds(s, {"user"})
IsMarker(m) == m.kind = "marker"

\* estimate_tokens: one unit a visible message, and the nominal cost of a call.
EstimateTokens(s) ==
  FoldLeft(LAMBDA n, m : n + 1 + Len(m.calls), 0, Visible(s))

\* threshold_tokens, of the window without its reserve.  (At the critical level
\* too a marker is made; only its trigger says so.)
OverThreshold(s) == EstimateTokens(s) >= Threshold

\* How many turns pick_cut keeps: it counts the last one before it looks at
\* the setting, so that zero is one.
KeptTurns == IF RecentTurnsToKeep = 0 THEN 1 ELSE RecentTurnsToKeep

\* The turns (user and assistant messages) from position i on.
TurnsFrom(s, i) == Cardinality({j \in i .. Len(s) : IsTurn(s[j])})

\* pick_cut: where the kept tail starts, so that KeptTurns turns are in it; no
\* element when the conversation is too short, when nothing would be summarised
\* or when nothing of the head is visible.
PickCut(s) ==
  {i \in 2 .. Len(s) : /\ IsTurn(s[i]) /\ TurnsFrom(s, i) = KeptTurns
                       /\ Len(s) > MinTurnsToKeep
                       /\ \E j \in 1 .. i - 1 : VisibleToModel(s[j])}

\* Slip: the results of tools at the end of the head are forgotten.
SerializeHeadTurns(s, i) == OfKinds(SubSeq(s, 1, i - 1), {"user", "assistant"})

\* serialize_head: the messages whose text the summariser is given.
SerializeHead(s, i) == Visible(SubSeq(s, 1, i - 1))

\* The marker for cut i: the last visible message it folds away, the first
\* one it means to keep.
CompactionMarker(s, i, id) ==
  Message("marker", id, <<>>, None, Last(SerializeHead(s, i)).id, s[i].id)

\* maybe_compact up to the summariser call: the cut it would make, if any.
CompactAt(s) == IF OverThreshold(s) THEN PickCut(s) ELSE {}

\* The synthetic assistant message with the marker's summary.
Summary(m) == [m EXCEPT !.kind = "summary"]

\* Slips: only the user messages since the previous marker are kept; tool
\* results outlive their calls.
TransformOutgoingRecent(s) ==
  LET k    == SelectLastInSeq(s, IsMarker)
      from == SelectLastInSubSeq(s, 1, k - 1, IsMarker)
  IN  IF k = 0 THEN Visible(s)
      ELSE Users(SubSeq(s, from + 1, k - 1)) \o <<Summary(s[k])>>
             \o Visible(SubSeq(s, k + 1, Len(s)))

TransformOutgoingTools(s) ==
  LET k == SelectLastInSeq(s, IsMarker)
  IN  IF k = 0 THEN Visible(s)
      ELSE OfKinds(SubSeq(s, 1, k - 1), {"user", "tool"})
             \o <<Summary(s[k])>> \o Visible(SubSeq(s, k + 1, Len(s)))

\* transform_outgoing: without a marker, what is visible; with one, the user
\* messages before the latest, its summary, what is visible after it.
TransformOutgoing(s) ==
  LET k == SelectLastInSeq(s, IsMarker)
  IN  IF k = 0 THEN Visible(s)
      ELSE Users(SubSeq(s, 1, k - 1)) \o <<Summary(s[k])>>
             \o Visible(SubSeq(s, k + 1, Len(s)))

\* message_to_wire: the role a message takes, its calls or the call it answers.
MessageToWire(m) ==
  [role  |-> IF m.kind = "summary" THEN "assistant" ELSE m.kind,
   id    |-> m.id, calls |-> m.calls, of |-> m.of]

\* build_request, after its system message.
BuildRequest(s) == [i \in DOMAIN Visible(s) |-> MessageToWire(Visible(s)[i])]
=============================================================================
