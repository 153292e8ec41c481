------------------------------ MODULE Approval ------------------------------
(***************************************************************************)
(* The decisions of hivecore-tool-policy, as operators: what ApprovalHook  *)
(* lets pass, refuses or asks about, what it makes of an answer, and how   *)
(* the two front ends (terminal, ACP client) turn input into an answer.    *)
(***************************************************************************)
EXTENDS Naturals, FiniteSets

Policies  == {"OnRequest", "UnlessTrusted", "Never", "FailOnAsk"}
Verdicts  == {"Allow", "Ask", "Deny"}
Decisions == {"Approved", "ApprovedForSession", "ApprovedAndPersist",
              "Denied", "TimedOut", "Abort", "Cancelled"}
Outcomes  == {"Pass", "FailedContinue", "ManualAttention"}

\* ToolNameMatcher: rules by tool name, everything else is allowed.
CoderDefaults == [n \in {"bash", "write_file", "edit_file"} |-> "Ask"]

Classify(rules, name) == IF name \in DOMAIN rules THEN rules[name] ELSE "Allow"

\* What before() answers without a question, or "Ask".  readOnly: the hint of
\* the risk augmenter is read_only == Some(true); approved: the session cache.
Before(policy, rules, name, readOnly, approved) ==
  LET verdict == Classify(rules, name)
  IN  IF verdict = "Allow" THEN "Pass"
      ELSE IF verdict = "Deny" \/ policy \in {"Never", "FailOnAsk"} THEN "FailedContinue"
      ELSE IF (policy = "UnlessTrusted" /\ readOnly) \/ name \in approved THEN "Pass"
      ELSE "Ask"

Consent == {"Approved", "ApprovedAndPersist", "ApprovedForSession"}

OutcomeOf(decision) ==
  CASE decision \in Consent -> "Pass"
    [] decision \in {"Denied", "TimedOut"} -> "FailedContinue"
    [] decision \in {"Abort", "Cancelled"} -> "ManualAttention"

\* Slips: every consent is remembered; the answer is the key.
RememberAll(decision, name, approved) ==
  IF decision \in Consent THEN approved \union {name} ELSE approved

RememberAnswer(decision, name, approved) ==
  IF decision = "ApprovedForSession" THEN approved \union {decision} ELSE approved

\* The session cache is keyed by the tool's name, whatever its input.
Remember(decision, name, approved) ==
  IF decision = "ApprovedForSession" THEN approved \union {name} ELSE approved

\* CliPrompter: the first character of the line that was typed; an empty line
\* and the end of the input are refusals, an unreadable input aborts.
Keys == {"a", "y", "s", "q", "other", "none", "unreadable"}

CliDecision(key) ==
  CASE key \in {"a", "y"} -> "Approved"
    [] key = "s" -> "ApprovedForSession"
    [] key \in {"q", "unreadable"} -> "Abort"
    [] OTHER -> "Denied"

\* AcpPrompter: the option the client selected, its cancellation, or the
\* failure of the request.
Options == {"allow_once", "allow_session", "reject_once", "reject_always",
            "unknown_option", "cancelled", "unknown_outcome", "failed"}

AcpDecision(option) ==
  CASE option = "allow_once" -> "Approved"
    [] option = "allow_session" -> "ApprovedForSession"
    [] option \in {"reject_once", "reject_always", "unknown_option"} -> "Denied"
    [] OTHER -> "Cancelled"
=============================================================================
