----------------------------- MODULE MCToolGate -----------------------------
(* Small instances of ToolGate for TLC. *)
EXTENDS ToolGate

Req(name) == [name |-> name, server |-> "git", raw |-> "look",
              parses |-> TRUE, object |-> TRUE]
McpCall(s, raw) == [Req("mcp_call") EXCEPT !.server = s, !.raw = raw]

SmallRequests ==
  {Req("bash"), Req("browser_act"), Req("grep"), Req("mcp_discover"),
   [Req("mcp_discover") EXCEPT !.server = "web"],
   McpCall("git", "look"), McpCall("git", "push"),
   [McpCall("git", "look") EXCEPT !.object = FALSE],
   McpCall("web", "look")}

Cfg(trust, deny) ==
  [enabled |-> TRUE, stdio |-> TRUE, trust |-> trust, allow |-> {}, deny |-> deny,
   approval |-> [t \in RawTools |-> IF t = "look" THEN "always" ELSE "on_request"]]

\* The user knows web and would not trust git; the workspace does trust git,
\* except with push.
SmallUserFile == [s \in {"git", "web"} |-> Cfg(FALSE, {})]
SmallWorkspaceFile == [s \in {"git"} |-> Cfg(TRUE, {"push"})]

\* Each server has one read-only tool to show and one it says less of.
SmallHints ==
  {[t \in Tools |-> CASE t[2] = "look" -> "read_only"
                      [] t = <<"git", "push">> -> "other"
                      [] OTHER -> "absent"]}

SmallChanging == {t \in Tools : t[2] = "look"}

\* The coder's hook, and hooks that ask about MCP calls.
SmallHooks ==
  {[policy |-> p, rules |-> CoderDefaults] : p \in {"OnRequest", "Never"}} \union
  {[policy |-> p, rules |-> [n \in {"mcp_call"} |-> "Ask"]] :
     p \in {"OnRequest", "UnlessTrusted", "FailOnAsk"}}
=============================================================================
