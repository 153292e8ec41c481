---------------------------- MODULE MCAcpServer -----------------------------
(* Small instances of AcpServer for TLC. *)
EXTENDS AcpServer

File(id, mode, list, limit) ==
  [id |-> id, readable |-> TRUE, mode |-> mode, list |-> list, only |-> None,
   max_iterations |-> limit]

\* The agent of the sessions may not write files; the explorer may only read.
SmallAgents ==
  <<File("default", "denylist", {"write_file", "edit_file"}, 2),
    File("explore", "allowlist", {"read_file", "grep"}, 1)>>

SkillFile(name, agent) ==
  [skill |-> TRUE, readable |-> TRUE, name |-> name, model |-> TRUE, agent |-> agent]

SmallSkills ==
  <<SkillFile("survey", "explore"), SkillFile("lost", "nobody"),
    [SkillFile("hidden", "explore") EXCEPT !.model = FALSE],
    [SkillFile("readme", None) EXCEPT !.skill = FALSE]>>

R(stop, calls) == [stop |-> stop, calls |-> calls]

SmallReplies ==
  {R("EndTurn", <<>>), R("ToolUse", <<"bash">>), R("ToolUse", <<"survey", "bash">>),
   R("MaxTokens", <<"bash">>), R("failed", <<>>)}
=============================================================================
