------------------------------- MODULE Agents -------------------------------
(***************************************************************************)
(* What the ACP server loads when it starts: the agent definitions of      *)
(* hivecore-config and the skills of hivecore-skills, and the tools that   *)
(* follow from them for a session's agent and for the agent a skill        *)
(* delegates to.  A file is a record of what the loaders read from it.     *)
(***************************************************************************)
EXTENDS Naturals, Sequences, FiniteSets, SequencesExt

CONSTANTS
  AgentFiles,    \* the *.toml files: the shipped ones, then the user's
  DefaultAgent,  \* HIVECORE_AGENT
  SkillFiles,    \* the *.md files of HIVECORE_SKILL_DIR
  BuiltinTools,  \* names of default_set()
  None

\* readable: the file parses, its id, provider, model and prompt are fine.
\* only: the skills policy, a set of names or None for "*".
Agent == [id : STRING, readable : BOOLEAN, mode : {"all", "allowlist", "denylist"},
          list : SUBSET STRING, only : {None} \union SUBSET STRING,
          max_iterations : Nat]

AgentLoads(f) ==
  f.readable /\ ~(f.mode = "all" /\ f.list # {}) /\ f.max_iterations >= 1

\* skill: the file has frontmatter, otherwise it is passed over; agent: the
\* agent the skill delegates to, or None.
Skill == [skill : BOOLEAN, readable : BOOLEAN, name : STRING, model : BOOLEAN,
          agent : {None} \union STRING]

\* insert refuses a name that is taken.
Unique(names) == IsInjective(names)

Skills == SelectSeq(SkillFiles, LAMBDA f : f.skill)

\* ServerState::new: one bad file or one name used twice, and there is no
\* server; nor is there without any agent.
Boots ==
  /\ AgentFiles # <<>>
  /\ \A i \in DOMAIN AgentFiles : AgentLoads(AgentFiles[i])
  /\ Unique([i \in DOMAIN AgentFiles |-> AgentFiles[i].id])
  /\ \A i \in DOMAIN Skills : Skills[i].readable
  /\ Unique([i \in DOMAIN Skills |-> Skills[i].name])

ASSUME BootAssumption ==
  /\ None \notin STRING
  /\ AgentFiles \in Seq(Agent) /\ SkillFiles \in Seq(Skill)
  /\ Boots

AgentIds == {f.id : f \in ToSet(AgentFiles)}
AgentOf(id) == CHOOSE f \in ToSet(AgentFiles) : f.id = id
SkillOf(name) == CHOOSE f \in ToSet(Skills) : f.name = name

\* get(default).or_else(first).
SessionAgent ==
  IF DefaultAgent \in AgentIds THEN AgentOf(DefaultAgent) ELSE AgentFiles[1]

Allows(agent, name) ==
  CASE agent.mode = "all" -> TRUE
    [] agent.mode = "allowlist" -> name \in agent.list
    [] agent.mode = "denylist" -> name \notin agent.list

AllowsSkill(agent, name) == agent.only = None \/ name \in agent.only

\* filter_tools.
ToolsOf(agent) == {t \in BuiltinTools : Allows(agent, t)}

\* model_invokable_tools_with_router, gated by the agent's policy.
SkillsOf(agent) ==
  {f.name : f \in {g \in ToSet(Skills) : g.model /\ AllowsSkill(agent, g.name)}}

SessionTools == ToolsOf(SessionAgent) \union SkillsOf(SessionAgent)
=============================================================================
