SPECIFICATION Spec
CONSTANTS
  None = None
  AgentFiles <- SmallAgents
  DefaultAgent = "default"
  SkillFiles <- SmallSkills
  BuiltinTools = {"read_file", "write_file", "edit_file", "bash", "grep"}
  Sessions = {"s1", "s2"}
  Replies <- SmallReplies
  MaxPrompts = 2
  MaxOthers = 1
INVARIANTS
  TypeOK
  SessionsApart
PROPERTY
  EveryPromptIsAnswered
\* The client may send nothing more.
CHECK_DEADLOCK FALSE
