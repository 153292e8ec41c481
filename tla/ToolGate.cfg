SPECIFICATION Spec
CONSTANTS
  Servers = {"git", "web"}
  RawTools = {"look", "push"}
  Calls = {1, 2}
  None = None
  UserFile <- SmallUserFile
  WorkspaceFile <- SmallWorkspaceFile
  FirstHints <- SmallHints
  Changing <- SmallChanging
  Hooks <- SmallHooks
  AllTools = {"bash", "read_file", "grep", "browser_act", "mcp_discover", "mcp_call"}
  RoleTools = None
  Excluded = {"grep"}
  Requests <- SmallRequests
  MaxBatches = 2
  MaxChanges = 1
INVARIANTS
  TypeOK
  RunsWithConsent
  TogetherOnlyIfHarmless
  FirstContactOnly
  EndNamesItsStart
PROPERTY
  McpCallEnds
\* The run is over, or may stay idle.
CHECK_DEADLOCK FALSE
