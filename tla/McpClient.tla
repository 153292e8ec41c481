----------------------------- MODULE McpClient -----------------------------
(***************************************************************************)
(* hivecore-mcp-client: the layered configuration, the cache of server     *)
(* connections, the cache of tool annotations, and the work of mcp_call    *)
(* and mcp_discover from one await to the next.  A connection is named by  *)
(* its server and its number: each one is a child process of its own.      *)
(*                                                                         *)
(* The servers are the environment: they may die, and may change what they *)
(* say of their tools, at any time.                                        *)
(***************************************************************************)
EXTENDS Naturals, Sequences, FiniteSets, Functions

CONSTANTS
  Servers,   \* the names the model may ask for
  RawTools,  \* the server-native tool names it may ask for
  Calls,     \* the places of a batch of tool calls
  UserFile, WorkspaceFile,  \* the servers of the two mcp.toml files
  None

\* What a server says of a tool: no annotations, or with a read_only_hint of
\* true, or with any other.
Hints == {"absent", "read_only", "other"}

\* enabled, stdio: the server may be started; trust: trust_annotations; allow
\* and deny: enabled_tools and disabled_tools; approval: the approval mode of
\* each tool, its own or the server's default_approval_mode.
ApprovalModes == {"always", "never", "on_request"}
ServerConfig == [enabled : BOOLEAN, stdio : BOOLEAN, trust : BOOLEAN,
                 allow : SUBSET RawTools, deny : SUBSET RawTools,
                 approval : [RawTools -> ApprovalModes]]

ASSUME McpAssumption ==
  /\ None \notin Nat
  /\ \A f \in {UserFile, WorkspaceFile} :
       DOMAIN f \subseteq Servers /\ \A s \in DOMAIN f : f[s] \in ServerConfig

\* merge: a server of the workspace's file replaces the user's entry whole.
\* (A file that is missing or does not parse counts as an empty one.)
Layered(user, workspace) ==
  [s \in DOMAIN user \union DOMAIN workspace |->
     IF s \in DOMAIN workspace THEN workspace[s] ELSE user[s]]

config == Layered(UserFile, WorkspaceFile)

\* effective_approval_mode, which nothing in the code asks for.
ApprovalMode(s, raw) == config[s].approval[raw]

Allowed(cfg, raw) == raw \notin cfg.deny /\ (cfg.allow = {} \/ raw \in cfg.allow)

VARIABLES
  cached,       \* ConnectionCache: None or the number of a connection
  spawned,      \* the batch each process of a server was started in
  alive,        \* the connections whose process answers
  annotations,  \* AnnotationCache
  native,       \* what the servers say of their tools now
  announced,    \* history: the tools a trusted server last called read-only
  link          \* what a call waits for, and on which connection

mcp == <<cached, spawned, alive, annotations, native, announced, link>>

Tools == Servers \X RawTools
Off   == [at |-> "off", conn |-> None]
Conn(s, n) == <<s, n>>

\* hints: what the servers may say of their tools at first.
McpInit(hints) ==
  /\ cached = [s \in Servers |-> None]
  /\ spawned = [s \in Servers |-> <<>>]
  /\ alive = {}
  /\ annotations = [t \in Tools |-> "absent"]
  /\ native \in hints
  /\ announced = {}
  /\ link = [c \in Calls |-> Off]

\* A trusted server's read_only_hint is true, as far as the cache knows.
Trusted(s) == s \in DOMAIN config /\ config[s].trust
ReadOnly(req) ==
  /\ req.name = "mcp_call" /\ req.parses
  /\ Trusted(req.server)
  /\ annotations[<<req.server, req.raw>>] = "read_only"

\* Tools that say themselves that they are sequential: the built-in ones that
\* change something, and the browser's, which share one page.
BrowserTools ==
  {"browser_session", "browser_navigate", "browser_snapshot", "browser_act",
   "browser_wait", "browser_assert", "browser_screenshot"}
SideEffects == {"bash", "write_file", "edit_file"} \union BrowserTools

\* execution_mode_for: tools with side effects are sequential, an mcp_call
\* unless its tool is known to be read-only; the others (files read and
\* searched, mcp_servers, mcp_discover) keep the default.
Mode(req) ==
  CASE req.name \in SideEffects -> "sequential"
    [] req.name = "mcp_call" -> IF ReadOnly(req) THEN "parallel" ELSE "sequential"
    [] OTHER -> "parallel"

Linked(req, n) ==
  IF req.name = "mcp_discover" THEN [at |-> "listing", conn |-> Conn(req.server, n)]
  ELSE IF req.object THEN [at |-> "calling", conn |-> Conn(req.server, n)]
  ELSE Off  \* arguments must be a JSON object

\* Not answered on the spot: the input parses, the server is known, mcp_call
\* finds the tool allowed, and there is either a connection and the arguments
\* are an object, or the server is enabled and on stdio.
Accepted(req) ==
  /\ req.parses /\ req.server \in DOMAIN config
  /\ LET cfg == config[req.server]
     IN  /\ req.name = "mcp_call" => Allowed(cfg, req.raw)
         /\ IF cached[req.server] = None
            THEN cfg.enabled /\ cfg.stdio
            ELSE Linked(req, cached[req.server]) # Off

\* get_or_connect: the cached connection, whatever its state, or a new one.
Reach(c, req) ==
  /\ link[c] = Off /\ Accepted(req)
  /\ link' = [link EXCEPT ![c] =
       IF cached[req.server] = None THEN [at |-> "connecting", conn |-> None]
       ELSE Linked(req, cached[req.server])]
  /\ UNCHANGED <<cached, spawned, alive, annotations, native, announced>>

\* Slip: the new connection is not kept.
ConnectedUncached(c, req, batchNo) ==
  LET s == req.server
      n == Len(spawned[s]) + 1
  IN  /\ link[c].at = "connecting"
      /\ spawned' = [spawned EXCEPT ![s] = Append(@, batchNo)]
      /\ alive' = alive \union {Conn(s, n)}
      /\ link' = [link EXCEPT ![c] = Linked(req, n)]
      /\ UNCHANGED <<cached, annotations, native, announced>>

\* The server has started and shaken hands: its connection is cached in the
\* place of any that came first, and the request goes out.
Connected(c, req, batchNo) ==
  LET s == req.server
      n == Len(spawned[s]) + 1
  IN  /\ link[c].at = "connecting"
      /\ spawned' = [spawned EXCEPT ![s] = Append(@, batchNo)]
      /\ alive' = alive \union {Conn(s, n)}
      /\ cached' = [cached EXCEPT ![s] = n]
      /\ link' = [link EXCEPT ![c] = Linked(req, n)]
      /\ UNCHANGED <<annotations, native, announced>>

Drop(c) ==
  /\ link' = [link EXCEPT ![c] = Off]
  /\ UNCHANGED <<cached, spawned, alive, native>>

\* An unresolved variable, a failed spawn or handshake, or startup_timeout_sec.
ConnectFails(c) ==
  link[c].at = "connecting" /\ Drop(c) /\ UNCHANGED <<annotations, announced>>

\* The server's answer to tools/call.
Answered(c) ==
  /\ link[c].at = "calling" /\ link[c].conn \in alive
  /\ Drop(c) /\ UNCHANGED <<annotations, announced>>

\* The request cannot be sent, or its process dies first.
CallFails(c) ==
  /\ link[c].at \in {"calling", "listing"} /\ link[c].conn \notin alive
  /\ Drop(c) /\ UNCHANGED <<annotations, announced>>

\* Slip: no timeout of its own; a process that died is noticed.
CallTimesOutNever(c) == link[c].at = "calling" /\ CallFails(c)

\* tool_timeout_sec; tools/list has no timeout.
CallTimesOut(c) ==
  /\ link[c].at = "calling"
  /\ Drop(c) /\ UNCHANGED <<annotations, announced>>

Heard(s) == {t \in Tools : t[1] = s /\ native[t] # "absent"}

\* Slip: an entry of the cache is never replaced.
ListedOnce(c, req) ==
  LET heard == Heard(req.server)
  IN  /\ link[c].at = "listing" /\ link[c].conn \in alive
      /\ annotations' = [t \in Tools |->
           IF t \in heard /\ annotations[t] = "absent" THEN native[t] ELSE annotations[t]]
      /\ announced' = (announced \ heard) \union
           {t \in heard : native[t] = "read_only" /\ Trusted(req.server)}
      /\ Drop(c)

\* The server's answer to tools/list: every tool that has annotations gets an
\* entry; nothing is ever removed.
Listed(c, req) ==
  LET heard == Heard(req.server)
  IN  /\ link[c].at = "listing" /\ link[c].conn \in alive
      /\ annotations' =
           [t \in Tools |-> IF t \in heard THEN native[t] ELSE annotations[t]]
      /\ announced' = (announced \ heard) \union
           {t \in heard : native[t] = "read_only" /\ Trusted(req.server)}
      /\ Drop(c)

ServerDies(conn) ==
  /\ conn \in alive
  /\ alive' = alive \ {conn}
  /\ UNCHANGED <<cached, spawned, annotations, native, announced, link>>

ServerChanges(t, hint) ==
  /\ native[t] # hint
  /\ native' = [native EXCEPT ![t] = hint]
  /\ UNCHANGED <<cached, spawned, alive, annotations, announced, link>>

Links == [at : {"off", "connecting", "calling", "listing"},
          conn : {None} \union Servers \X Nat]

McpTypeOK ==
  /\ spawned \in [Servers -> Seq(Nat)]
  /\ cached \in [Servers -> Nat \union {None}]
  /\ \A s \in Servers : cached[s] \in {None} \union DOMAIN spawned[s]
  /\ \A conn \in alive : conn[1] \in Servers /\ conn[2] \in DOMAIN spawned[conn[1]]
  /\ annotations \in [Tools -> Hints] /\ native \in [Tools -> Hints]
  /\ announced \subseteq Tools
  /\ link \in [Calls -> Links]
=============================================================================
