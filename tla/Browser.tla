------------------------------ MODULE Browser ------------------------------
(***************************************************************************)
(* The browser tools: BrowserHarness (hivecore-browser-harness) over       *)
(* ChromeProvider (hivecore-browser-runtime).  Agents are concurrent       *)
(* callers of the tools.  An agent's harness belongs to a tenant and knows *)
(* sessions by name; the provider, shared by all harnesses, keeps a page,  *)
(* a snapshot version and the last snapshot's elements per session.        *)
(* Snapshots stamp the page's elements with refs @v<N>:e<id>, and act      *)
(* finds its element by that stamp.                                        *)
(*                                                                         *)
(* What runs under the provider's lock is one action, except where the     *)
(* code lets go of it: act checks, finds, performs and takes its snapshot  *)
(* in four.  Pages change on their own at any time.                        *)
(***************************************************************************)
EXTENDS Naturals, FiniteSets

CONSTANTS
  Agents, Harnesses, Tenants,
  Names,        \* session names the agents use
  Deployments,  \* who has which harness, and for which tenant
  NumElems,     \* actionable elements of a document, in document order
  Shadow,       \* the ones inside shadow roots: the walk comes to them last
  Limit,        \* LIMIT of the walk
  Nobody,       \* no agent, no name, no tenant
  MaxCalls,     \* bound: tool calls
  MaxPages,     \* bound: launched browsers
  MaxChanges    \* bound: changes the pages make on their own

Elems == 1 .. NumElems

ASSUME BrowserAssumption ==
  /\ NumElems \in Nat /\ Limit \in Nat
  /\ MaxCalls \in Nat /\ MaxPages \in Nat /\ MaxChanges \in Nat
  /\ Shadow \subseteq Elems
  /\ \A s \in Shadow, e \in Elems \ Shadow : e < s
  /\ Nobody \notin Agents \union Names \union Tenants
  /\ Deployments \subseteq
       [harness : [Agents -> Harnesses], tenant : [Harnesses -> Tenants]]

PageIds == 1 .. MaxPages

\* ElementRef; the rendered stamp carries both parts.
Ref(v, id) == [v |-> v, id |-> id]
NoRef      == Ref(0, 0)
Refs       == [v : Nat, id : 0 .. NumElems]

\* One browser with its page: the document it is at, which elements are
\* visible and which disabled, and the data-hivecore-ref attributes.
Page(tenant) ==
  [alive |-> TRUE, tenant |-> tenant, doc |-> 0, shown |-> {}, off |-> {},
   stamp |-> [e \in Elems |-> NoRef]]
Dead(page) == [Page(page.tenant) EXCEPT !.alive = FALSE]
NoPage     == Dead(Page(Nobody))

\* Session of the provider's map; tracked is last_snapshot_elements.
Session(tenant, page) ==
  [there |-> TRUE, tenant |-> tenant, page |-> page, version |-> 0, tracked |-> <<>>]
NoSession == [Session(Nobody, 0) EXCEPT !.there = FALSE]

VARIABLES
  deploy,    \* the deployment, chosen once
  known,     \* per harness: the names its state.sessions maps
  holder,    \* per harness: who holds its state lock across a launch
  sessions,  \* the provider's map; an id is the name it was opened under
  pages,     \* every browser launched so far
  call,      \* what each agent's current tool call is at, its last reply
  calls, changes,
  named,     \* history: what every stamp that was ever set stands for
  seen       \* history: the browsers each agent was shown a snapshot of

harness == <<known, holder>>
history == <<named, seen>>
vars == <<deploy, harness, sessions, pages, call, calls, changes, history>>

HarnessOf(a) == deploy.harness[a]
TenantOf(a)  == deploy.tenant[HarnessOf(a)]

Steps == {"idle", "launch", "navigate", "snapshot", "find", "perform", "settle",
          "record", "wait"}

\* refused: StaleRef or NotActionable; error: any other error; false: the
\* assertion does not hold.
Replies == {"ok", "false", "refused", "error"}

\* A resting agent keeps its last reply, and whether the call touched a page
\* element.
Idle(reply, touched) ==
  [at |-> "idle", op |-> "idle", name |-> Nobody, ref |-> NoRef, page |-> 0,
   doc |-> 0, elem |-> 0, reply |-> reply, touched |-> touched]

Busy(at, name) == [Idle("ok", FALSE) EXCEPT !.at = at, !.name = name]

Goto(a, c)       == call' = [call EXCEPT ![a] = c]
Return(a, reply) == Goto(a, Idle(reply, call[a].touched))

-----------------------------------------------------------------------------
Init ==
  /\ deploy \in Deployments
  /\ known = [h \in Harnesses |-> {}]
  /\ holder = [h \in Harnesses |-> Nobody]
  /\ sessions = [n \in Names |-> NoSession]
  /\ pages = [p \in PageIds |-> NoPage]
  /\ call = [a \in Agents |-> Idle("ok", FALSE)]
  /\ calls = 0 /\ changes = 0
  /\ named = {} /\ seen = {}

\* Every tool begins with its harness's state lock.
Begin(a) ==
  /\ call[a].at = "idle" /\ holder[HarnessOf(a)] = Nobody
  /\ calls < MaxCalls /\ calls' = calls + 1

\* Slip: verify_tenant is forgotten.
AccessAnyTenant(a, n) == sessions[n].there

\* The provider's session lookup and verify_tenant.
Access(a, n) == sessions[n].there /\ sessions[n].tenant = TenantOf(a)

\* ctx_for, then those.
Resolve(a, n) == n \in known[HarnessOf(a)] /\ Access(a, n)

\* A call that is refused before it does anything.
Refuse(a, reply) ==
  /\ Goto(a, Idle(reply, FALSE))
  /\ UNCHANGED <<harness, sessions, pages, history>>

-----------------------------------------------------------------------------
(* browser_session open, and the start of browser_navigate and             *)
(* browser_snapshot: ensure_named_session.                                 *)

\* op is what the call goes on with; a plain open is over.
Ensured(a, n, op) ==
  Goto(a, IF op = "idle" THEN Idle("ok", FALSE) ELSE Busy(op, n))

\* A name the harness knows is taken to be open.
EnsureKnown(a, n, op) ==
  /\ Begin(a) /\ n \in known[HarnessOf(a)]
  /\ Ensured(a, n, op)
  /\ UNCHANGED <<deploy, harness, sessions, pages, changes, history>>

\* Otherwise a browser is launched, under the harness's state lock.
EnsureLaunch(a, n, op) ==
  /\ Begin(a) /\ n \notin known[HarnessOf(a)]
  /\ \E p \in PageIds : pages[p] = NoPage
  /\ holder' = [holder EXCEPT ![HarnessOf(a)] = a]
  /\ Goto(a, [Busy("launch", n) EXCEPT !.op = op])
  /\ UNCHANGED <<deploy, known, sessions, pages, changes, history>>

Unlock(a) == holder' = [holder EXCEPT ![HarnessOf(a)] = Nobody]

\* The session goes into the map under the requested name, also in place of
\* one that is there, of whatever tenant, whose browser ends with it; its
\* versions begin again at 0.
Launched(a) ==
  LET n == call[a].name
      old == sessions[n]
  IN  /\ call[a].at = "launch"
      /\ \E p \in PageIds :
           /\ pages[p] = NoPage /\ \A q \in PageIds : q < p => pages[q] # NoPage
           /\ sessions' = [sessions EXCEPT ![n] = Session(TenantOf(a), p)]
           /\ pages' = [q \in PageIds |->
                          IF q = p THEN Page(TenantOf(a))
                          ELSE IF old.there /\ q = old.page THEN Dead(pages[q])
                          ELSE pages[q]]
      /\ known' = [known EXCEPT ![HarnessOf(a)] = @ \union {n}]
      /\ Unlock(a) /\ Ensured(a, n, call[a].op)
      /\ UNCHANGED <<deploy, calls, changes, history>>

LaunchFails(a) ==
  /\ call[a].at = "launch"
  /\ Unlock(a) /\ Return(a, "error")
  /\ UNCHANGED <<deploy, known, sessions, pages, calls, changes, history>>

\* close: the session goes, unless it is another tenant's; the harness keeps
\* the name.  Closing a session that is gone is fine.
Close(a, n) ==
  /\ Begin(a)
  /\ IF Resolve(a, n)
     THEN /\ sessions' = [sessions EXCEPT ![n] = NoSession]
          /\ pages' = [pages EXCEPT ![sessions[n].page] = Dead(@)]
          /\ Goto(a, Idle("ok", FALSE))
          /\ UNCHANGED <<harness, history>>
     ELSE Refuse(a, IF n \in known[HarnessOf(a)] /\ ~sessions[n].there
                    THEN "ok" ELSE "error")
  /\ UNCHANGED <<deploy, changes>>

-----------------------------------------------------------------------------
\* A document replaces the page's: new elements, no stamps.
Loaded(page, shown) ==
  [page EXCEPT !.doc = @ + 1, !.shown = shown, !.off = {},
               !.stamp = [e \in Elems |-> NoRef]]

\* goto under the provider's lock; if it fails, the page may have changed all
\* the same.  Neither the version nor the tracked elements are touched.
Navigate(a) ==
  LET n == call[a].name
      p == sessions[n].page
  IN  /\ call[a].at = "navigate"
      /\ \/ /\ Access(a, n) /\ pages[p].alive
            /\ \E shown \in SUBSET Elems :
                 pages' = [pages EXCEPT ![p] = Loaded(@, shown)]
            /\ Return(a, "ok") \/ Return(a, "error")
         \/ Return(a, "error") /\ UNCHANGED pages
      /\ UNCHANGED <<deploy, harness, sessions, calls, changes, history>>

-----------------------------------------------------------------------------
(* The DOM walk of a snapshot.                                             *)

Rank(page, e)  == Cardinality({f \in page.shown : f <= e})
Counted(page)  == {e \in page.shown : Rank(page, e) <= Limit}

\* Earlier stamps are cleared in the main document only.
Stamped(page, v) ==
  [e \in Elems |-> IF e \in Counted(page) THEN Ref(v, Rank(page, e))
                  ELSE IF e \in Shadow    THEN page.stamp[e]
                  ELSE NoRef]

\* Slip: keyed by the element instead of its id in this snapshot.
TrackedByElement(page) == [e \in Counted(page) |-> e \notin page.off]

\* element_id |-> enabled
Tracked(page) ==
  [i \in 1 .. Cardinality(Counted(page)) |->
     \E e \in Counted(page) : Rank(page, e) = i /\ e \notin page.off]

\* snapshot(): the version goes up first; the evaluation may fail before the
\* walk, or its result be lost after it.
Snapshots(n) == IF pages[sessions[n].page].alive THEN {"ok", "lost", "failed"}
                                                 ELSE {"failed"}

\* Slip: the version goes up once the elements are known.
TakeLate(n, outcome) ==
  LET p == sessions[n].page
      v == sessions[n].version + 1
      page == pages[p]
  IN  /\ sessions' = IF outcome = "ok"
                     THEN [sessions EXCEPT ![n].version = v, ![n].tracked = Tracked(page)]
                     ELSE sessions
      /\ IF outcome = "failed" THEN UNCHANGED <<pages, named>>
         ELSE /\ pages' = [pages EXCEPT ![p].stamp = Stamped(page, v)]
              /\ named' = named \union
                   {[page |-> p, ref |-> Ref(v, Rank(page, e)), doc |-> page.doc,
                     elem |-> e] : e \in Counted(page)}

Take(n, outcome) ==
  LET p == sessions[n].page
      v == sessions[n].version + 1
      page == pages[p]
  IN  /\ sessions' = [sessions EXCEPT ![n].version = v,
                        ![n].tracked = IF outcome = "ok" THEN Tracked(page) ELSE @]
      /\ IF outcome = "failed" THEN UNCHANGED <<pages, named>>
         ELSE /\ pages' = [pages EXCEPT ![p].stamp = Stamped(page, v)]
              /\ named' = named \union
                   {[page |-> p, ref |-> Ref(v, Rank(page, e)), doc |-> page.doc,
                     elem |-> e] : e \in Counted(page)}

\* The snapshot of the session that has the name by now; a fresh one is then
\* recorded by the harness.
Snapshot(a) ==
  LET n == call[a].name
  IN  /\ call[a].at = "snapshot"
      /\ IF ~Access(a, n)
         THEN Return(a, "error") /\ UNCHANGED <<sessions, pages, history>>
         ELSE \E o \in Snapshots(n) :
                /\ Take(n, o)
                /\ IF o = "ok"
                   THEN /\ Goto(a, [Busy("record", n) EXCEPT !.touched = call[a].touched])
                        /\ seen' = seen \union
                             {[agent |-> a, name |-> n, page |-> sessions[n].page]}
                   ELSE Return(a, "error") /\ UNCHANGED seen
      /\ UNCHANGED <<deploy, harness, calls, changes>>

\* record_snapshot waits for the harness's lock once more; the map it writes,
\* state.latest, is read nowhere and left out.
Record(a) ==
  /\ call[a].at = "record" /\ holder[HarnessOf(a)] = Nobody
  /\ Return(a, "ok")
  /\ UNCHANGED <<deploy, harness, sessions, pages, calls, changes, history>>

\* browser_assert exists: looks the ref up in a new snapshot, which nobody
\* else gets to see.
AssertExists(a, n, ref) ==
  /\ Begin(a)
  /\ IF ~Resolve(a, n) THEN Refuse(a, "error")
     ELSE /\ UNCHANGED <<harness, seen>>
          /\ \E o \in Snapshots(n) :
               /\ Take(n, o)
               /\ LET found == /\ ref.v = sessions[n].version + 1
                               /\ ref.id \in DOMAIN Tracked(pages[sessions[n].page])
                  IN  Goto(a, Idle(IF o # "ok" THEN "error"
                                   ELSE IF found THEN "ok" ELSE "false", FALSE))
  /\ UNCHANGED <<deploy, changes>>

-----------------------------------------------------------------------------
(* browser_act *)

\* Of the current version, known to the last snapshot, and enabled there.
Passes(s, ref) ==
  ref.v = s.version /\ ref.id \in DOMAIN s.tracked /\ s.tracked[ref.id]

\* The check under the provider's lock; the page handle outlives it.
Check(a, n, ref) ==
  LET s == sessions[n]
  IN  /\ Begin(a)
      /\ IF ~Resolve(a, n) THEN Refuse(a, "error")
         ELSE IF Passes(s, ref)
         THEN /\ Goto(a, [Busy("find", n) EXCEPT !.ref = ref, !.page = s.page])
              /\ UNCHANGED <<harness, sessions, pages, history>>
         ELSE Refuse(a, "refused")
      /\ UNCHANGED <<deploy, changes>>

\* Slip: the selector holds the id only.
FindById(a) ==
  LET page == pages[call[a].page]
  IN  /\ call[a].at = "find"
      /\ \/ \E e \in Elems \ Shadow :
              /\ page.alive /\ page.stamp[e].id = call[a].ref.id
              /\ Goto(a, [call[a] EXCEPT !.at = "perform", !.doc = page.doc, !.elem = e])
         \/ Return(a, "refused")
      /\ UNCHANGED <<deploy, harness, sessions, pages, calls, changes, history>>

\* Slip: no timeout; the search goes on until the stamp turns up.
FindPatiently(a) ==
  LET page == pages[call[a].page]
  IN  /\ call[a].at = "find"
      /\ IF page.alive
         THEN \E e \in Elems \ Shadow :
                /\ page.stamp[e] = call[a].ref
                /\ Goto(a, [call[a] EXCEPT !.at = "perform", !.doc = page.doc,
                                           !.elem = e])
         ELSE Return(a, "refused")
      /\ UNCHANGED <<deploy, harness, sessions, pages, calls, changes, history>>

\* find_element by stamp, which does not look into shadow roots; any failure
\* or five seconds make the ref stale.
Find(a) ==
  LET page == pages[call[a].page]
  IN  /\ call[a].at = "find"
      /\ \/ \E e \in Elems \ Shadow :
              /\ page.alive /\ page.stamp[e] = call[a].ref
              /\ Goto(a, [call[a] EXCEPT !.at = "perform", !.doc = page.doc, !.elem = e])
         \/ Return(a, "refused")
      /\ UNCHANGED <<deploy, harness, sessions, pages, calls, changes, history>>

\* Slip: a failed action counts as a stale ref.
PerformOrStale(a) ==
  LET page == pages[call[a].page]
      reachable == page.alive /\ page.doc = call[a].doc
  IN  /\ call[a].at = "perform"
      /\ \E touched \in BOOLEAN :
           /\ touched => reachable
           /\ \/ Goto(a, [call[a] EXCEPT !.at = "settle", !.touched = touched])
              \/ Goto(a, Idle("refused", touched))
      /\ UNCHANGED <<deploy, harness, sessions, pages, calls, changes, history>>

\* The action on the element found.  Drag and upload are stubs that touch
\* nothing; an action whose answer is lost may have had its effect.
Perform(a) ==
  LET page == pages[call[a].page]
      reachable == page.alive /\ page.doc = call[a].doc
  IN  /\ call[a].at = "perform"
      /\ \E touched \in BOOLEAN :
           /\ touched => reachable
           /\ \/ Goto(a, [call[a] EXCEPT !.at = "settle", !.touched = touched])
              \/ Goto(a, Idle("error", touched))
      /\ UNCHANGED <<deploy, harness, sessions, pages, calls, changes, history>>

\* The page is polled until nothing moves or the settle timeout passes; then
\* act takes its snapshot.
Settle(a) ==
  /\ call[a].at = "settle"
  /\ Goto(a, [Busy("snapshot", call[a].name) EXCEPT !.touched = call[a].touched])
  /\ UNCHANGED <<deploy, harness, sessions, pages, calls, changes, history>>

\* browser_wait: polls the page without any lock, until the condition holds or
\* the deadline passes.
Wait(a, n) ==
  /\ Begin(a)
  /\ Goto(a, IF Resolve(a, n) THEN Busy("wait", n) ELSE Idle("error", FALSE))
  /\ UNCHANGED <<deploy, harness, sessions, pages, changes, history>>

WaitEnds(a) ==
  /\ call[a].at = "wait"
  /\ Return(a, "ok") \/ Return(a, "error")
  /\ UNCHANGED <<deploy, harness, sessions, pages, calls, changes, history>>

-----------------------------------------------------------------------------
(* The pages, whatever their scripts and users do: elements appear and     *)
(* disappear, with or without their stamps, are disabled, the page moves   *)
(* on to another document, the browser dies.  No page sets stamps itself.  *)

\* about:blank, where a browser starts, has no elements to change.
Altered(page) ==
  {[page EXCEPT !.shown = @ \union {e}] : e \in Elems \ page.shown}
    \union {[page EXCEPT !.shown = @ \ {e}] : e \in page.shown}
    \union {[page EXCEPT !.off = @ \union {e}] : e \in Elems \ page.off}
    \union {[page EXCEPT !.shown = @ \ {e}, !.stamp[e] = NoRef] : e \in Elems}

Changes(page) ==
  (IF page.doc = 0 THEN {} ELSE Altered(page))
    \union {Loaded(page, shown) : shown \in SUBSET Elems} \union {Dead(page)}

PageChanges(p) ==
  /\ pages[p].alive /\ changes < MaxChanges
  /\ changes' = changes + 1
  /\ \E page \in Changes(pages[p]) : pages' = [pages EXCEPT ![p] = page]
  /\ UNCHANGED <<deploy, harness, sessions, call, calls, history>>

Ops     == {"idle", "navigate", "snapshot"}
Targets == [v : 1 .. MaxCalls, id : Elems]

\* The steps that end a call that has begun.
Continue(a) ==
  \/ Launched(a) \/ LaunchFails(a) \/ Navigate(a) \/ Snapshot(a) \/ Record(a)
  \/ Find(a) \/ Perform(a) \/ Settle(a) \/ WaitEnds(a)

Start(a) ==
  \E n \in Names :
    \/ Close(a, n) \/ Wait(a, n)
    \/ \E op \in Ops : EnsureKnown(a, n, op) \/ EnsureLaunch(a, n, op)
    \/ \E ref \in Targets : Check(a, n, ref) \/ AssertExists(a, n, ref)

Next ==
  \/ \E a \in Agents : Start(a) \/ Continue(a)
  \/ \E p \in PageIds : PageChanges(p)

\* Each call goes on; nobody needs to begin one, and no page to change.
Spec == Init /\ [][Next]_vars /\ \A a \in Agents : WF_vars(Continue(a))

-----------------------------------------------------------------------------
PageType ==
  [alive : BOOLEAN, tenant : Tenants \union {Nobody}, doc : Nat,
   shown : SUBSET Elems, off : SUBSET Elems, stamp : [Elems -> Refs]]

SessionType ==
  [there : BOOLEAN, tenant : Tenants \union {Nobody}, page : PageIds \union {0},
   version : Nat, tracked : UNION {[1 .. k -> BOOLEAN] : k \in 0 .. NumElems}]

CallType ==
  [at : Steps, op : Ops, name : Names \union {Nobody}, ref : Refs,
   page : PageIds \union {0}, doc : Nat, elem : Elems \union {0},
   reply : Replies, touched : BOOLEAN]

NamedType == [page : PageIds, ref : Refs, doc : Nat, elem : Elems]
SeenType  == [agent : Agents, name : Names, page : PageIds]

TypeOK ==
  /\ deploy \in Deployments
  /\ known \in [Harnesses -> SUBSET Names]
  /\ holder \in [Harnesses -> Agents \union {Nobody}]
  /\ sessions \in [Names -> SessionType]
  /\ pages \in [PageIds -> PageType]
  /\ call \in [Agents -> CallType]
  /\ calls \in 0 .. MaxCalls /\ changes \in 0 .. MaxChanges
  /\ named \subseteq NamedType /\ seen \subseteq SeenType

\* Within one browser a ref stands for one element for ever, whatever
\* snapshots fail half way and whatever documents come and go: a reader of an
\* old snapshot can be refused, never misled.
RefNamesOneElement ==
  \A x, y \in named : x.page = y.page /\ x.ref = y.ref => x = y

\* The element an action is carried out on is the one its ref was given to,
\* although snapshots, navigations and scripts run between act's check, its
\* search and the action; and of the browsers whose snapshots the agent was
\* shown under this name, one that still lives is the one it acts in.  (One
\* that has ended may have been replaced: versions begin again at 0 when a
\* name is opened once more, and then an old ref can pass for a new one.
\* ADR-028's "never silently resolve" does not hold across that.)
ActsOnShownElement ==
  \A a \in Agents :
    call[a].at \in {"perform", "settle"} =>
      /\ [page |-> call[a].page, ref |-> call[a].ref, doc |-> call[a].doc,
          elem |-> call[a].elem] \in named
      /\ \A s \in seen :
           s.agent = a /\ s.name = call[a].name /\ pages[s.page].alive
             => s.page = call[a].page

\* There is one thing a step of a call does to the session or to the page of
\* another tenant, whatever is closed or replaced in the middle of the call:
\* opening a name that is in use takes the name over and ends the browser it
\* had.  (ADR-028 and open_session's callers take tenants to be isolated
\* altogether; that exception is in the code.)
TakeoverOnly ==
  [][\A a \in Agents : call'[a] # call[a] =>
       /\ \A n \in Names :
            /\ sessions[n].there /\ sessions[n].tenant # TenantOf(a)
            /\ sessions'[n] # sessions[n]
            => call[a].at = "launch" /\ call[a].name = n
       /\ \A p \in PageIds :
            /\ pages[p].tenant \notin {Nobody, TenantOf(a)} /\ pages'[p] # pages[p]
            => /\ call[a].at = "launch" /\ pages'[p] = Dead(pages[p])
               /\ sessions[call[a].name].page = p]_vars

\* "re-snapshot required" invites a retry, so a call that is refused has
\* done nothing.  (Every other error leaves that open.)
RefusedIsUntouched ==
  \A a \in Agents : call[a].reply = "refused" => ~call[a].touched

\* Every call returns, although a stamp act looks for may be gone for good,
\* and the harness's lock is held while a browser is launched.
CallsReturn ==
  \A a \in Agents : call[a].at # "idle" ~> call[a].at = "idle"

\* What the assertion's documentation promises: a ref of the current snapshot
\* whose element is still where it was exists.
AssertSeesCurrentRef ==
  [][\A a \in Agents, n \in Names, ref \in Targets :
       LET page == pages[sessions[n].page]
       IN  /\ AssertExists(a, n, ref) /\ Resolve(a, n)
           /\ \E e \in Counted(page) : page.stamp[e] = ref
           /\ ref.v = sessions[n].version
           => call'[a].reply # "false"]_vars

=============================================================================
