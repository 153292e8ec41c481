--------------------------- MODULE BrowserProofs ---------------------------
(***************************************************************************)
(* For any agents, tenants, deployment, page and number of snapshots: a    *)
(* ref stands for one element, an action reaches the element its ref was   *)
(* given to, a refused call has done nothing, and nothing but the takeover *)
(* of a name reaches another tenant.                                       *)
(***************************************************************************)
EXTENDS Browser, FiniteSetTheorems, TLAPS

\* A session's page is a launched one of the same tenant, and its own.
SessionsOwnPages ==
  /\ \A n \in Names : sessions[n].there =>
       /\ sessions[n].page \in PageIds
       /\ sessions[n].tenant = pages[sessions[n].page].tenant
       /\ sessions[n].tenant \in Tenants
  /\ \A m, n \in Names :
       sessions[m].there /\ sessions[n].there /\ sessions[m].page = sessions[n].page
         => m = n

\* Stamps were only ever set on launched pages, at versions up to the present.
NamedSoFar ==
  \A x \in named :
    /\ pages[x.page].tenant # Nobody
    /\ \A n \in Names :
         sessions[n].there /\ sessions[n].page = x.page
           => x.ref.v <= sessions[n].version

\* What is stamped on a page now is what named says of it.
StampsAreNamed ==
  \A p \in PageIds, e \in Elems :
    pages[p].alive /\ pages[p].stamp[e] # NoRef =>
      [page |-> p, ref |-> pages[p].stamp[e], doc |-> pages[p].doc, elem |-> e] \in named

\* act looks for a real ref and has done nothing yet; only resting agents have
\* been refused.
CallsInStep ==
  \A a \in Agents :
    /\ call[a].at = "find" =>
         call[a].ref # NoRef /\ call[a].page \in PageIds /\ ~call[a].touched
    /\ call[a].reply = "refused" => call[a].at = "idle"
    /\ call[a].at # "idle" => call[a].name \in Names

\* A browser that an agent was shown was launched, and it is the one its name
\* stands for as long as it lives; a call that looks for an element does so
\* there.
SeenInOrder ==
  /\ \A s \in seen :
       /\ pages[s.page].tenant # Nobody
       /\ pages[s.page].alive => sessions[s.name].there /\ sessions[s.name].page = s.page
  /\ \A a \in Agents, s \in seen :
       call[a].at = "find" /\ s.agent = a /\ s.name = call[a].name /\ pages[s.page].alive
         => s.page = call[a].page

RefInv ==
  SessionsOwnPages /\ NamedSoFar /\ StampsAreNamed /\ CallsInStep

IInv ==
  /\ TypeOK /\ RefInv /\ SeenInOrder
  /\ RefNamesOneElement /\ ActsOnShownElement /\ RefusedIsUntouched

-----------------------------------------------------------------------------
(* Data: counting elements, and the types of what the actions build.       *)

\* An element's rank is a number of elements.
LEMMA RankType ==
  ASSUME NEW page, page.shown \in SUBSET Elems, NEW e
  PROVE  Rank(page, e) \in 0 .. NumElems
<1> DEFINE S == {f \in page.shown : f <= e}
<1>1. IsFiniteSet(Elems) /\ Cardinality(Elems) = NumElems
  BY FS_Interval, BrowserAssumption DEF Elems
<1>2. S \in SUBSET Elems
  OBVIOUS
<1>3. IsFiniteSet(S) /\ Cardinality(S) <= NumElems
  BY <1>1, <1>2, FS_Subset
<1>4. Cardinality(S) \in Nat
  BY <1>3, FS_CardinalityType
<1>5. QED
  BY <1>3, <1>4, BrowserAssumption DEF Rank

\* A later element has a higher rank, so two elements of one walk never share
\* an id.
LEMMA RankIncreases ==
  ASSUME NEW page, page.shown \in SUBSET Elems,
         NEW e \in page.shown, NEW f \in page.shown, e < f
  PROVE  Rank(page, e) < Rank(page, f)
<1> DEFINE S == {g \in page.shown : g <= e}
           T == {g \in page.shown : g <= f}
<1>0. page.shown \subseteq Nat
  BY BrowserAssumption DEF Elems
<1>1. IsFiniteSet(Elems)
  BY FS_Interval, BrowserAssumption DEF Elems
<1>2. S \in SUBSET Elems /\ T \in SUBSET Elems
  OBVIOUS
<1>3. IsFiniteSet(S) /\ IsFiniteSet(T)
  BY <1>1, <1>2, FS_Subset
<1>4. f \notin S /\ S \union {f} \in SUBSET T
  BY <1>0
<1>5. Cardinality(S \union {f}) = Cardinality(S) + 1
  BY <1>3, <1>4, FS_AddElement
<1>6. Cardinality(S \union {f}) <= Cardinality(T)
  BY <1>3, <1>4, FS_Subset
<1>7. Cardinality(S) \in Nat /\ Cardinality(T) \in Nat
  BY <1>3, FS_CardinalityType
<1>8. Cardinality(S) < Cardinality(T)
  BY <1>5, <1>6, <1>7
<1>9. QED
  BY <1>8 DEF Rank

LEMMA RankDiffers ==
  ASSUME NEW page, page.shown \in SUBSET Elems,
         NEW e \in page.shown, NEW f \in page.shown, Rank(page, e) = Rank(page, f)
  PROVE  e = f
<1>1. e \in Nat /\ f \in Nat
  BY BrowserAssumption DEF Elems
<1>2. Rank(page, e) \in Nat /\ Rank(page, f) \in Nat
  BY RankType
<1>3. ~(e < f)
  BY <1>2, RankIncreases
<1>4. ~(f < e)
  BY <1>2, RankIncreases
<1>5. QED
  BY <1>1, <1>3, <1>4

\* Pages stay pages.
LEMMA PagesAreTyped ==
  /\ NoPage \in PageType
  /\ \A t \in Tenants : Page(t) \in PageType
  /\ \A page \in PageType : Dead(page) \in PageType
  /\ \A page \in PageType, shown \in SUBSET Elems : Loaded(page, shown) \in PageType
  /\ \A page \in PageType, v \in Nat :
       [page EXCEPT !.stamp = Stamped(page, v)] \in PageType
  /\ \A page \in PageType : Changes(page) \subseteq PageType
<1>1. NoRef \in Refs
  BY BrowserAssumption DEF NoRef, Ref, Refs
<1>2. \A t \in Tenants \union {Nobody} : Page(t) \in PageType
  BY <1>1 DEF Page, PageType
<1>3. \A page \in PageType : Dead(page) \in PageType
  <2>1. TAKE page \in PageType
  <2>2. Page(page.tenant) \in PageType
    BY <1>2 DEF PageType
  <2>3. QED
    BY <2>2 DEF Dead, PageType
<1>4. NoPage \in PageType
  BY <1>2, <1>3 DEF NoPage
<1>5. \A page \in PageType, shown \in SUBSET Elems : Loaded(page, shown) \in PageType
  <2>1. TAKE page \in PageType, shown \in SUBSET Elems
  <2>2. [e \in Elems |-> NoRef] \in [Elems -> Refs]
    BY <1>1
  <2>3. page.doc + 1 \in Nat
    BY DEF PageType
  <2>4. QED
    BY <2>2, <2>3 DEF Loaded, PageType
<1>6. \A page \in PageType, v \in Nat :
        [page EXCEPT !.stamp = Stamped(page, v)] \in PageType
  <2>1. TAKE page \in PageType, v \in Nat
  <2>2. \A e \in Elems : Ref(v, Rank(page, e)) \in Refs
    BY RankType DEF PageType, Ref, Refs
  <2>3. Stamped(page, v) \in [Elems -> Refs]
    BY <1>1, <2>2 DEF Stamped, PageType
  <2>4. QED
    BY <2>3 DEF PageType
<1>7. \A page \in PageType : Changes(page) \subseteq PageType
  <2>1. TAKE page \in PageType
  <2>2. \A S \in SUBSET Elems : /\ [page EXCEPT !.shown = S] \in PageType
                               /\ [page EXCEPT !.off = S] \in PageType
    BY DEF PageType
  <2>3. \A S \in SUBSET Elems, e \in Elems :
          [page EXCEPT !.shown = S, !.stamp[e] = NoRef] \in PageType
    BY <1>1 DEF PageType
  <2>4. page.shown \in SUBSET Elems /\ page.off \in SUBSET Elems
    BY DEF PageType
  <2>5. Altered(page) \subseteq PageType
    <3>1. ASSUME NEW e \in Elems
          PROVE  /\ page.shown \union {e} \in SUBSET Elems
                 /\ page.shown \ {e} \in SUBSET Elems
                 /\ page.off \union {e} \in SUBSET Elems
      BY <2>4
    <3>2. ASSUME NEW e \in Elems
          PROVE  /\ [page EXCEPT !.shown = @ \union {e}] \in PageType
                 /\ [page EXCEPT !.shown = @ \ {e}] \in PageType
                 /\ [page EXCEPT !.off = @ \union {e}] \in PageType
                 /\ [page EXCEPT !.shown = @ \ {e}, !.stamp[e] = NoRef] \in PageType
      BY <2>2, <2>3, <3>1
    <3>3. page.shown \subseteq Elems
      BY <2>4
    <3>4. QED
      BY <3>2, <3>3 DEF Altered
  <2>6. QED
    BY <1>3, <1>5, <2>5 DEF Changes
<1>8. QED
  BY <1>2, <1>3, <1>4, <1>5, <1>6, <1>7

\* Sessions stay sessions.
LEMMA SessionsAreTyped ==
  /\ NoSession \in SessionType
  /\ \A t \in Tenants, p \in PageIds : Session(t, p) \in SessionType
  /\ \A page \in PageType :
       Tracked(page) \in UNION {[1 .. k -> BOOLEAN] : k \in 0 .. NumElems}
<1>1. <<>> \in [1 .. 0 -> BOOLEAN]
  OBVIOUS
<1>2. <<>> \in UNION {[1 .. k -> BOOLEAN] : k \in 0 .. NumElems}
  BY <1>1, BrowserAssumption
<1>3. \A t \in Tenants \union {Nobody}, p \in PageIds \union {0} :
        Session(t, p) \in SessionType
  BY <1>2 DEF Session, SessionType
<1>4. NoSession \in SessionType
  <2>1. Session(Nobody, 0) \in SessionType
    BY <1>3
  <2>2. QED
    BY <2>1 DEF NoSession, SessionType
<1>5. \A page \in PageType :
        Tracked(page) \in UNION {[1 .. k -> BOOLEAN] : k \in 0 .. NumElems}
  <2>1. TAKE page \in PageType
  <2>2. Counted(page) \in SUBSET Elems
    BY DEF Counted, PageType
  <2>3. IsFiniteSet(Elems) /\ Cardinality(Elems) = NumElems
    BY FS_Interval, BrowserAssumption DEF Elems
  <2>4. IsFiniteSet(Counted(page)) /\ Cardinality(Counted(page)) <= NumElems
    BY <2>2, <2>3, FS_Subset
  <2>5. Cardinality(Counted(page)) \in 0 .. NumElems
    BY <2>4, FS_CardinalityType, BrowserAssumption
  <2>6. Tracked(page) \in [1 .. Cardinality(Counted(page)) -> BOOLEAN]
    BY DEF Tracked
  <2>7. QED
    BY <2>5, <2>6
<1>6. QED
  BY <1>3, <1>4, <1>5

-----------------------------------------------------------------------------
(* What a step does to sessions, pages and stamps is one of five things.   *)

Spared == UNCHANGED <<sessions, pages, named>>

Snapped ==
  \E n \in Names, o \in {"ok", "lost", "failed"} :
    /\ sessions[n].there /\ Take(n, o)
    /\ o # "failed" => pages[sessions[n].page].alive

Closed ==
  \E n \in Names :
    /\ sessions[n].there
    /\ sessions' = [sessions EXCEPT ![n] = NoSession]
    /\ pages' = [pages EXCEPT ![sessions[n].page] = Dead(@)]
    /\ UNCHANGED named

Opened ==
  \E n \in Names, t \in Tenants, p \in PageIds :
    /\ pages[p] = NoPage
    /\ sessions' = [sessions EXCEPT ![n] = Session(t, p)]
    /\ pages' = [q \in PageIds |->
                   IF q = p THEN Page(t)
                   ELSE IF sessions[n].there /\ q = sessions[n].page THEN Dead(pages[q])
                   ELSE pages[q]]
    /\ UNCHANGED named

Changed ==
  \E p \in PageIds : \E page \in Changes(pages[p]) :
    /\ pages[p].alive /\ pages' = [pages EXCEPT ![p] = page]
    /\ UNCHANGED <<sessions, named>>

\* The deployment gives every agent a tenant.
LEMMA TenantOfType ==
  ASSUME TypeOK, NEW a \in Agents
  PROVE  HarnessOf(a) \in Harnesses /\ TenantOf(a) \in Tenants
<1>1. deploy \in [harness : [Agents -> Harnesses], tenant : [Harnesses -> Tenants]]
  BY BrowserAssumption DEF TypeOK
<1>2. QED
  BY <1>1 DEF HarnessOf, TenantOf

LEMMA NextEffects ==
  ASSUME TypeOK, RefInv, Next
  PROVE  Spared \/ Snapped \/ Closed \/ Opened \/ Changed
<1>1. ASSUME NEW a \in Agents, NEW n \in Names, Close(a, n)
      PROVE  Spared \/ Closed
  BY <1>1 DEF Close, Refuse, Spared, Closed, Resolve, Access, history
<1>2. ASSUME NEW a \in Agents, NEW n \in Names, NEW ref \in Targets,
             AssertExists(a, n, ref)
      PROVE  Spared \/ Snapped
  BY <1>2 DEF AssertExists, Refuse, Spared, Snapped, Snapshots, Resolve, Access, history
<1>3. ASSUME NEW a \in Agents, NEW n \in Names, NEW ref \in Targets, Check(a, n, ref)
      PROVE  Spared
  BY <1>3 DEF Check, Refuse, Spared, history
<1>4. ASSUME NEW a \in Agents, Launched(a)
      PROVE  Opened
  <2>1. call[a].name \in Names
    BY <1>4 DEF Launched, RefInv, CallsInStep
  <2>2. QED
    BY ZenonT(30), <1>4, <2>1, TenantOfType DEF Launched, Opened, history
<1>5. ASSUME NEW a \in Agents, Navigate(a)
      PROVE  Spared \/ Changed
  <2>1. call[a].name \in Names
    BY <1>5 DEF Navigate, RefInv, CallsInStep
  <2>2. CASE pages' = pages
    BY <1>5, <2>2 DEF Navigate, Spared, history
  <2>3. CASE pages' # pages
    <3> DEFINE p == sessions[call[a].name].page
    <3>1. p \in PageIds
      BY <1>5, <2>1, <2>3 DEF Navigate, Access, RefInv, SessionsOwnPages
    <3>2. PICK shown \in SUBSET Elems : pages' = [pages EXCEPT ![p] = Loaded(@, shown)]
      BY <1>5, <2>3 DEF Navigate
    <3>3. Loaded(pages[p], shown) \in Changes(pages[p])
      BY DEF Changes
    <3>4. pages' = [pages EXCEPT ![p] = Loaded(pages[p], shown)]
      BY <3>2
    <3>5. pages[p].alive /\ UNCHANGED <<sessions, named>>
      BY <1>5, <2>3 DEF Navigate, history
    <3>6. QED
      BY <3>1, <3>3, <3>4, <3>5 DEF Changed
  <2>4. QED
    BY <2>2, <2>3
<1>6. ASSUME NEW a \in Agents, Snapshot(a)
      PROVE  Spared \/ Snapped
  <2>1. call[a].name \in Names
    BY <1>6 DEF Snapshot, RefInv, CallsInStep
  <2>2. QED
    BY <1>6, <2>1 DEF Snapshot, Spared, Snapped, Snapshots, Access, history
<1>7. ASSUME NEW p \in PageIds, PageChanges(p)
      PROVE  Changed
  BY <1>7 DEF PageChanges, Changed, history
<1>8. ASSUME NEW a \in Agents, NEW n \in Names, NEW op \in Ops,
             EnsureKnown(a, n, op) \/ EnsureLaunch(a, n, op) \/ Wait(a, n)
      PROVE  Spared
  BY <1>8 DEF EnsureKnown, EnsureLaunch, Wait, Spared, history
<1>9. ASSUME NEW a \in Agents,
             LaunchFails(a) \/ Record(a) \/ Find(a) \/ Perform(a) \/ Settle(a)
               \/ WaitEnds(a)
      PROVE  Spared
  BY <1>9 DEF LaunchFails, Record, Find, Perform, Settle, WaitEnds, Spared, history
<1>10. ASSUME NEW a \in Agents, NEW n \in Names, Wait(a, n)
       PROVE  Spared
  BY <1>10 DEF Wait, Spared, history
<1>11. QED
  BY <1>1, <1>2, <1>3, <1>4, <1>5, <1>6, <1>7, <1>8, <1>9, <1>10 DEF Next, Start, Continue

-----------------------------------------------------------------------------
(* Types of the provider's part.                                           *)

ProviderTypeOK ==
  /\ sessions \in [Names -> SessionType]
  /\ pages \in [PageIds -> PageType]
  /\ named \subseteq NamedType

\* A snapshot keeps the types.
LEMMA TakeTypes ==
  ASSUME TypeOK, RefInv, NEW n \in Names, sessions[n].there,
         NEW o \in {"ok", "lost", "failed"}, Take(n, o)
  PROVE  ProviderTypeOK'
<1> DEFINE p == sessions[n].page
           v == sessions[n].version + 1
           page == pages[p]
<1>1. p \in PageIds /\ page \in PageType /\ sessions[n] \in SessionType /\ v \in Nat
  BY DEF TypeOK, RefInv, SessionsOwnPages, SessionType
<1>2. Tracked(page) \in UNION {[1 .. k -> BOOLEAN] : k \in 0 .. NumElems}
  BY <1>1, SessionsAreTyped
<1>3. sessions' \in [Names -> SessionType]
  <2>1. sessions' = [sessions EXCEPT ![n].version = v,
                       ![n].tracked = IF o = "ok" THEN Tracked(page) ELSE @]
    BY DEF Take
  <2>2. QED
    BY <1>1, <1>2, <2>1 DEF TypeOK, SessionType
<1>4. CASE o = "failed"
  BY <1>3, <1>4 DEF Take, TypeOK, ProviderTypeOK
<1>5. CASE o # "failed"
  <2>1. pages' = [pages EXCEPT ![p] = [page EXCEPT !.stamp = Stamped(page, v)]]
    BY <1>5 DEF Take
  <2>2. pages' \in [PageIds -> PageType]
    BY <1>1, <2>1, PagesAreTyped DEF TypeOK
  <2>3. Counted(page) \subseteq Elems
    BY <1>1 DEF Counted, PageType
  <2>4. \A e \in Counted(page) :
          [page |-> p, ref |-> Ref(v, Rank(page, e)), doc |-> page.doc, elem |-> e]
            \in NamedType
    <3>1. TAKE e \in Counted(page)
    <3>2. Rank(page, e) \in 0 .. NumElems
      BY <1>1, RankType DEF PageType
    <3>3. QED
      BY <1>1, <2>3, <3>2 DEF NamedType, PageType, Ref, Refs
  <2>5. named' \subseteq NamedType
    BY <1>5, <2>4 DEF Take, TypeOK
  <2>6. QED
    BY <1>3, <2>2, <2>5 DEF ProviderTypeOK
<1>6. QED
  BY <1>4, <1>5

LEMMA ProviderTypes ==
  ASSUME TypeOK, RefInv, Next
  PROVE  ProviderTypeOK'
<1>1. CASE Spared
  BY <1>1 DEF Spared, TypeOK, ProviderTypeOK
<1>2. CASE Snapped
  BY <1>2, TakeTypes DEF Snapped
<1>3. CASE Closed
  <2>1. PICK n \in Names :
          /\ sessions[n].there
          /\ sessions' = [sessions EXCEPT ![n] = NoSession]
          /\ pages' = [pages EXCEPT ![sessions[n].page] = Dead(@)]
          /\ UNCHANGED named
    BY <1>3 DEF Closed
  <2>2. sessions[n].page \in PageIds
    BY <2>1 DEF RefInv, SessionsOwnPages
  <2>3. Dead(pages[sessions[n].page]) \in PageType
    BY <2>2, PagesAreTyped DEF TypeOK
  <2>4. QED
    BY <2>1, <2>2, <2>3, SessionsAreTyped DEF TypeOK, ProviderTypeOK
<1>4. CASE Opened
  <2>1. PICK n \in Names, t \in Tenants, p \in PageIds :
          /\ sessions' = [sessions EXCEPT ![n] = Session(t, p)]
          /\ pages' = [q \in PageIds |->
                IF q = p THEN Page(t)
                ELSE IF sessions[n].there /\ q = sessions[n].page THEN Dead(pages[q])
                ELSE pages[q]]
          /\ UNCHANGED named
    BY <1>4 DEF Opened
  <2>2. Page(t) \in PageType /\ \A q \in PageIds : Dead(pages[q]) \in PageType
    BY PagesAreTyped DEF TypeOK
  <2>3. pages' \in [PageIds -> PageType]
    BY <2>1, <2>2 DEF TypeOK
  <2>4. sessions' \in [Names -> SessionType]
    BY <2>1, SessionsAreTyped DEF TypeOK
  <2>5. QED
    BY <2>1, <2>3, <2>4 DEF TypeOK, ProviderTypeOK
<1>5. CASE Changed
  <2>1. PICK p \in PageIds : \E page \in Changes(pages[p]) :
          pages' = [pages EXCEPT ![p] = page] /\ UNCHANGED <<sessions, named>>
    BY <1>5 DEF Changed
  <2>2. Changes(pages[p]) \subseteq PageType
    BY PagesAreTyped DEF TypeOK
  <2>3. QED
    BY <2>1, <2>2 DEF TypeOK, ProviderTypeOK
<1>6. QED
  BY <1>1, <1>2, <1>3, <1>4, <1>5, NextEffects

-----------------------------------------------------------------------------
(* What a step does to calls: at most one agent's call goes on, to a call  *)
(* that is as every call should be.                                        *)

GoodCall(c) ==
  /\ c \in CallType
  /\ c.at = "find" => c.ref # NoRef /\ c.page \in PageIds /\ ~c.touched
  /\ c.reply = "refused" => c.at = "idle" /\ ~c.touched
  /\ c.at # "idle" => c.name \in Names
  /\ c.at \in {"perform", "settle"} =>
       [page |-> c.page, ref |-> c.ref, doc |-> c.doc, elem |-> c.elem] \in named

\* The calls the actions build, and those the invariant knows, are good.
LEMMA GoodCalls ==
  /\ \A r \in Replies, t \in BOOLEAN : r # "refused" => GoodCall(Idle(r, t))
  /\ GoodCall(Idle("refused", FALSE))
  /\ \A at \in Steps \ {"idle", "find", "perform", "settle"}, n \in Names :
       /\ GoodCall(Busy(at, n))
       /\ \A t \in BOOLEAN : GoodCall([Busy(at, n) EXCEPT !.touched = t])
  /\ IInv => \A a \in Agents : GoodCall(call[a])
<1>1. NoRef \in Refs
  BY BrowserAssumption DEF NoRef, Ref, Refs
<1>2. \A r \in Replies, t \in BOOLEAN : Idle(r, t) \in CallType
  BY <1>1 DEF Idle, CallType, Steps, Ops
<1>4. \A r \in Replies, t \in BOOLEAN : r # "refused" => GoodCall(Idle(r, t))
  BY <1>2 DEF GoodCall, Idle
<1>5. GoodCall(Idle("refused", FALSE))
  BY <1>2 DEF GoodCall, Idle, Replies
<1>6. ASSUME NEW at \in Steps \ {"idle", "find", "perform", "settle"},
             NEW n \in Names, NEW t \in BOOLEAN
      PROVE  GoodCall(Busy(at, n)) /\ GoodCall([Busy(at, n) EXCEPT !.touched = t])
  <2>1. Idle("ok", FALSE) \in CallType
    BY <1>2 DEF Replies
  <2>2. Busy(at, n) \in CallType
    BY <2>1 DEF Busy, CallType
  <2>3. /\ Busy(at, n).at = at /\ Busy(at, n).name = n
        /\ Busy(at, n).reply = "ok"
    BY DEF Busy, Idle
  <2>4. GoodCall(Busy(at, n))
    BY <2>2, <2>3 DEF GoodCall
  <2>5. GoodCall([Busy(at, n) EXCEPT !.touched = t])
    BY <2>2, <2>3 DEF GoodCall, CallType
  <2>6. QED
    BY <2>4, <2>5
<1>7. ASSUME IInv, NEW a \in Agents
      PROVE  GoodCall(call[a])
  BY <1>7 DEF GoodCall, IInv, TypeOK, RefInv, CallsInStep, ActsOnShownElement,
              RefusedIsUntouched
<1>8. QED
  BY <1>4, <1>5, <1>6, <1>7

\* A call that has begun.
LEMMA ContinueCall ==
  ASSUME IInv, NEW a \in Agents, Continue(a)
  PROVE  \E c : GoodCall(c) /\ Goto(a, c)
<1>0. GoodCall(call[a]) /\ call[a].touched \in BOOLEAN
  BY GoodCalls DEF GoodCall, CallType
<1>1. CASE Launched(a)
  <2>1. call[a].name \in Names /\ call[a].op \in Ops
    BY <1>0, <1>1 DEF GoodCall, Launched, CallType
  <2>2. CASE call[a].op = "idle"
    BY <1>1, <2>2, GoodCalls DEF Launched, Ensured, Replies
  <2>3. CASE call[a].op # "idle"
    <3>1. GoodCall(Busy(call[a].op, call[a].name))
      BY <2>1, <2>3, GoodCalls DEF Ops, Steps
    <3>2. QED
      BY <1>1, <2>3, <3>1 DEF Launched, Ensured
  <2>4. QED
    BY <2>2, <2>3
<1>2. CASE LaunchFails(a)
  BY <1>0, <1>2, GoodCalls DEF LaunchFails, Return, Replies
<1>3. CASE Navigate(a)
  BY <1>0, <1>3, GoodCalls DEF Navigate, Return, Replies
<1>4. CASE Snapshot(a)
  <2>1. call[a].name \in Names
    BY <1>0, <1>4 DEF GoodCall, Snapshot
  <2>2. GoodCall([Busy("record", call[a].name) EXCEPT !.touched = call[a].touched])
    BY <1>0, <2>1, GoodCalls DEF Steps
  <2>3. GoodCall(Idle("error", call[a].touched))
    BY <1>0, GoodCalls DEF Replies
  <2>4. QED
    BY <1>4, <2>2, <2>3 DEF Snapshot, Return
<1>5. CASE Record(a)
  BY <1>0, <1>5, GoodCalls DEF Record, Return, Replies
<1>6. CASE Find(a)
  <2>1. call[a].ref # NoRef /\ call[a].page \in PageIds /\ call[a].touched = FALSE
    BY <1>0, <1>6 DEF GoodCall, Find
  <2> DEFINE page == pages[call[a].page]
  <2>2. ASSUME NEW e \in Elems \ Shadow, page.alive, page.stamp[e] = call[a].ref
        PROVE  GoodCall([call[a] EXCEPT !.at = "perform", !.doc = page.doc, !.elem = e])
    <3>1. [page |-> call[a].page, ref |-> call[a].ref, doc |-> page.doc, elem |-> e]
            \in named
      BY <2>1, <2>2 DEF IInv, RefInv, StampsAreNamed
    <3>2. page.doc \in Nat
      BY <2>1 DEF IInv, TypeOK, PageType
    <3>3. call[a].name \in Names /\ call[a].reply # "refused"
      BY <1>0, <1>6 DEF GoodCall, Find
    <3>4. QED
      BY <1>0, <3>1, <3>2, <3>3 DEF GoodCall, CallType, Steps
  <2>3. GoodCall(Idle("refused", call[a].touched))
    BY <2>1, GoodCalls
  <2>4. QED
    BY <1>6, <2>2, <2>3 DEF Find, Return
<1>7. CASE Perform(a)
  <2>1. ASSUME NEW t \in BOOLEAN
        PROVE  /\ GoodCall([call[a] EXCEPT !.at = "settle", !.touched = t])
               /\ GoodCall(Idle("error", t))
    <3>1. GoodCall([call[a] EXCEPT !.at = "settle", !.touched = t])
      BY <1>0, <1>7, <2>1 DEF GoodCall, CallType, Steps, Perform
    <3>2. QED
      BY <3>1, GoodCalls DEF Replies
  <2>2. QED
    BY <1>7, <2>1 DEF Perform
<1>8. CASE Settle(a)
  BY <1>0, <1>8, GoodCalls DEF Settle, GoodCall, Steps
<1>9. CASE WaitEnds(a)
  BY <1>0, <1>9, GoodCalls DEF WaitEnds, Return, Replies
<1>10. QED
  BY <1>1, <1>2, <1>3, <1>4, <1>5, <1>6, <1>7, <1>8, <1>9 DEF Continue

\* A call that begins.
LEMMA StartCall ==
  ASSUME IInv, NEW a \in Agents, Start(a)
  PROVE  \E c : GoodCall(c) /\ Goto(a, c)
<1>1. \A at \in Steps \ {"idle", "find", "perform", "settle"}, n \in Names :
        GoodCall(Busy(at, n))
  BY GoodCalls
<1>2. \A r \in Replies : GoodCall(Idle(r, FALSE))
  BY GoodCalls
<1>3. ASSUME NEW n \in Names, Close(a, n)
      PROVE  \E c : GoodCall(c) /\ Goto(a, c)
  BY <1>2, <1>3 DEF Close, Refuse, Replies
<1>4. ASSUME NEW n \in Names, Wait(a, n)
      PROVE  \E c : GoodCall(c) /\ Goto(a, c)
  BY <1>1, <1>2, <1>4 DEF Wait, Replies, Steps
<1>5. ASSUME NEW n \in Names, NEW op \in Ops, EnsureKnown(a, n, op)
      PROVE  \E c : GoodCall(c) /\ Goto(a, c)
  BY <1>1, <1>2, <1>5 DEF EnsureKnown, Ensured, Ops, Replies, Steps
<1>6. ASSUME NEW n \in Names, NEW op \in Ops, EnsureLaunch(a, n, op)
      PROVE  \E c : GoodCall(c) /\ Goto(a, c)
  <2>1. GoodCall(Busy("launch", n))
    BY <1>1 DEF Steps
  <2>2. GoodCall([Busy("launch", n) EXCEPT !.op = op])
    BY <2>1 DEF GoodCall, CallType, Busy, Idle
  <2>3. QED
    BY <1>6, <2>2 DEF EnsureLaunch
<1>7. ASSUME NEW n \in Names, NEW ref \in Targets, Check(a, n, ref)
      PROVE  \E c : GoodCall(c) /\ Goto(a, c)
  <2>1. CASE Resolve(a, n) /\ Passes(sessions[n], ref)
    <3> DEFINE c == [Busy("find", n) EXCEPT !.ref = ref, !.page = sessions[n].page]
    <3>1. sessions[n].page \in PageIds
      BY <2>1 DEF Resolve, Access, IInv, RefInv, SessionsOwnPages
    <3>2. ref \in Refs /\ ref # NoRef
      BY BrowserAssumption DEF Targets, Refs, NoRef, Ref, Elems
    <3>3. GoodCall(c)
      BY <3>1, <3>2 DEF GoodCall, CallType, Busy, Idle, Steps, Ops, Replies
    <3>4. QED
      BY <1>7, <2>1, <3>3 DEF Check
  <2>2. CASE ~(Resolve(a, n) /\ Passes(sessions[n], ref))
    BY <1>2, <1>7, <2>2 DEF Check, Refuse, Replies
  <2>3. QED
    BY <2>1, <2>2
<1>8. ASSUME NEW n \in Names, NEW ref \in Targets, AssertExists(a, n, ref)
      PROVE  \E c : GoodCall(c) /\ Goto(a, c)
  BY <1>2, <1>8 DEF AssertExists, Refuse, Replies
<1>9. QED
  BY <1>3, <1>4, <1>5, <1>6, <1>7, <1>8 DEF Start

\* Stamps are never forgotten.
LEMMA NamedGrows ==
  ASSUME TypeOK, RefInv, Next
  PROVE  named \subseteq named'
<1>1. ASSUME NEW n \in Names, NEW o \in {"ok", "lost", "failed"}, Take(n, o)
      PROVE  named \subseteq named'
  BY <1>1 DEF Take
<1>2. QED
  BY <1>1, NextEffects DEF Spared, Snapped, Closed, Opened, Changed

ActsOnNamedElement ==
  \A a \in Agents :
    call[a].at \in {"perform", "settle"} =>
      [page |-> call[a].page, ref |-> call[a].ref, doc |-> call[a].doc,
       elem |-> call[a].elem] \in named

CallsOK ==
  call \in [Agents -> CallType] /\ CallsInStep /\ ActsOnNamedElement /\ RefusedIsUntouched

LEMMA CallsKept ==
  ASSUME IInv, Next
  PROVE  CallsOK'
<1>1. named \subseteq named'
  BY NamedGrows DEF IInv
<1>2. call \in [Agents -> CallType] /\ \A a \in Agents : GoodCall(call[a])
  BY GoodCalls DEF IInv, TypeOK
<1>3. \/ call' = call
      \/ \E a \in Agents : \E c : GoodCall(c) /\ Goto(a, c)
  BY ContinueCall, StartCall DEF Next, PageChanges
<1>4. call' \in [Agents -> CallType] /\ \A a \in Agents : GoodCall(call'[a])
  BY <1>2, <1>3 DEF Goto, GoodCall
<1>5. QED
  BY <1>1, <1>4 DEF CallsOK, GoodCall, CallsInStep, ActsOnNamedElement,
                    RefusedIsUntouched

\* What the harnesses keep, and the bounds.
HarnessTypeOK ==
  /\ deploy \in Deployments
  /\ known \in [Harnesses -> SUBSET Names]
  /\ holder \in [Harnesses -> Agents \union {Nobody}]
  /\ calls \in 0 .. MaxCalls /\ changes \in 0 .. MaxChanges

LEMMA HarnessTypes ==
  ASSUME TypeOK, RefInv, Next
  PROVE  HarnessTypeOK'
<1>0. HarnessTypeOK /\ \A a \in Agents : HarnessOf(a) \in Harnesses
  BY TenantOfType DEF TypeOK, HarnessTypeOK
<1>1. ASSUME NEW a \in Agents, Begin(a)
      PROVE  calls' \in 0 .. MaxCalls
  BY <1>0, <1>1, BrowserAssumption DEF Begin, HarnessTypeOK
<1>2. ASSUME NEW a \in Agents, Launched(a)
      PROVE  HarnessTypeOK'
  <2>1. call[a].name \in Names
    BY <1>2 DEF Launched, RefInv, CallsInStep
  <2>2. known' \in [Harnesses -> SUBSET Names]
    BY <1>0, <1>2, <2>1 DEF Launched, HarnessTypeOK
  <2>3. QED
    BY <1>0, <1>2, <2>2 DEF Launched, Unlock, HarnessTypeOK
<1>3. ASSUME NEW a \in Agents, LaunchFails(a)
      PROVE  HarnessTypeOK'
  BY <1>0, <1>3 DEF LaunchFails, Unlock, HarnessTypeOK
<1>4. ASSUME NEW a \in Agents, NEW n \in Names, NEW op \in Ops, EnsureLaunch(a, n, op)
      PROVE  HarnessTypeOK'
  <2>1. calls' \in 0 .. MaxCalls
    BY <1>1, <1>4 DEF EnsureLaunch
  <2>2. QED
    BY <1>0, <1>4, <2>1 DEF EnsureLaunch, HarnessTypeOK
<1>5. ASSUME NEW a \in Agents, NEW n \in Names, NEW op \in Ops,
             Close(a, n) \/ Wait(a, n) \/ EnsureKnown(a, n, op)
      PROVE  HarnessTypeOK'
  <2>1. calls' \in 0 .. MaxCalls
    BY <1>1, <1>5 DEF Close, Wait, EnsureKnown
  <2>2. QED
    BY <1>0, <1>5, <2>1 DEF Close, Wait, EnsureKnown, Refuse, harness, HarnessTypeOK
<1>6. ASSUME NEW a \in Agents, NEW n \in Names, NEW ref \in Targets,
             Check(a, n, ref) \/ AssertExists(a, n, ref)
      PROVE  HarnessTypeOK'
  <2>1. calls' \in 0 .. MaxCalls
    BY <1>1, <1>6 DEF Check, AssertExists
  <2>2. UNCHANGED <<deploy, known, holder, changes>>
    BY <1>6 DEF Check, AssertExists, Refuse, harness
  <2>3. QED
    BY <1>0, <2>1, <2>2 DEF HarnessTypeOK
<1>7. ASSUME NEW a \in Agents,
             \/ Navigate(a) \/ Snapshot(a) \/ Record(a) \/ Find(a) \/ Perform(a)
             \/ Settle(a) \/ WaitEnds(a)
      PROVE  HarnessTypeOK'
  BY <1>0, <1>7 DEF Navigate, Snapshot, Record, Find, Perform, Settle, WaitEnds,
                    harness, HarnessTypeOK
<1>8. ASSUME NEW p \in PageIds, PageChanges(p)
      PROVE  HarnessTypeOK'
  BY <1>0, <1>8, BrowserAssumption DEF PageChanges, harness, HarnessTypeOK
<1>9. ASSUME NEW a \in Agents, NEW n \in Names, Close(a, n) \/ Wait(a, n)
      PROVE  HarnessTypeOK'
  BY <1>5, <1>9 DEF Ops
<1>10. QED
  BY <1>2, <1>3, <1>4, <1>5, <1>6, <1>7, <1>8, <1>9 DEF Next, Start, Continue

-----------------------------------------------------------------------------
(* Sessions, pages and stamps stay in order, effect by effect.             *)

ProviderOK ==
  SessionsOwnPages /\ NamedSoFar /\ StampsAreNamed /\ RefNamesOneElement

\* Whatever a page does, its tenant stays, and every stamp it still has is on
\* the element and the document it was on before.
LEMMA ChangesKeep ==
  ASSUME NEW page \in PageType, NEW new \in Changes(page)
  PROVE  /\ new.tenant = page.tenant
         /\ new.alive => \A e \in Elems :
              new.stamp[e] # NoRef => new.stamp[e] = page.stamp[e] /\ new.doc = page.doc
<1>1. CASE new \in Altered(page)
  BY <1>1 DEF Altered, PageType
<1>2. CASE \E shown \in SUBSET Elems : new = Loaded(page, shown)
  BY <1>2 DEF Loaded, PageType
<1>3. CASE new = Dead(page)
  BY <1>3 DEF Dead, Page
<1>4. QED
  BY <1>1, <1>2, <1>3 DEF Changes

LEMMA SnappedKeeps ==
  ASSUME TypeOK, ProviderOK, Snapped
  PROVE  ProviderOK'
<1>1. PICK n \in Names, o \in {"ok", "lost", "failed"} :
        /\ sessions[n].there /\ Take(n, o)
        /\ o # "failed" => pages[sessions[n].page].alive
  BY DEF Snapped
<1> DEFINE p == sessions[n].page
           v == sessions[n].version + 1
           page == pages[p]
           new == {[page |-> p, ref |-> Ref(v, Rank(page, e)), doc |-> page.doc,
                    elem |-> e] : e \in Counted(page)}
<1>2. p \in PageIds /\ page \in PageType /\ sessions[n] \in SessionType /\ v \in Nat
  BY <1>1 DEF TypeOK, ProviderOK, SessionsOwnPages, SessionType
<1>3. \A m \in Names :
        /\ sessions'[m].there = sessions[m].there
        /\ sessions'[m].tenant = sessions[m].tenant
        /\ sessions'[m].page = sessions[m].page
        /\ sessions'[m].version = IF m = n THEN v ELSE sessions[m].version
  <2>1. sessions' = [sessions EXCEPT ![n].version = v,
                       ![n].tracked = IF o = "ok" THEN Tracked(page) ELSE @]
    BY <1>1 DEF Take
  <2>2. QED
    BY <1>2, <2>1 DEF TypeOK, SessionType
<1>4. /\ \A q \in PageIds : pages'[q].tenant = pages[q].tenant
      /\ SessionsOwnPages'
  <2>1. \/ pages' = pages
        \/ pages' = [pages EXCEPT ![p].stamp = Stamped(page, v)]
    BY <1>1 DEF Take
  <2>2. \A q \in PageIds : pages'[q].tenant = pages[q].tenant
    BY <1>2, <2>1 DEF TypeOK, PageType
  <2>3. QED
    BY <1>3, <2>2 DEF ProviderOK, SessionsOwnPages
<1>5. CASE o = "failed"
  <2>1. pages' = pages /\ named' = named
    BY <1>1, <1>5 DEF Take
  <2>2. NamedSoFar'
    <3>1. ASSUME NEW x \in named, NEW m \in Names,
                 sessions'[m].there, sessions'[m].page = x.page
          PROVE  x.ref.v <= sessions'[m].version
      <4>1. x.ref.v <= sessions[m].version /\ x.ref.v \in Nat
        BY <1>3, <3>1 DEF ProviderOK, NamedSoFar, TypeOK, NamedType, Refs
      <4>2. QED
        BY <1>2, <1>3, <4>1 DEF SessionType
    <3>2. QED
      BY <2>1, <3>1 DEF ProviderOK, NamedSoFar
  <2>3. QED
    BY <1>4, <2>1, <2>2 DEF ProviderOK, StampsAreNamed, RefNamesOneElement
<1>6. CASE o # "failed"
  <2>1. /\ pages' = [pages EXCEPT ![p].stamp = Stamped(page, v)]
        /\ named' = named \union new
    BY <1>1, <1>6 DEF Take
  <2>2. \A x \in named : x.page = p => x.ref.v <= sessions[n].version /\ x.ref.v # v
    <3>1. TAKE x \in named
    <3>2. x.page = p => x.ref.v <= sessions[n].version
      BY <1>1 DEF ProviderOK, NamedSoFar
    <3>3. sessions[n].version \in Nat /\ x.ref.v \in Nat
      BY <1>2 DEF TypeOK, NamedType, Refs, SessionType
    <3>4. QED
      BY <3>2, <3>3
  <2>3. \A x \in new : x.page = p /\ x.ref.v = v
    BY DEF Ref
  <2>4. NamedSoFar'
    <3>1. page.tenant # Nobody
      BY <1>1, BrowserAssumption DEF ProviderOK, SessionsOwnPages
    <3>2. ASSUME NEW x \in named', NEW m \in Names,
                 sessions'[m].there, sessions'[m].page = x.page
          PROVE  x.ref.v <= sessions'[m].version
      <4>1. CASE x \in named
        <5>1. x.ref.v <= sessions[m].version /\ x.ref.v \in Nat
          BY <1>3, <3>2, <4>1 DEF ProviderOK, NamedSoFar, TypeOK, NamedType, Refs
        <5>2. QED
          BY <1>2, <1>3, <5>1 DEF SessionType
      <4>2. CASE x \in new
        <5>1. m = n
          BY <1>1, <1>3, <2>3, <3>2, <4>2 DEF ProviderOK, SessionsOwnPages
        <5>2. QED
          BY <1>2, <1>3, <2>3, <4>2, <5>1
      <4>3. QED
        BY <2>1, <4>1, <4>2
    <3>3. \A x \in named : x.page \in PageIds
      BY DEF TypeOK, NamedType
    <3>4. \A x \in named' : pages'[x.page].tenant # Nobody
      BY <1>2, <1>4, <2>1, <2>3, <3>1, <3>3 DEF ProviderOK, NamedSoFar
    <3>5. QED
      BY <3>2, <3>4 DEF NamedSoFar
  <2>5. StampsAreNamed'
    <3>1. ASSUME NEW q \in PageIds, NEW e \in Elems,
                 pages'[q].alive, pages'[q].stamp[e] # NoRef
          PROVE  [page |-> q, ref |-> pages'[q].stamp[e], doc |-> pages'[q].doc,
                  elem |-> e] \in named'
      <4>1. CASE q = p
        <5>1. /\ pages'[q].stamp = Stamped(page, v) /\ pages'[q].doc = page.doc
              /\ page.alive
          BY <1>1, <1>2, <1>6, <2>1, <4>1 DEF TypeOK, PageType
        <5>2. CASE e \in Counted(page)
          BY SMTT(90), <2>1, <4>1, <5>1, <5>2 DEF Stamped
        <5>3. CASE e \notin Counted(page)
          <6>1. pages'[q].stamp[e] = page.stamp[e]
            BY <3>1, <5>1, <5>3 DEF Stamped
          <6>2. QED
            BY SMTT(30), <1>2, <2>1, <3>1, <4>1, <5>1, <6>1 DEF ProviderOK, StampsAreNamed
        <5>4. QED
          BY <5>2, <5>3
      <4>2. CASE q # p
        <5>1. pages'[q] = pages[q]
          BY <2>1, <4>2 DEF TypeOK
        <5>2. [page |-> q, ref |-> pages[q].stamp[e], doc |-> pages[q].doc,
               elem |-> e] \in named
          BY <3>1, <5>1 DEF ProviderOK, StampsAreNamed
        <5>3. named \subseteq named'
          BY <2>1
        <5>4. QED
          BY <5>1, <5>2, <5>3
      <4>3. QED
        BY <4>1, <4>2
    <3>2. QED
      BY <3>1 DEF StampsAreNamed
  <2>6. RefNamesOneElement'
    <3>1. ASSUME NEW x \in new, NEW y \in new, x.ref = y.ref
          PROVE  x = y
      <4>1. PICK e \in Counted(page) :
              x = [page |-> p, ref |-> Ref(v, Rank(page, e)), doc |-> page.doc, elem |-> e]
        OBVIOUS
      <4>2. PICK f \in Counted(page) :
              y = [page |-> p, ref |-> Ref(v, Rank(page, f)), doc |-> page.doc, elem |-> f]
        OBVIOUS
      <4>3. Rank(page, e) = Rank(page, f)
        BY <3>1, <4>1, <4>2 DEF Ref
      <4>4. e \in page.shown /\ f \in page.shown /\ page.shown \in SUBSET Elems
        BY <1>2 DEF Counted, PageType
      <4>5. e = f
        BY <4>3, <4>4, RankDiffers
      <4>6. QED
        BY <4>1, <4>2, <4>5
    <3>2. QED
      BY <2>1, <2>2, <2>3, <3>1 DEF ProviderOK, RefNamesOneElement
  <2>7. QED
    BY <1>4, <2>4, <2>5, <2>6 DEF ProviderOK
<1>7. QED
  BY <1>5, <1>6

LEMMA ClosedKeeps ==
  ASSUME TypeOK, ProviderOK, Closed
  PROVE  ProviderOK'
<1>1. PICK n \in Names :
        /\ sessions[n].there
        /\ sessions' = [sessions EXCEPT ![n] = NoSession]
        /\ pages' = [pages EXCEPT ![sessions[n].page] = Dead(@)]
        /\ UNCHANGED named
  BY DEF Closed
<1>2. \A m \in Names : sessions'[m].there => m # n /\ sessions'[m] = sessions[m]
  BY <1>1 DEF NoSession, Session, TypeOK
<1>3. \A q \in PageIds :
        /\ pages'[q].tenant = pages[q].tenant
        /\ pages'[q].alive => pages'[q] = pages[q]
  BY <1>1 DEF Dead, Page, TypeOK
<1>4. SessionsOwnPages'
  BY <1>2, <1>3 DEF ProviderOK, SessionsOwnPages
<1>5. \A x \in named : x.page \in PageIds
  BY DEF TypeOK, NamedType
<1>6. NamedSoFar'
  BY <1>1, <1>2, <1>3, <1>5 DEF ProviderOK, NamedSoFar
<1>7. StampsAreNamed'
  BY <1>1, <1>3 DEF ProviderOK, StampsAreNamed
<1>8. QED
  BY <1>1, <1>4, <1>6, <1>7 DEF ProviderOK, RefNamesOneElement

LEMMA OpenedKeeps ==
  ASSUME TypeOK, ProviderOK, Opened
  PROVE  ProviderOK'
<1>1. PICK n \in Names, t \in Tenants, p \in PageIds :
        /\ pages[p] = NoPage
        /\ sessions' = [sessions EXCEPT ![n] = Session(t, p)]
        /\ pages' = [q \in PageIds |->
                       IF q = p THEN Page(t)
                       ELSE IF sessions[n].there /\ q = sessions[n].page THEN Dead(pages[q])
                       ELSE pages[q]]
        /\ UNCHANGED named
  BY DEF Opened
<1>2. pages[p].tenant = Nobody /\ Nobody \notin Tenants
  BY <1>1, BrowserAssumption DEF NoPage, Dead, Page
<1>3. \A m \in Names : sessions[m].there => sessions[m].page # p
  BY <1>2 DEF ProviderOK, SessionsOwnPages
<1>4. \A m \in Names : m # n => sessions'[m] = sessions[m]
  BY <1>1 DEF TypeOK
<1>5. sessions'[n].page = p /\ sessions'[n].tenant = t
  BY <1>1 DEF Session, TypeOK
<1>6. \A q \in PageIds : q # p =>
        /\ pages'[q].tenant = pages[q].tenant
        /\ pages'[q].alive => pages'[q] = pages[q]
  BY <1>1 DEF Dead, Page
<1>7. pages'[p] = Page(t)
  BY <1>1
<1>8. SessionsOwnPages'
  <2>1. \A m \in Names : sessions'[m].there =>
          /\ sessions'[m].page \in PageIds
          /\ sessions'[m].tenant = pages'[sessions'[m].page].tenant
          /\ sessions'[m].tenant \in Tenants
    BY <1>3, <1>4, <1>5, <1>6, <1>7 DEF Page, ProviderOK, SessionsOwnPages
  <2>2. QED
    BY <1>3, <1>4, <1>5, <2>1 DEF ProviderOK, SessionsOwnPages
<1>9. \A x \in named : x.page \in PageIds \ {p}
  BY <1>2 DEF TypeOK, NamedType, ProviderOK, NamedSoFar
<1>10. NamedSoFar'
  BY <1>1, <1>4, <1>5, <1>6, <1>9 DEF ProviderOK, NamedSoFar
<1>11. StampsAreNamed'
  <2>1. \A e \in Elems : pages'[p].stamp[e] = NoRef
    BY <1>7 DEF Page
  <2>2. QED
    BY <1>1, <1>6, <2>1 DEF ProviderOK, StampsAreNamed
<1>12. QED
  BY <1>1, <1>8, <1>10, <1>11 DEF ProviderOK, RefNamesOneElement

LEMMA ChangedKeeps ==
  ASSUME TypeOK, ProviderOK, Changed
  PROVE  ProviderOK'
<1>1. PICK p \in PageIds : \E page \in Changes(pages[p]) :
        /\ pages[p].alive /\ pages' = [pages EXCEPT ![p] = page]
        /\ UNCHANGED <<sessions, named>>
  BY DEF Changed
<1>2. PICK page \in Changes(pages[p]) : pages' = [pages EXCEPT ![p] = page]
  BY <1>1
<1>3. /\ page.tenant = pages[p].tenant
      /\ page.alive => \A e \in Elems :
           page.stamp[e] # NoRef =>
             page.stamp[e] = pages[p].stamp[e] /\ page.doc = pages[p].doc
  BY ChangesKeep DEF TypeOK
<1>4. \A q \in PageIds : pages'[q] = IF q = p THEN page ELSE pages[q]
  BY <1>2 DEF TypeOK
<1>5. SessionsOwnPages'
  BY <1>1, <1>3, <1>4 DEF ProviderOK, SessionsOwnPages
<1>6. \A x \in named : x.page \in PageIds
  BY DEF TypeOK, NamedType
<1>7. NamedSoFar'
  BY <1>1, <1>3, <1>4, <1>6 DEF ProviderOK, NamedSoFar
<1>8. StampsAreNamed'
  BY <1>1, <1>3, <1>4 DEF ProviderOK, StampsAreNamed
<1>9. QED
  BY <1>1, <1>5, <1>7, <1>8 DEF ProviderOK, RefNamesOneElement

-----------------------------------------------------------------------------
(* The browsers an agent was shown.                                        *)

\* A browser that has ended stays so, and a launched one keeps its tenant.
LEMMA EndedStaysEnded ==
  ASSUME TypeOK, ProviderOK, Spared \/ Snapped \/ Closed \/ Opened \/ Changed,
         NEW p \in PageIds, pages[p].tenant # Nobody
  PROVE  pages'[p].tenant = pages[p].tenant /\ (pages'[p].alive => pages[p].alive)
<1>1. CASE Spared
  BY <1>1 DEF Spared
<1>2. CASE Snapped
  <2>1. PICK n \in Names, o \in {"ok", "lost", "failed"} :
          /\ sessions[n].there /\ Take(n, o)
          /\ o # "failed" => pages[sessions[n].page].alive
    BY <1>2 DEF Snapped
  <2>2. \/ pages' = pages
        \/ pages' = [pages EXCEPT ![sessions[n].page].stamp =
                        Stamped(pages[sessions[n].page], sessions[n].version + 1)]
    BY <2>1 DEF Take
  <2>3. QED
    BY <2>2 DEF TypeOK, PageType
<1>3. CASE Closed
  BY <1>3 DEF Closed, TypeOK, Dead, Page
<1>4. CASE Opened
  BY <1>4 DEF Opened, NoPage, Dead, Page
<1>5. CASE Changed
  <2>1. PICK q \in PageIds : \E page \in Changes(pages[q]) :
          pages[q].alive /\ pages' = [pages EXCEPT ![q] = page]
    BY <1>5 DEF Changed
  <2>2. PICK page \in Changes(pages[q]) : pages' = [pages EXCEPT ![q] = page]
    BY <2>1
  <2>3. page.tenant = pages[q].tenant
    BY ChangesKeep DEF TypeOK
  <2>4. QED
    BY <2>1, <2>2, <2>3 DEF TypeOK
<1>6. QED
  BY <1>1, <1>2, <1>3, <1>4, <1>5

\* As long as a session's browser lives, the session keeps it.
LEMMA LivingStays ==
  ASSUME TypeOK, ProviderOK, Spared \/ Snapped \/ Closed \/ Opened \/ Changed,
         NEW n \in Names, sessions[n].there, pages'[sessions[n].page].alive
  PROVE  sessions'[n].there /\ sessions'[n].page = sessions[n].page
<1>0. sessions[n].page \in PageIds
  BY DEF ProviderOK, SessionsOwnPages
<1>1. CASE Spared
  BY <1>1 DEF Spared
<1>2. CASE Snapped
  <2>1. PICK m \in Names, o \in {"ok", "lost", "failed"} : Take(m, o)
    BY <1>2 DEF Snapped
  <2>2. sessions' = [sessions EXCEPT ![m].version = sessions[m].version + 1,
          ![m].tracked = IF o = "ok" THEN Tracked(pages[sessions[m].page]) ELSE @]
    BY <2>1 DEF Take
  <2>3. QED
    BY <2>2 DEF TypeOK, SessionType
<1>3. CASE Closed
  <2>1. PICK m \in Names :
          /\ sessions' = [sessions EXCEPT ![m] = NoSession]
          /\ pages' = [pages EXCEPT ![sessions[m].page] = Dead(@)]
    BY <1>3 DEF Closed
  <2>2. m # n
    BY <1>0, <2>1 DEF TypeOK, Dead, Page
  <2>3. QED
    BY <2>1, <2>2 DEF TypeOK
<1>4. CASE Opened
  <2>1. PICK m \in Names, t \in Tenants, p \in PageIds :
          /\ pages[p] = NoPage
          /\ sessions' = [sessions EXCEPT ![m] = Session(t, p)]
          /\ pages' = [q \in PageIds |->
                IF q = p THEN Page(t)
                ELSE IF sessions[m].there /\ q = sessions[m].page THEN Dead(pages[q])
                ELSE pages[q]]
    BY <1>4 DEF Opened
  <2>2. sessions[n].page # p
    BY <2>1, BrowserAssumption DEF ProviderOK, SessionsOwnPages, NoPage, Dead, Page
  <2>3. m # n
    BY <1>0, <2>1, <2>2 DEF Dead, Page
  <2>4. QED
    BY <2>1, <2>3 DEF TypeOK
<1>5. CASE Changed
  BY <1>5 DEF Changed
<1>6. QED
  BY <1>1, <1>2, <1>3, <1>4, <1>5

\* An agent is newly shown the page of the session its name stands for, and
\* that ends its snapshot.
LEMMA SeenGrows ==
  ASSUME IInv, Next, NEW s \in seen', s \notin seen
  PROVE  \E a \in Agents :
           /\ call[a].at = "snapshot" /\ call'[a].at = "record"
           /\ s = [agent |-> a, name |-> call[a].name,
                   page |-> sessions[call[a].name].page]
           /\ Access(a, call[a].name)
<1>1. ASSUME NEW a \in Agents, Snapshot(a)
      PROVE  /\ call[a].at = "snapshot" /\ call'[a].at = "record"
             /\ s = [agent |-> a, name |-> call[a].name,
                     page |-> sessions[call[a].name].page]
             /\ Access(a, call[a].name)
  <2>1. Access(a, call[a].name)
    BY <1>1 DEF Snapshot, history
  <2>2. PICK o : /\ o = "ok"
                 /\ Goto(a, [Busy("record", call[a].name) EXCEPT
                               !.touched = call[a].touched])
                 /\ seen' = seen \union {[agent |-> a, name |-> call[a].name,
                                          page |-> sessions[call[a].name].page]}
    BY <1>1, <2>1 DEF Snapshot
  <2>3. call'[a].at = "record"
    BY <2>2 DEF Goto, Busy, Idle, IInv, TypeOK
  <2>4. call[a].at = "snapshot"
    BY <1>1 DEF Snapshot
  <2>5. QED
    BY <2>1, <2>2, <2>3, <2>4
<1>2. ASSUME NEW a \in Agents, NEW n \in Names, Close(a, n) \/ Wait(a, n)
      PROVE  FALSE
  BY <1>2 DEF Close, Wait, Refuse, history
<1>3. ASSUME NEW a \in Agents, NEW n \in Names, NEW op \in Ops,
             EnsureKnown(a, n, op) \/ EnsureLaunch(a, n, op)
      PROVE  FALSE
  BY <1>3 DEF EnsureKnown, EnsureLaunch, history
<1>4. ASSUME NEW a \in Agents, NEW n \in Names, NEW ref \in Targets,
             Check(a, n, ref) \/ AssertExists(a, n, ref)
      PROVE  FALSE
  BY <1>4 DEF Check, AssertExists, Refuse, history
<1>5. ASSUME NEW a \in Agents,
             \/ Launched(a) \/ LaunchFails(a) \/ Navigate(a) \/ Record(a) \/ Find(a)
             \/ Perform(a) \/ Settle(a) \/ WaitEnds(a)
      PROVE  FALSE
  BY <1>5 DEF Launched, LaunchFails, Navigate, Record, Find, Perform, Settle, WaitEnds,
              history
<1>6. ASSUME NEW p \in PageIds, PageChanges(p)
      PROVE  FALSE
  BY <1>6 DEF PageChanges, history
<1>7. QED
  BY <1>1, <1>2, <1>3, <1>4, <1>5, <1>6 DEF Next, Start, Continue

\* A call that looks for its element, or has found it, does so in the browser
\* its agent was shown.
Seeking == {"find", "perform", "settle"}

KeepsToSeen ==
  \A a \in Agents, s \in seen :
    call[a].at \in Seeking /\ s.agent = a /\ s.name = call[a].name /\ pages[s.page].alive
      => s.page = call[a].page

\* A call comes to look for its element by its check, and then stays with the
\* page it has.
LEMMA SeekingStep ==
  ASSUME IInv, NEW a \in Agents, Start(a) \/ Continue(a), call'[a].at \in Seeking
  PROVE  \/ /\ call[a].at \in Seeking
            /\ call'[a].name = call[a].name /\ call'[a].page = call[a].page
         \/ /\ call'[a].name \in Names
            /\ call'[a].page = sessions[call'[a].name].page
            /\ sessions[call'[a].name].there
<1>0. call[a] \in CallType
  BY DEF IInv, TypeOK
<1>1. \A c : Goto(a, c) => call'[a] = c
  BY DEF Goto, IInv, TypeOK
<1>2. \A r, t : Idle(r, t).at \notin Seeking
  BY DEF Idle, Seeking
<1>3. \A at, n : Busy(at, n).at = at
  BY DEF Busy, Idle
<1>4. ASSUME NEW n \in Names, Close(a, n) \/ Wait(a, n)
      PROVE  FALSE
  <2>1. CASE Close(a, n)
    <3>1. \E r : Goto(a, Idle(r, FALSE))
      BY <2>1 DEF Close, Refuse
    <3>2. QED
      BY <1>1, <1>2, <3>1
  <2>2. CASE Wait(a, n)
    <3>1. Goto(a, Busy("wait", n)) \/ Goto(a, Idle("error", FALSE))
      BY <2>2 DEF Wait
    <3>2. call'[a].at = "wait" \/ call'[a].at \notin Seeking
      BY <1>1, <1>2, <1>3, <3>1
    <3>3. QED
      BY <3>2 DEF Seeking
  <2>3. QED
    BY <1>4, <2>1, <2>2
<1>5. ASSUME NEW n \in Names, NEW op \in Ops, EnsureKnown(a, n, op)
      PROVE  FALSE
  BY <1>1, <1>2, <1>3, <1>5 DEF EnsureKnown, Ensured, Ops, Seeking
<1>6. ASSUME NEW n \in Names, NEW op \in Ops, EnsureLaunch(a, n, op)
      PROVE  FALSE
  <2>1. call'[a] = [Busy("launch", n) EXCEPT !.op = op]
    BY <1>1, <1>6 DEF EnsureLaunch
  <2>2. call'[a].at = "launch"
    BY <2>1 DEF Busy, Idle
  <2>3. QED
    BY <2>2 DEF Seeking
<1>7. ASSUME NEW n \in Names, NEW ref \in Targets, AssertExists(a, n, ref)
      PROVE  FALSE
  BY <1>1, <1>2, <1>7 DEF AssertExists, Refuse
<1>8. ASSUME NEW n \in Names, NEW ref \in Targets, Check(a, n, ref)
      PROVE  /\ call'[a].name \in Names
             /\ call'[a].page = sessions[call'[a].name].page
             /\ sessions[call'[a].name].there
  <2>1. Resolve(a, n) /\ Passes(sessions[n], ref)
    BY <1>1, <1>2, <1>8 DEF Check, Refuse
  <2>2. call'[a] = [Busy("find", n) EXCEPT !.ref = ref, !.page = sessions[n].page]
    BY <1>1, <1>8, <2>1 DEF Check
  <2>3. call'[a].name = n /\ call'[a].page = sessions[n].page
    BY <2>2 DEF Busy, Idle
  <2>4. QED
    BY <2>1, <2>3 DEF Resolve, Access
<1>9. CASE Launched(a)
  <2>1. \/ Goto(a, Idle("ok", FALSE))
        \/ Goto(a, Busy(call[a].op, call[a].name))
    BY <1>9 DEF Launched, Ensured
  <2>2. call'[a].at = call[a].op \/ call'[a].at \notin Seeking
    BY <1>1, <1>2, <1>3, <2>1
  <2>3. call[a].op \notin Seeking
    BY <1>0 DEF CallType, Ops, Seeking
  <2>4. QED
    BY <2>2, <2>3
<1>10. CASE LaunchFails(a) \/ Navigate(a) \/ Record(a) \/ WaitEnds(a)
  BY <1>1, <1>2, <1>10 DEF LaunchFails, Navigate, Record, WaitEnds, Return
<1>11. CASE Snapshot(a)
  <2>1. [Busy("record", call[a].name) EXCEPT !.touched = call[a].touched].at = "record"
    BY DEF Busy, Idle
  <2>2. QED
    BY <1>1, <1>2, <1>11, <2>1 DEF Snapshot, Return, Seeking
<1>12. CASE Settle(a)
  <2>1. [Busy("snapshot", call[a].name) EXCEPT !.touched = call[a].touched].at
          = "snapshot"
    BY DEF Busy, Idle
  <2>2. QED
    BY <1>1, <1>12, <2>1 DEF Settle, Seeking
<1>13. CASE Find(a)
  <2>1. PICK doc, e : \/ Goto(a, [call[a] EXCEPT !.at = "perform", !.doc = doc, !.elem = e])
                      \/ Return(a, "refused")
    BY <1>13 DEF Find
  <2>2. CASE Goto(a, [call[a] EXCEPT !.at = "perform", !.doc = doc, !.elem = e])
    <3>1. call'[a] = [call[a] EXCEPT !.at = "perform", !.doc = doc, !.elem = e]
      BY <1>1, <2>2
    <3>2. call'[a].name = call[a].name /\ call'[a].page = call[a].page
      BY <1>0, <3>1 DEF CallType
    <3>3. call[a].at \in Seeking
      BY <1>13 DEF Find, Seeking
    <3>4. QED
      BY <3>2, <3>3
  <2>3. CASE Return(a, "refused")
    BY <1>1, <1>2, <2>3 DEF Return
  <2>4. QED
    BY <2>1, <2>2, <2>3
<1>14. CASE Perform(a)
  <2>1. PICK touched \in BOOLEAN :
           \/ Goto(a, [call[a] EXCEPT !.at = "settle", !.touched = touched])
           \/ Goto(a, Idle("error", touched))
    BY <1>14 DEF Perform
  <2>2. CASE Goto(a, [call[a] EXCEPT !.at = "settle", !.touched = touched])
    <3>1. call'[a] = [call[a] EXCEPT !.at = "settle", !.touched = touched]
      BY <1>1, <2>2
    <3>2. call'[a].name = call[a].name /\ call'[a].page = call[a].page
      BY <1>0, <3>1 DEF CallType
    <3>3. call[a].at \in Seeking
      BY <1>14 DEF Perform, Seeking
    <3>4. QED
      BY <3>2, <3>3
  <2>3. CASE Goto(a, Idle("error", touched))
    BY <1>1, <1>2, <2>3
  <2>4. QED
    BY <2>1, <2>2, <2>3
<1>15. QED
  BY <1>4, <1>5, <1>6, <1>7, <1>8, <1>9, <1>10, <1>11, <1>12, <1>13, <1>14
  DEF Start, Continue

LEMMA SeenKept ==
  ASSUME IInv, Next
  PROVE  SeenInOrder' /\ KeepsToSeen' /\ seen' \subseteq SeenType
<1>1. TypeOK /\ RefInv /\ ProviderOK /\ SeenInOrder
  BY DEF IInv, RefInv, ProviderOK
<1>2. Spared \/ Snapped \/ Closed \/ Opened \/ Changed
  BY <1>1, NextEffects
<1>3. KeepsToSeen
  BY DEF KeepsToSeen, Seeking, IInv, SeenInOrder, ActsOnShownElement
<1>4. seen' \subseteq SeenType
  <2>1. ASSUME NEW s \in seen', s \notin seen
        PROVE  s \in SeenType
    <3>1. PICK a \in Agents :
            /\ call[a].at = "snapshot"
            /\ s = [agent |-> a, name |-> call[a].name,
                    page |-> sessions[call[a].name].page]
            /\ Access(a, call[a].name)
      BY <2>1, SeenGrows
    <3>2. call[a].name \in Names
      BY <1>1, <3>1 DEF RefInv, CallsInStep
    <3>3. sessions[call[a].name].page \in PageIds
      BY <1>1, <3>1, <3>2 DEF Access, ProviderOK, SessionsOwnPages
    <3>4. QED
      BY <3>1, <3>2, <3>3 DEF SeenType
  <2>2. QED
    BY <1>1, <2>1 DEF TypeOK
<1>5. ASSUME NEW s \in seen'
      PROVE  /\ pages[s.page].tenant # Nobody /\ s.page \in PageIds /\ s.name \in Names
             /\ pages[s.page].alive =>
                  sessions[s.name].there /\ sessions[s.name].page = s.page
  <2>1. CASE s \in seen
    BY <1>1, <2>1 DEF SeenInOrder, TypeOK, SeenType
  <2>2. CASE s \notin seen
    <3>1. PICK a \in Agents :
            /\ call[a].at = "snapshot"
            /\ s = [agent |-> a, name |-> call[a].name,
                    page |-> sessions[call[a].name].page]
            /\ Access(a, call[a].name)
      BY <2>2, SeenGrows
    <3>2. call[a].name \in Names
      BY <1>1, <3>1 DEF RefInv, CallsInStep
    <3>3. /\ s.name = call[a].name /\ s.page = sessions[s.name].page
          /\ sessions[s.name].there
      BY <3>1 DEF Access
    <3>4. QED
      BY <1>1, <3>2, <3>3, BrowserAssumption DEF ProviderOK, SessionsOwnPages
  <2>3. QED
    BY <2>1, <2>2
<1>6. ASSUME NEW s \in seen'
      PROVE  /\ pages'[s.page].tenant # Nobody
             /\ pages'[s.page].alive =>
                  /\ pages[s.page].alive
                  /\ sessions'[s.name].there /\ sessions'[s.name].page = s.page
  BY <1>1, <1>2, <1>5, EndedStaysEnded, LivingStays
<1>7. ASSUME NEW a \in Agents, NEW s \in seen', call'[a].at \in Seeking,
             s.agent = a, s.name = call'[a].name, pages'[s.page].alive
      PROVE  s.page = call'[a].page
  <2>1. s \in seen
    <3>1. SUFFICES ASSUME s \notin seen PROVE FALSE
      OBVIOUS
    <3>2. PICK b \in Agents :
            /\ call'[b].at = "record"
            /\ s = [agent |-> b, name |-> call[b].name,
                    page |-> sessions[call[b].name].page]
      BY <3>1, SeenGrows
    <3>3. a = b
      BY <1>7, <3>2
    <3>4. QED
      BY <1>7, <3>2, <3>3 DEF Seeking
  <2>2. pages[s.page].alive /\ sessions[s.name].page = s.page
    BY <1>5, <1>6, <1>7
  <2>3. CASE call'[a] = call[a]
    BY <1>3, <1>7, <2>1, <2>2, <2>3 DEF KeepsToSeen
  <2>4. CASE call'[a] # call[a]
    <3>1. Start(a) \/ Continue(a)
      <4>1. PICK b \in Agents : Start(b) \/ Continue(b)
        BY <2>4 DEF Next, PageChanges
      <4>2. \E c : Goto(b, c)
        BY <4>1, StartCall, ContinueCall
      <4>3. a = b
        BY <2>4, <4>2 DEF Goto, IInv, TypeOK
      <4>4. QED
        BY <4>1, <4>3
    <3>2. CASE /\ call[a].at \in Seeking
               /\ call'[a].name = call[a].name /\ call'[a].page = call[a].page
      BY <1>3, <1>7, <2>1, <2>2, <3>2 DEF KeepsToSeen
    <3>3. CASE call'[a].page = sessions[call'[a].name].page
      BY <1>7, <2>2, <3>3
    <3>4. QED
      BY <1>7, <3>1, <3>2, <3>3, SeekingStep
  <2>5. QED
    BY <2>3, <2>4
<1>8. KeepsToSeen'
  BY <1>7 DEF KeepsToSeen
<1>9. SeenInOrder'
  BY <1>6, <1>8 DEF SeenInOrder, KeepsToSeen, Seeking
<1>10. QED
  BY <1>4, <1>8, <1>9

-----------------------------------------------------------------------------
LEMMA InitIInv ==
  ASSUME Init
  PROVE  IInv
<1> USE DEF Init
<1>1. ProviderTypeOK
  BY PagesAreTyped, SessionsAreTyped DEF ProviderTypeOK
<1>2. CallsOK
  <2>1. GoodCall(Idle("ok", FALSE))
    BY GoodCalls DEF Replies
  <2>2. call \in [Agents -> CallType] /\ \A a \in Agents : GoodCall(call[a])
    BY <2>1 DEF GoodCall
  <2>3. QED
    BY <2>2 DEF CallsOK, GoodCall, CallsInStep, ActsOnNamedElement, RefusedIsUntouched
<1>3. HarnessTypeOK
  BY BrowserAssumption DEF HarnessTypeOK
<1>4. ProviderOK
  <2>1. ~NoSession.there /\ ~NoPage.alive
    BY DEF NoSession, Session, NoPage, Dead, Page
  <2>2. QED
    BY <2>1 DEF ProviderOK, SessionsOwnPages, NamedSoFar, StampsAreNamed,
                RefNamesOneElement
<1>5. SeenInOrder /\ ActsOnShownElement /\ seen \subseteq SeenType
  BY <1>2 DEF SeenInOrder, ActsOnShownElement, ActsOnNamedElement, CallsOK
<1>6. QED
  BY <1>1, <1>2, <1>3, <1>4, <1>5
  DEF IInv, TypeOK, RefInv, ProviderTypeOK, CallsOK, HarnessTypeOK, ProviderOK

LEMMA StepIInv ==
  ASSUME IInv, [Next]_vars
  PROVE  IInv'
<1>1. CASE UNCHANGED vars
  BY <1>1 DEF vars, harness, history, IInv, TypeOK, RefInv, SessionsOwnPages,
              NamedSoFar, StampsAreNamed, CallsInStep, SeenInOrder, RefNamesOneElement,
              ActsOnShownElement, RefusedIsUntouched, HarnessOf
<1>2. CASE Next
  <2>1. TypeOK /\ RefInv /\ ProviderOK
    BY DEF IInv, RefInv, ProviderOK
  <2>2. ASSUME Spared PROVE ProviderOK'
    BY <2>1, <2>2 DEF Spared, ProviderOK, SessionsOwnPages, NamedSoFar, StampsAreNamed,
                      RefNamesOneElement
  <2>3. ProviderOK'
    BY <1>2, <2>1, <2>2, NextEffects, SnappedKeeps, ClosedKeeps, OpenedKeeps, ChangedKeeps
  <2>4. ProviderTypeOK' /\ HarnessTypeOK' /\ CallsOK'
    BY <1>2, <2>1, ProviderTypes, HarnessTypes, CallsKept
  <2>5. SeenInOrder' /\ KeepsToSeen' /\ seen' \subseteq SeenType
    BY <1>2, SeenKept
  <2>6. ActsOnShownElement'
    BY <2>4, <2>5 DEF CallsOK, ActsOnNamedElement, ActsOnShownElement, KeepsToSeen,
                      Seeking
  <2>7. QED
    BY <2>3, <2>4, <2>5, <2>6
    DEF IInv, TypeOK, RefInv, ProviderTypeOK, CallsOK, HarnessTypeOK, ProviderOK
<1>3. QED
  BY <1>1, <1>2

LEMMA IInvHolds == Spec => []IInv
  BY InitIInv, StepIInv, PTL DEF Spec

\* Every variable keeps its type.
THEOREM TypeCorrect == Spec => []TypeOK
  BY IInvHolds, PTL DEF IInv

\* A ref stands for one element of its browser for ever, through any number
\* of snapshots, also failed ones, and of documents.
THEOREM RefsNameOneElement == Spec => []RefNamesOneElement
  BY IInvHolds, PTL DEF IInv

\* An action is carried out on the element its ref was given to, whatever
\* happens between act's check, its search and the action, and in the browser
\* its agent was shown under that name, as long as that one lives.
THEOREM ActsReachTheirElement == Spec => []ActsOnShownElement
  BY IInvHolds, PTL DEF IInv

\* A call refused as stale or not actionable has touched nothing.
THEOREM RefusalsTouchNothing == Spec => []RefusedIsUntouched
  BY IInvHolds, PTL DEF IInv

-----------------------------------------------------------------------------
\* What a step of an agent's call does to sessions and pages: it looks its
\* session up and checks the tenant, or it opens a name.
Takeover(a, n) ==
  /\ call[a].at = "launch" /\ call[a].name = n
  /\ \A m \in Names \ {n} : sessions'[m] = sessions[m]
  /\ \A p \in PageIds :
       pages'[p] # pages[p] =>
         \/ pages[p].tenant = Nobody
         \/ sessions[n].page = p /\ pages'[p] = Dead(pages[p])

OwnOnly(a, n) ==
  /\ Access(a, n)
  /\ \A m \in Names \ {n} : sessions'[m] = sessions[m]
  /\ \A p \in PageIds \ {sessions[n].page} : pages'[p] = pages[p]

LEMMA TakeOwnOnly ==
  ASSUME IInv, NEW a \in Agents, NEW n \in Names, NEW o, Access(a, n), Take(n, o)
  PROVE  OwnOnly(a, n)
<1>1. sessions' = [sessions EXCEPT ![n].version = sessions[n].version + 1,
        ![n].tracked = IF o = "ok" THEN Tracked(pages[sessions[n].page]) ELSE @]
  BY DEF Take
<1>2. \/ pages' = pages
      \/ pages' = [pages EXCEPT ![sessions[n].page].stamp =
                      Stamped(pages[sessions[n].page], sessions[n].version + 1)]
  BY DEF Take
<1>3. QED
  BY <1>1, <1>2 DEF OwnOnly, IInv, TypeOK

LEMMA CallsKeepApart ==
  ASSUME IInv, NEW a \in Agents, Start(a) \/ Continue(a)
  PROVE  \/ UNCHANGED <<sessions, pages>>
         \/ \E n \in Names : OwnOnly(a, n) \/ Takeover(a, n)
<1>1. ASSUME NEW n \in Names, Close(a, n)
      PROVE  OwnOnly(a, n) \/ UNCHANGED <<sessions, pages>>
  <2>1. CASE Resolve(a, n)
    BY <1>1, <2>1 DEF Close, Resolve, OwnOnly, IInv, TypeOK
  <2>2. CASE ~Resolve(a, n)
    BY <1>1, <2>2 DEF Close, Refuse
  <2>3. QED
    BY <2>1, <2>2
<1>2. ASSUME NEW n \in Names, NEW ref \in Targets, AssertExists(a, n, ref)
      PROVE  OwnOnly(a, n) \/ UNCHANGED <<sessions, pages>>
  <2>1. CASE Resolve(a, n)
    <3>1. PICK o : Take(n, o)
      BY <1>2, <2>1 DEF AssertExists
    <3>2. QED
      BY <2>1, <3>1, TakeOwnOnly DEF Resolve
  <2>2. CASE ~Resolve(a, n)
    BY <1>2, <2>2 DEF AssertExists, Refuse
  <2>3. QED
    BY <2>1, <2>2
<1>3. CASE Launched(a)
  <2> DEFINE n == call[a].name
  <2>1. PICK q \in PageIds :
          /\ pages[q] = NoPage
          /\ sessions' = [sessions EXCEPT ![n] = Session(TenantOf(a), q)]
          /\ pages' = [r \in PageIds |->
                IF r = q THEN Page(TenantOf(a))
                ELSE IF sessions[n].there /\ r = sessions[n].page THEN Dead(pages[r])
                ELSE pages[r]]
    BY <1>3 DEF Launched
  <2>2. n \in Names /\ call[a].at = "launch"
    BY <1>3 DEF Launched, IInv, RefInv, CallsInStep
  <2>3. pages[q].tenant = Nobody
    BY <2>1 DEF NoPage, Dead, Page
  <2>4. \A m \in Names \ {n} : sessions'[m] = sessions[m]
    BY <2>1 DEF IInv, TypeOK
  <2>5. ASSUME NEW p \in PageIds, pages'[p] # pages[p], p # q
        PROVE  sessions[n].page = p /\ pages'[p] = Dead(pages[p])
    BY <2>1, <2>5
  <2>6. Takeover(a, n)
    BY <2>2, <2>3, <2>4, <2>5 DEF Takeover
  <2>7. QED
    BY <2>2, <2>6
<1>4. CASE Navigate(a)
  <2> DEFINE n == call[a].name
  <2>1. n \in Names
    BY <1>4 DEF Navigate, IInv, RefInv, CallsInStep
  <2>2. CASE pages' # pages
    <3>1. Access(a, n) /\ sessions' = sessions
      BY <1>4, <2>2 DEF Navigate
    <3>2. PICK shown \in SUBSET Elems :
            pages' = [pages EXCEPT ![sessions[n].page] = Loaded(@, shown)]
      BY <1>4, <2>2 DEF Navigate
    <3>3. \A p \in PageIds \ {sessions[n].page} : pages'[p] = pages[p]
      BY <3>2 DEF IInv, TypeOK
    <3>4. QED
      BY <2>1, <3>1, <3>3 DEF OwnOnly
  <2>3. CASE pages' = pages
    BY <1>4, <2>3 DEF Navigate
  <2>4. QED
    BY <2>2, <2>3
<1>5. CASE Snapshot(a)
  <2>1. call[a].name \in Names
    BY <1>5 DEF Snapshot, IInv, RefInv, CallsInStep
  <2>2. CASE Access(a, call[a].name)
    <3>1. PICK o : Take(call[a].name, o)
      BY <1>5, <2>2 DEF Snapshot
    <3>2. QED
      BY <2>1, <2>2, <3>1, TakeOwnOnly
  <2>3. CASE ~Access(a, call[a].name)
    BY <1>5, <2>3 DEF Snapshot
  <2>4. QED
    BY <2>2, <2>3
<1>6. CASE LaunchFails(a) \/ Record(a) \/ Find(a) \/ Perform(a) \/ Settle(a) \/ WaitEnds(a)
  BY <1>6 DEF LaunchFails, Record, Find, Perform, Settle, WaitEnds
<1>7. ASSUME NEW n \in Names, NEW op \in Ops,
             EnsureKnown(a, n, op) \/ EnsureLaunch(a, n, op)
      PROVE  UNCHANGED <<sessions, pages>>
  BY <1>7 DEF EnsureKnown, EnsureLaunch
<1>8. ASSUME NEW n \in Names, Wait(a, n)
      PROVE  UNCHANGED <<sessions, pages>>
  BY <1>8 DEF Wait
<1>9. ASSUME NEW n \in Names, NEW ref \in Targets, Check(a, n, ref)
      PROVE  UNCHANGED <<sessions, pages>>
  BY <1>9 DEF Check, Refuse
<1>10. QED
  BY <1>1, <1>2, <1>3, <1>4, <1>5, <1>6, <1>7, <1>8, <1>9 DEF Start, Continue

\* What a step of an agent's call may do to others.
TakesOver(a) ==
  /\ \A n \in Names :
       /\ sessions[n].there /\ sessions[n].tenant # TenantOf(a)
       /\ sessions'[n] # sessions[n]
       => call[a].at = "launch" /\ call[a].name = n
  /\ \A p \in PageIds :
       /\ pages[p].tenant \notin {Nobody, TenantOf(a)} /\ pages'[p] # pages[p]
       => /\ call[a].at = "launch" /\ pages'[p] = Dead(pages[p])
          /\ sessions[call[a].name].page = p

\* A step of a call changes the session or the page of another tenant in one
\* way only: by opening a name in use, which ends the browser it had.  Every
\* other tool looks its session up and checks the tenant again whenever it
\* comes back for the provider's lock.
THEOREM TenantsStayApart == Spec => TakeoverOnly
<1>1. ASSUME IInv, [Next]_vars, NEW a \in Agents, call'[a] # call[a]
      PROVE  TakesOver(a)
  <2>1. ~(UNCHANGED vars) /\ ~(\E q \in PageIds : PageChanges(q))
    BY <1>1 DEF vars, PageChanges
  <2>2. PICK b \in Agents : Start(b) \/ Continue(b)
    BY <1>1, <2>1 DEF Next
  <2>3. \E c : Goto(b, c)
    BY <1>1, <2>2, StartCall, ContinueCall
  <2>4. a = b
    BY <1>1, <2>3 DEF Goto, IInv, TypeOK
  <2>5. CASE UNCHANGED <<sessions, pages>>
    BY <2>5 DEF TakesOver
  <2>6. ASSUME NEW n \in Names, OwnOnly(a, n)
        PROVE  TakesOver(a)
    <3>1. sessions[n].tenant = TenantOf(a)
      BY <2>6 DEF OwnOnly, Access
    <3>2. pages[sessions[n].page].tenant = TenantOf(a)
      BY <1>1, <2>6, <3>1 DEF OwnOnly, Access, IInv, RefInv, SessionsOwnPages
    <3>3. QED
      BY <2>6, <3>1, <3>2 DEF OwnOnly, TakesOver
  <2>7. ASSUME NEW n \in Names, Takeover(a, n)
        PROVE  TakesOver(a)
    BY <2>7 DEF Takeover, TakesOver
  <2>8. QED
    BY <1>1, <2>2, <2>4, <2>5, <2>6, <2>7, CallsKeepApart
<1>2. IInv /\ [Next]_vars => [\A a \in Agents : call'[a] # call[a] => TakesOver(a)]_vars
  BY <1>1
<1>3. IInv /\ [Next]_vars =>
        [\A a \in Agents : call'[a] # call[a] =>
           /\ \A n \in Names :
                /\ sessions[n].there /\ sessions[n].tenant # TenantOf(a)
                /\ sessions'[n] # sessions[n]
                => call[a].at = "launch" /\ call[a].name = n
           /\ \A p \in PageIds :
                /\ pages[p].tenant \notin {Nobody, TenantOf(a)} /\ pages'[p] # pages[p]
                => /\ call[a].at = "launch" /\ pages'[p] = Dead(pages[p])
                   /\ sessions[call[a].name].page = p]_vars
  BY <1>2 DEF TakesOver
<1>4. QED
  BY <1>3, IInvHolds, PTL DEF Spec, TakeoverOnly

=============================================================================
