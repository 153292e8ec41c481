--------------------------- MODULE SessionLogProofs ---------------------------
(***************************************************************************)
(* The session file, for any set of emitters, ids and write faults: its    *)
(* shape, what a reader gets back from it, and that it implements the      *)
(* transcript - across failed writes, stops, resumes and forks.            *)
(***************************************************************************)
EXTENDS SessionLog, SequenceTheorems, WellFoundedInduction, TLAPS

\* The three facts about the lines that every append keeps.
UniqueIn(f) == \A i, j \in DOMAIN f : f[i].id = f[j].id => i = j

ParentsIn(f) ==
  \A i \in DOMAIN f :
    f[i].parent # None => \E j \in 1 .. (i - 1) : f[j].id = f[i].parent

TargetsIn(f) == \A i \in DOMAIN f : f[i].to \in IssuedIds(f) \union {None}

LogOK(f) == UniqueIn(f) /\ ParentsIn(f) /\ TargetsIn(f)

\* An entry that may be appended to f.
Fits(e, f) ==
  /\ e \in Entry
  /\ e.id \notin IssuedIds(f)
  /\ e.parent \in IssuedIds(f) \union {None}
  /\ e.to \in IssuedIds(f) \union {None}

\* The strengthening: while a writer is open its guard set covers the file, and
\* whatever it points at is on the file.
IInv ==
  /\ TypeOK
  /\ LogOK(file)
  /\ LeafOnDisk
  /\ proc = "up" => IssuedIds(file) \subseteq seen
  /\ proc = "absent" => file = <<>>
  /\ lock # None => proc = "up" /\ pend \in IssuedIds(file)

-----------------------------------------------------------------------------
(* Facts about data. *)

\* A non-empty set of numbers with an upper bound has a largest element, and
\* that is what Max returns.
LEMMA MaxIsMember ==
  ASSUME NEW n \in Nat, NEW I \in SUBSET (1 .. n), I # {}
  PROVE  Max(I) \in I
<1> DEFINE J == {n - i : i \in I}
<1>1. J \subseteq Nat /\ J # {}
  <2>1. \A i \in I : n - i \in Nat
    OBVIOUS
  <2>2. J \subseteq Nat
    BY <2>1, Zenon
  <2>3. PICK i \in I : TRUE
    OBVIOUS
  <2>4. n - i \in J
    BY <2>3
  <2>5. QED
    BY <2>2, <2>4
<1>2. \E x \in J : \A y \in J : ~ (<<y, x>> \in OpToRel(<, Nat))
  BY <1>1, NatLessThanWellFounded, WFMin
<1>3. PICK x \in J : \A y \in J : ~ (<<y, x>> \in OpToRel(<, Nat))
  BY <1>2
<1>4. \A y \in J : ~ (y < x)
  BY <1>1, <1>3 DEF OpToRel
<1>5. PICK m \in I : x = n - m
  BY <1>3
<1>6. \A i \in I : m >= i
  BY SMTT(30), <1>4, <1>5
<1>7. QED
  BY <1>5, <1>6 DEF Max

\* The largest element is the only one there is.
LEMMA MaxIs ==
  ASSUME NEW I \in SUBSET Nat, NEW m \in I, \A i \in I : i <= m
  PROVE  Max(I) = m
<1>1. m \in I /\ \A i \in I : m >= i
  OBVIOUS
<1>2. \A x \in I : (\A i \in I : x >= i) => x = m
  BY <1>1
<1>3. QED
  BY <1>1, <1>2 DEF Max

\* A non-empty set of numbers has a smallest one.
LEMMA LeastNumber ==
  ASSUME NEW T, T \subseteq Nat, T # {}
  PROVE  \E x \in T : \A y \in T : x <= y
<1> DEFINE R == OpToRel(<, Nat)
<1>1. IsWellFoundedOn(R, Nat)
  BY NatLessThanWellFounded
<1>2. ASSUME NEW x \in Nat, NEW y \in Nat, y < x PROVE <<y, x>> \in R
  BY <1>2 DEF R, OpToRel
<1> HIDE DEF R
<1>3. PICK x \in T : \A y \in T : ~ (<<y, x>> \in R)
  BY <1>1, WFMin
<1>4. ASSUME NEW y \in T PROVE x <= y
  <2>1. x \in Nat /\ y \in Nat
    OBVIOUS
  <2>2. ~(y < x)
    BY <1>2, <1>3, <2>1
  <2>3. QED
    BY <2>1, <2>2
<1>5. QED
  BY <1>4

\* A log is its numbered entries.
LEMMA LogTyped ==
  ASSUME NEW f \in Seq(Entry)
  PROVE  /\ Len(f) \in Nat /\ DOMAIN f = 1 .. Len(f)
         /\ \A i \in 1 .. Len(f) : /\ f[i] \in Entry /\ f[i].kind \in Kinds
                                  /\ f[i].id \in Ids /\ f[i].parent \in MaybeId
<1>1. Len(f) \in Nat /\ DOMAIN f = 1 .. Len(f) /\ \A i \in 1 .. Len(f) : f[i] \in Entry
  OBVIOUS
<1>2. QED
  BY <1>1 DEF Entry

\* What appending one entry does to a log.
LEMMA AppendFacts ==
  ASSUME NEW f \in Seq(Entry), NEW e \in Entry
  PROVE  /\ Append(f, e) \in Seq(Entry) /\ Len(f) \in Nat
         /\ Len(Append(f, e)) = Len(f) + 1
         /\ DOMAIN f = 1 .. Len(f) /\ DOMAIN Append(f, e) = 1 .. Len(f) + 1
         /\ \A i \in 1 .. Len(f) : Append(f, e)[i] = f[i]
         /\ Append(f, e)[Len(f) + 1] = e
  OBVIOUS

\* The newest line with an id is the one it has: there is one at most.
LEMMA IndexFacts ==
  ASSUME NEW f \in Seq(Entry), UniqueIn(f)
  PROVE  /\ \A i \in 1 .. Len(f) : IndexOf(f, f[i].id) = i
         /\ \A id : id \notin IssuedIds(f) => IndexOf(f, id) = 0
<1>0. Len(f) \in Nat /\ DOMAIN f = 1 .. Len(f)
  BY LogTyped
<1>1. ASSUME NEW i \in 1 .. Len(f) PROVE IndexOf(f, f[i].id) = i
  <2> DEFINE I == {j \in 1 .. Len(f) : f[j].id = f[i].id}
  <2>1. I = {i}
    BY <1>0 DEF UniqueIn
  <2>2. IndexOf(f, f[i].id) = Max(I)
    BY <2>1 DEF IndexOf, SelectLastInSeq
  <2>3. Max({i}) = i
    <3>1. {i} \in SUBSET Nat /\ i \in {i} /\ \A j \in {i} : j <= i
      BY <1>0
    <3>2. QED
      BY <3>1, MaxIs
  <2>4. QED
    BY <2>1, <2>2, <2>3
<1>2. ASSUME NEW id, id \notin IssuedIds(f) PROVE IndexOf(f, id) = 0
  <2>1. {j \in 1 .. Len(f) : f[j].id = id} = {}
    BY <1>0, <1>2 DEF IssuedIds
  <2>2. QED
    BY <2>1 DEF IndexOf, SelectLastInSeq
<1>3. QED
  BY <1>1, <1>2


\* The cursor a reader recovers is an entry of the log or nothing.
LEMMA DiskLeafIssued ==
  ASSUME NEW f \in Seq(Entry), TargetsIn(f)
  PROVE  DiskLeaf(f) \in IssuedIds(f) \union {None}
<1> DEFINE LC == {i \in 1 .. Len(f) : f[i].kind = "leaf"}
           MS == {i \in 1 .. Len(f) : f[i].kind = "message"}
<1>1. DiskLeaf(f) = IF LC # {} /\ Max(LC) # 0 THEN f[Max(LC)].to
                    ELSE IF MS # {} /\ Max(MS) # 0 THEN f[Max(MS)].id ELSE None
  BY DEF DiskLeaf, SelectLastInSeq
<1>0. Len(f) \in Nat /\ DOMAIN f = 1 .. Len(f)
  BY LenProperties
<1>2. LC # {} => Max(LC) \in LC
  <2>1. LC \in SUBSET (1 .. Len(f))
    OBVIOUS
  <2> HIDE DEF LC
  <2>2. QED
    BY <1>0, <2>1, MaxIsMember
<1>3. MS # {} => Max(MS) \in MS
  <2>1. MS \in SUBSET (1 .. Len(f))
    OBVIOUS
  <2> HIDE DEF MS
  <2>2. QED
    BY <1>0, <2>1, MaxIsMember
<1>4. CASE LC # {} /\ Max(LC) # 0
  BY <1>0, <1>1, <1>2, <1>4 DEF TargetsIn
<1>5. CASE ~(LC # {} /\ Max(LC) # 0) /\ MS # {} /\ Max(MS) # 0
  BY <1>0, <1>1, <1>3, <1>5 DEF IssuedIds
<1>6. CASE ~(LC # {} /\ Max(LC) # 0) /\ ~(MS # {} /\ Max(MS) # 0)
  BY <1>1, <1>6
<1>7. QED
  BY <1>4, <1>5, <1>6

\* Appending an entry that fits keeps the log in shape and adds just its id.
LEMMA AppendKeeps ==
  ASSUME NEW f \in Seq(Entry), NEW e, LogOK(f), Fits(e, f)
  PROVE  /\ Append(f, e) \in Seq(Entry)
         /\ LogOK(Append(f, e))
         /\ IssuedIds(Append(f, e)) = IssuedIds(f) \union {e.id}
<1> DEFINE g == Append(f, e)
<1>1. /\ g \in Seq(Entry)
      /\ Len(g) = Len(f) + 1 /\ Len(f) \in Nat
      /\ DOMAIN f = 1 .. Len(f) /\ DOMAIN g = 1 .. (Len(f) + 1)
      /\ \A i \in 1 .. Len(f) : g[i] = f[i]
      /\ g[Len(f) + 1] = e
  BY AppendProperties, LenProperties DEF Fits
<1> HIDE DEF g
<1>2. IssuedIds(g) = IssuedIds(f) \union {e.id}
  <2>1. \A i \in DOMAIN g : g[i].id \in IssuedIds(f) \union {e.id}
    BY <1>1 DEF IssuedIds
  <2>2. \A i \in DOMAIN f : f[i].id \in IssuedIds(g)
    BY <1>1 DEF IssuedIds
  <2>3. e.id \in IssuedIds(g)
    BY <1>1 DEF IssuedIds
  <2>4. QED
    BY <2>1, <2>2, <2>3 DEF IssuedIds
<1>3. UniqueIn(g)
  BY <1>1 DEF LogOK, UniqueIn, Fits, IssuedIds
<1>4. ParentsIn(g)
  <2> SUFFICES ASSUME NEW i \in DOMAIN g, g[i].parent # None
               PROVE  \E j \in 1 .. (i - 1) : g[j].id = g[i].parent
    BY DEF ParentsIn
  <2>1. CASE i \in DOMAIN f
    <3>1. PICK j \in 1 .. (i - 1) : f[j].id = f[i].parent
      BY <1>1, <2>1 DEF LogOK, ParentsIn
    <3>2. QED
      BY <1>1, <2>1, <3>1
  <2>2. CASE i = Len(f) + 1
    <3>1. e.parent \in IssuedIds(f)
      BY <1>1, <2>2 DEF Fits
    <3>2. PICK j \in DOMAIN f : f[j].id = e.parent
      BY <3>1 DEF IssuedIds
    <3>3. QED
      BY <1>1, <2>2, <3>2
  <2>3. QED
    BY <1>1, <2>1, <2>2
<1>5. TargetsIn(g)
  BY <1>1, <1>2 DEF LogOK, TargetsIn, Fits
<1>6. QED
  BY <1>1, <1>2, <1>3, <1>4, <1>5 DEF LogOK, g

\* write_line of an entry that fits: whatever the outcome, the log stays in
\* shape, and at most the id of the entry is added.
LEMMA WriteKeeps ==
  ASSUME TypeOK, LogOK(file), NEW e, NEW o \in Outcomes, Fits(e, file),
         WriteLine(e, o)
  PROVE  /\ file' \in Seq(Entry)
         /\ tail' \in {"eol", "cut", "torn"}
         /\ broken' \in BOOLEAN
         /\ LogOK(file)'
         /\ IssuedIds(file) \subseteq IssuedIds(file)'
         /\ IssuedIds(file)' \subseteq IssuedIds(file) \union {e.id}
         /\ o = "ok" => e.id \in IssuedIds(file)'
<1>1. file' = file \/ file' = Append(file, e)
  BY DEF WriteLine
<1>2. o = "ok" => file' = Append(file, e)
  BY DEF WriteLine
<1>3. file \in Seq(Entry)
  BY DEF TypeOK
<1>4. /\ Append(file, e) \in Seq(Entry)
      /\ LogOK(Append(file, e))
      /\ IssuedIds(Append(file, e)) = IssuedIds(file) \union {e.id}
  BY <1>3, AppendKeeps
<1>5. LogOK(file)' <=> LogOK(file')
  BY DEF LogOK, UniqueIn, ParentsIn, TargetsIn, IssuedIds
<1>6. IssuedIds(file)' = IssuedIds(file')
  BY DEF IssuedIds
<1>7. tail' \in {"eol", "cut", "torn"} /\ broken' \in BOOLEAN
  <2>1. o \in {"ok", "fail", "torn", "cut"}
    BY LogAssumption DEF Outcomes, WriteFaults
  <2>2. QED
    BY <2>1 DEF WriteLine, TypeOK
<1>8. QED
  BY <1>1, <1>2, <1>3, <1>4, <1>5, <1>6, <1>7

-----------------------------------------------------------------------------
(* The newest line of a kind. *)

Newest(f, kind) == SelectLastInSeq(f, LAMBDA e : e.kind = kind)

\* It is one of them, unless there is none.
LEMMA NewestFacts ==
  ASSUME NEW f \in Seq(Entry), NEW kind
  PROVE  \/ /\ Newest(f, kind) = 0 /\ \A i \in DOMAIN f : f[i].kind # kind
         \/ /\ Newest(f, kind) \in 1 .. Len(f) /\ f[Newest(f, kind)].kind = kind
            /\ \E i \in DOMAIN f : f[i].kind = kind
<1> DEFINE I == {i \in 1 .. Len(f) : f[i].kind = kind}
<1>0. Len(f) \in Nat /\ DOMAIN f = 1 .. Len(f)
  BY LogTyped
<1>1. Newest(f, kind) = IF I # {} THEN Max(I) ELSE 0
  BY DEF Newest, SelectLastInSeq
<1>2. I # {} => Max(I) \in I
  <2>1. I \in SUBSET (1 .. Len(f))
    OBVIOUS
  <2> HIDE DEF I
  <2>2. QED
    BY <1>0, <2>1, MaxIsMember
<1>3. CASE I = {}
  BY <1>0, <1>1, <1>3
<1>4. CASE I # {}
  <2>1. Newest(f, kind) \in I
    BY <1>1, <1>2, <1>4
  <2>2. QED
    BY <1>0, <2>1
<1>5. QED
  BY <1>3, <1>4

\* The line appended last is newer than all others.
LEMMA NewestAppended ==
  ASSUME NEW f \in Seq(Entry), NEW e \in Entry, NEW kind
  PROVE  Newest(Append(f, e), kind) = IF e.kind = kind THEN Len(f) + 1 ELSE Newest(f, kind)
<1> DEFINE g == Append(f, e)
           n == Len(f)
           I == {i \in 1 .. n : f[i].kind = kind}
           J == {i \in 1 .. n + 1 : g[i].kind = kind}
<1>0. /\ n \in Nat /\ Len(g) = n + 1 /\ g[n + 1] = e
      /\ \A i \in 1 .. n : g[i] = f[i]
  BY AppendFacts
<1>1. /\ Newest(f, kind) = IF I # {} THEN Max(I) ELSE 0
      /\ Newest(g, kind) = IF J # {} THEN Max(J) ELSE 0
  BY <1>0 DEF Newest, SelectLastInSeq
<1> HIDE DEF g, n
<1>2. CASE e.kind = kind
  <2>1. n + 1 \in J /\ J \in SUBSET Nat /\ \A i \in J : i <= n + 1
    BY <1>0, <1>2
  <2>2. Max(J) = n + 1
    <3> HIDE DEF J
    <3>1. QED
      BY <2>1, MaxIs
  <2>3. QED
    BY <1>1, <1>2, <2>1, <2>2 DEF g, n
<1>3. CASE e.kind # kind
  <2>1. J = I
    BY <1>0, <1>3
  <2>2. QED
    BY <1>1, <1>3, <2>1 DEF g, n
<1>4. QED
  BY <1>2, <1>3

\* DiskLeaf in these terms.
LEMMA DiskLeafIs ==
  ASSUME NEW f
  PROVE  DiskLeaf(f) = IF Newest(f, "leaf") # 0 THEN f[Newest(f, "leaf")].to
                       ELSE IF Newest(f, "message") # 0 THEN f[Newest(f, "message")].id ELSE None
  BY DEF DiskLeaf, Newest

\* A LeafChange moves the recovered cursor; other lines do not, once there was one.
LEMMA DiskLeafAppended ==
  ASSUME NEW f \in Seq(Entry), NEW e \in Entry
  PROVE  /\ e.kind = "leaf" => DiskLeaf(Append(f, e)) = e.to
         /\ e.kind # "leaf" /\ Newest(f, "leaf") # 0 => DiskLeaf(Append(f, e)) = DiskLeaf(f)
         /\ e.kind = "event" => DiskLeaf(Append(f, e)) = DiskLeaf(f)
         /\ e.kind = "message" /\ Newest(f, "leaf") = 0 => DiskLeaf(Append(f, e)) = e.id
<1> DEFINE g == Append(f, e)
           n == Len(f)
<1>0. /\ n \in Nat /\ Len(g) = n + 1 /\ g[n + 1] = e
      /\ \A i \in 1 .. n : g[i] = f[i]
  BY AppendFacts
<1>1. /\ Newest(g, "leaf") = IF e.kind = "leaf" THEN n + 1 ELSE Newest(f, "leaf")
      /\ Newest(g, "message") = IF e.kind = "message" THEN n + 1 ELSE Newest(f, "message")
  BY NewestAppended
<1>2. /\ Newest(f, "leaf") = 0 \/ Newest(f, "leaf") \in 1 .. n
      /\ Newest(f, "message") = 0 \/ Newest(f, "message") \in 1 .. n
  BY NewestFacts
<1> HIDE DEF g, n
<1>3. /\ Newest(f, "leaf") # 0 => g[Newest(f, "leaf")] = f[Newest(f, "leaf")]
      /\ Newest(f, "message") # 0 => g[Newest(f, "message")] = f[Newest(f, "message")]
  BY <1>0, <1>2
<1>4. DiskLeaf(g) = IF Newest(g, "leaf") # 0 THEN g[Newest(g, "leaf")].to
                    ELSE IF Newest(g, "message") # 0 THEN g[Newest(g, "message")].id ELSE None
  BY DiskLeafIs
<1>5. n + 1 # 0
  BY <1>0
<1>6. QED
  BY <1>0, <1>1, <1>3, <1>4, <1>5, DiskLeafIs DEF g

-----------------------------------------------------------------------------
(* The walk to the root. *)

\* One step of it, from id with n steps allowed: what A returns for the parent,
\* and id itself if it is a message.
Step(A, f, n, id) ==
  LET i == IndexOf(f, id)
  IN  IF n = 0 \/ i = 0 THEN <<>>
      ELSE A[n - 1][f[i].parent] \o (IF f[i].kind = "message" THEN <<id>> ELSE <<>>)

IsWalk(A, f, k) == A = [n \in 0 .. k |-> [id \in MaybeId |-> Step(A, f, n, id)]]

Walk(f) == CHOOSE A : IsWalk(A, f, Len(f) + 9)

\* PathToRoot is the walk with all its fuel.
LEMMA PathIsWalk ==
  ASSUME NEW f, NEW l
  PROVE  PathToRoot(f, l) = Walk(f)[Len(f) + 9][l]
  BY DEF PathToRoot, Walk, IsWalk, Step

\* A parent is an id or nothing.
LEMMA ParentTyped ==
  ASSUME NEW f \in Seq(Entry), NEW id, IndexOf(f, id) # 0
  PROVE  f[IndexOf(f, id)].parent \in MaybeId
<1> DEFINE I == {j \in 1 .. Len(f) : f[j].id = id}
<1>1. IndexOf(f, id) = IF I # {} THEN Max(I) ELSE 0
  BY DEF IndexOf, SelectLastInSeq
<1>2. Len(f) \in Nat /\ I \in SUBSET (1 .. Len(f))
  BY LogTyped
<1>3. I # {} => Max(I) \in I
  <2> HIDE DEF I
  <2>1. QED
    BY <1>2, MaxIsMember
<1>4. QED
  BY <1>1, <1>3, LogTyped

\* There is such a function: it can be built up step by step.
LEMMA WalkExists ==
  ASSUME NEW f \in Seq(Entry), NEW n \in Nat
  PROVE  \E A : IsWalk(A, f, n)
<1> DEFINE T == {k \in Nat : ~ \E A : IsWalk(A, f, k)}
<1> SUFFICES ASSUME T # {} PROVE FALSE
  OBVIOUS
<1>1. PICK k \in T : \A m \in T : k <= m
  <2>1. T \subseteq Nat
    OBVIOUS
  <2> HIDE DEF T
  <2>2. QED
    BY <2>1, LeastNumber
<1>2. k \in Nat /\ ~ \E A : IsWalk(A, f, k)
  OBVIOUS
<1>3. CASE k = 0
  <2> DEFINE A == [m \in 0 .. 0 |-> [id \in MaybeId |-> <<>>]]
  <2>1. \A m \in 0 .. 0, id \in MaybeId : Step(A, f, m, id) = <<>>
    BY DEF Step
  <2>2. A = [m \in 0 .. 0 |-> [id \in MaybeId |-> Step(A, f, m, id)]]
    <3> HIDE DEF A
    <3>1. A = [m \in 0 .. 0 |-> [id \in MaybeId |-> <<>>]]
      BY DEF A
    <3>2. QED
      BY <2>1, <3>1
  <2> HIDE DEF A
  <2>3. IsWalk(A, f, k)
    BY <1>3, <2>2 DEF IsWalk
  <2>4. QED
    BY <1>2, <2>3
<1>4. CASE k # 0
  <2>1. k - 1 \in Nat /\ k - 1 \notin T
    BY <1>1, <1>2, <1>4
  <2>2. PICK A : IsWalk(A, f, k - 1)
    BY <2>1
  <2> HIDE DEF T
  <2> DEFINE B == [m \in 0 .. k |-> [id \in MaybeId |->
                     IF m < k THEN A[m][id] ELSE Step(A, f, k, id)]]
  <2>3. \A m \in 0 .. k, id \in MaybeId :
          B[m][id] = IF m < k THEN A[m][id] ELSE Step(A, f, k, id)
    OBVIOUS
  <2>4. B = [m \in 0 .. k |-> [id \in MaybeId |-> B[m][id]]]
    OBVIOUS
  <2> HIDE DEF B
  <2>5. ASSUME NEW m \in 0 .. k - 1, NEW id \in MaybeId PROVE A[m][id] = Step(A, f, m, id)
    <3>1. A[m] = [x \in MaybeId |-> Step(A, f, m, x)]
      BY <2>2 DEF IsWalk
    <3>2. QED
      BY <3>1
  <2>6. ASSUME NEW m \in 0 .. k, NEW id \in MaybeId PROVE B[m][id] = Step(B, f, m, id)
    <3>1. m \in Nat /\ (m # 0 => \A p \in MaybeId : A[m - 1][p] = B[m - 1][p])
      <4>1. ASSUME m # 0, NEW p \in MaybeId PROVE A[m - 1][p] = B[m - 1][p]
        <5>1. m - 1 \in 0 .. k /\ m - 1 < k
          BY <1>2, <4>1
        <5>2. QED
          BY <2>3, <5>1
      <4>2. QED
        BY <1>2, <4>1
    <3>2. Step(A, f, m, id) = Step(B, f, m, id)
      BY <3>1, ParentTyped DEF Step
    <3>3. CASE m < k
      <4>1. m \in 0 .. k - 1
        BY <1>2, <3>3
      <4>2. QED
        BY <2>3, <2>5, <3>2, <3>3, <4>1
    <3>4. CASE ~ (m < k)
      <4>1. m = k
        BY <1>2, <3>4
      <4>2. QED
        BY <2>3, <3>2, <3>4, <4>1
    <3>5. QED
      BY <3>3, <3>4
  <2>7. B = [m \in 0 .. k |-> [id \in MaybeId |-> Step(B, f, m, id)]]
    BY <2>4, <2>6
  <2>8. QED
    BY <1>2, <2>7 DEF IsWalk
<1>5. QED
  BY <1>3, <1>4

\* So the walk goes step by step.
LEMMA WalkStep ==
  ASSUME NEW f \in Seq(Entry), NEW n \in 0 .. Len(f) + 9, NEW id \in MaybeId
  PROVE  Walk(f)[n][id] = Step(Walk(f), f, n, id)
<1>1. Len(f) + 9 \in Nat
  BY LogTyped
<1>2. IsWalk(Walk(f), f, Len(f) + 9)
  BY <1>1, WalkExists DEF Walk
<1>3. QED
  BY SMTT(30), <1>2 DEF IsWalk

\* Once it has fuel for the line it starts from, more fuel makes no difference:
\* every step goes to an earlier line.
LEMMA FuelEnough ==
  ASSUME NEW f \in Seq(Entry), LogOK(f), NEW i \in 1 .. Len(f),
         NEW n \in i .. Len(f) + 9, NEW m \in i .. Len(f) + 9
  PROVE  Walk(f)[n][f[i].id] = Walk(f)[m][f[i].id]
<1> DEFINE W == Walk(f)
           Same(j) == \A a, b \in j .. Len(f) + 9 : W[a][f[j].id] = W[b][f[j].id]
           T == {j \in 1 .. Len(f) : ~ Same(j)}
<1>0. /\ Len(f) \in Nat /\ DOMAIN f = 1 .. Len(f)
      /\ \A j \in 1 .. Len(f) : f[j].id \in Ids /\ f[j].parent \in MaybeId
  BY LogTyped
<1> SUFFICES ASSUME T # {} PROVE FALSE
  OBVIOUS
<1>1. PICK j \in T : \A k \in T : j <= k
  <2>1. T \subseteq Nat
    BY <1>0
  <2> HIDE DEF T
  <2>2. QED
    BY <2>1, LeastNumber
<1>2. j \in 1 .. Len(f) /\ ~ Same(j) /\ \A k \in 1 .. j - 1 : Same(k)
  BY <1>0, <1>1
<1> HIDE DEF T, W
<1>3. PICK a \in j .. Len(f) + 9, b \in j .. Len(f) + 9 : W[a][f[j].id] # W[b][f[j].id]
  BY <1>2
<1>4. IndexOf(f, f[j].id) = j
  BY <1>2, IndexFacts DEF LogOK
<1> DEFINE own == IF f[j].kind = "message" THEN <<f[j].id>> ELSE <<>>
<1>5. /\ W[a][f[j].id] = W[a - 1][f[j].parent] \o own
      /\ W[b][f[j].id] = W[b - 1][f[j].parent] \o own
  <2>1. /\ a \in 0 .. Len(f) + 9 /\ b \in 0 .. Len(f) + 9 /\ a # 0 /\ b # 0 /\ j # 0
        /\ f[j].id \in MaybeId
    BY <1>0, <1>2 DEF MaybeId
  <2>2. W[a][f[j].id] = Step(W, f, a, f[j].id) /\ W[b][f[j].id] = Step(W, f, b, f[j].id)
    BY <2>1, WalkStep DEF W
  <2>3. QED
    BY <1>4, <2>1, <2>2 DEF Step
<1>6. W[a - 1][f[j].parent] = W[b - 1][f[j].parent]
  <2>1. a - 1 \in 0 .. Len(f) + 9 /\ b - 1 \in 0 .. Len(f) + 9
    BY <1>0, <1>2
  <2>2. CASE f[j].parent = None
    <3>1. IndexOf(f, None) = 0
      <4>1. None \notin IssuedIds(f)
        BY <1>0, LogAssumption DEF IssuedIds
      <4>2. QED
        BY <4>1, IndexFacts DEF LogOK
    <3>2. None \in MaybeId
      BY DEF MaybeId
    <3>3. W[a - 1][None] = Step(W, f, a - 1, None) /\ W[b - 1][None] = Step(W, f, b - 1, None)
      BY <2>1, <3>2, WalkStep DEF W
    <3>4. QED
      BY <2>2, <3>1, <3>3 DEF Step
  <2>3. CASE f[j].parent # None
    <3>1. PICK k \in 1 .. j - 1 : f[k].id = f[j].parent
      BY <1>0, <1>2, <2>3 DEF LogOK, ParentsIn
    <3>2. Same(k) /\ a - 1 \in k .. Len(f) + 9 /\ b - 1 \in k .. Len(f) + 9
      BY <1>0, <1>2, <3>1
    <3>3. QED
      BY SMTT(30), <3>1, <3>2
  <2>4. QED
    BY <2>2, <2>3
<1> HIDE DEF own, Same
<1>7. W[a][f[j].id] = W[b][f[j].id]
  BY Zenon, <1>5, <1>6
<1>8. QED
  BY <1>3, <1>7

\* Nothing is above an id that is not in the log.
LEMMA PathOfNone ==
  ASSUME NEW f \in Seq(Entry), LogOK(f), NEW x \in MaybeId, x \notin IssuedIds(f)
  PROVE  PathToRoot(f, x) = <<>>
<1>1. IndexOf(f, x) = 0
  BY IndexFacts DEF LogOK
<1>2. Len(f) \in Nat /\ Len(f) + 9 \in 0 .. Len(f) + 9
  BY LogTyped
<1>3. Walk(f)[Len(f) + 9][x] = Step(Walk(f), f, Len(f) + 9, x)
  BY <1>2, WalkStep
<1>4. QED
  BY <1>1, <1>3, PathIsWalk DEF Step

\* The conversation at an entry is that at its parent, and the entry itself if
\* it is a message.
LEMMA PathOfEntry ==
  ASSUME NEW f \in Seq(Entry), LogOK(f), NEW i \in 1 .. Len(f)
  PROVE  PathToRoot(f, f[i].id) =
           PathToRoot(f, f[i].parent)
             \o (IF f[i].kind = "message" THEN <<f[i].id>> ELSE <<>>)
<1> DEFINE W == Walk(f)
           n == Len(f) + 9
           p == f[i].parent
<1>1. /\ Len(f) \in Nat /\ DOMAIN f = 1 .. Len(f) /\ f[i].id \in MaybeId /\ p \in MaybeId
      /\ n \in 0 .. n /\ n - 1 \in 0 .. n /\ n # 0 /\ i # 0
      /\ \A j \in 1 .. Len(f) : f[j].id \in Ids
  BY LogTyped DEF MaybeId
<1>2. IndexOf(f, f[i].id) = i
  BY IndexFacts DEF LogOK
<1> HIDE DEF W, p
<1>3. W[n][f[i].id] = W[n - 1][p] \o (IF f[i].kind = "message" THEN <<f[i].id>> ELSE <<>>)
  <2>1. W[n][f[i].id] = Step(W, f, n, f[i].id)
    BY <1>1, WalkStep DEF W
  <2>2. QED
    BY <1>1, <1>2, <2>1 DEF Step, p
<1>4. W[n - 1][p] = W[n][p]
  <2>1. CASE p = None
    <3>1. IndexOf(f, None) = 0
      <4>1. None \notin IssuedIds(f)
        BY <1>1, LogAssumption DEF IssuedIds
      <4>2. QED
        BY <4>1, IndexFacts DEF LogOK
    <3>2. None \in MaybeId
      BY DEF MaybeId
    <3>3. W[n - 1][None] = Step(W, f, n - 1, None) /\ W[n][None] = Step(W, f, n, None)
      BY <1>1, <3>2, WalkStep DEF W
    <3>4. QED
      BY <2>1, <3>1, <3>3 DEF Step
  <2>2. CASE p # None
    <3>1. PICK j \in 1 .. i - 1 : f[j].id = p
      BY <1>1, <2>2 DEF LogOK, ParentsIn, p
    <3>2. j \in 1 .. Len(f) /\ n - 1 \in j .. n /\ n \in j .. n
      BY <1>1
    <3>3. QED
      BY <3>1, <3>2, FuelEnough DEF W
  <2>3. QED
    BY <2>1, <2>2
<1>5. PathToRoot(f, f[i].id) = W[n][f[i].id] /\ PathToRoot(f, p) = W[n][p]
  BY PathIsWalk DEF W
<1>6. QED
  BY <1>3, <1>4, <1>5 DEF p

\* A line that fits leaves the conversations recorded so far as they are.
LEMMA PathAppended ==
  ASSUME NEW f \in Seq(Entry), LogOK(f), NEW e, Fits(e, f),
         NEW x \in IssuedIds(f) \union {None}
  PROVE  PathToRoot(Append(f, e), x) = PathToRoot(f, x)
<1> DEFINE g == Append(f, e)
           T == {i \in 1 .. Len(f) : PathToRoot(g, f[i].id) # PathToRoot(f, f[i].id)}
<1>1. /\ g \in Seq(Entry) /\ LogOK(g) /\ IssuedIds(g) = IssuedIds(f) \union {e.id}
      /\ e \in Entry /\ e.id \in Ids
  BY AppendKeeps DEF Fits, Entry
<1>2. /\ Len(f) \in Nat /\ DOMAIN f = 1 .. Len(f) /\ Len(g) = Len(f) + 1
      /\ \A i \in 1 .. Len(f) : g[i] = f[i]
  BY <1>1, AppendFacts
<1>3. \A i \in 1 .. Len(f) : f[i].id \in Ids /\ f[i].parent \in MaybeId
  BY LogTyped
<1> HIDE DEF g
<1>4. PathToRoot(g, None) = <<>> /\ PathToRoot(f, None) = <<>>
  <2>1. None \in MaybeId /\ None \notin IssuedIds(f) /\ None \notin IssuedIds(g)
    BY SMTT(30), <1>1, <1>2, <1>3, LogAssumption DEF MaybeId, IssuedIds
  <2>2. QED
    BY <1>1, <2>1, PathOfNone
<1>5. T = {}
  <2> SUFFICES ASSUME T # {} PROVE FALSE
    OBVIOUS
  <2>1. PICK i \in T : \A j \in T : i <= j
    <3>1. T \subseteq Nat
      BY <1>2
    <3> HIDE DEF T
    <3>2. QED
      BY <3>1, LeastNumber
  <2>2. /\ i \in 1 .. Len(f) /\ PathToRoot(g, f[i].id) # PathToRoot(f, f[i].id)
        /\ \A j \in 1 .. i - 1 : PathToRoot(g, f[j].id) = PathToRoot(f, f[j].id)
    BY <1>2, <2>1
  <2> HIDE DEF T
  <2>3. PathToRoot(g, f[i].parent) = PathToRoot(f, f[i].parent)
    <3>1. CASE f[i].parent = None
      BY <1>4, <3>1
    <3>2. CASE f[i].parent # None
      <4>1. PICK j \in 1 .. i - 1 : f[j].id = f[i].parent
        BY <1>2, <2>2, <3>2 DEF LogOK, ParentsIn
      <4>2. QED
        BY <2>2, <4>1
    <3>3. QED
      BY <3>1, <3>2
  <2>4. i \in 1 .. Len(g) /\ g[i] = f[i]
    BY <1>2, <2>2
  <2>5. PathToRoot(f, f[i].id) =
           PathToRoot(f, f[i].parent)
             \o (IF f[i].kind = "message" THEN <<f[i].id>> ELSE <<>>)
    BY <2>2, PathOfEntry
  <2>6. PathToRoot(g, g[i].id) =
           PathToRoot(g, g[i].parent)
             \o (IF g[i].kind = "message" THEN <<g[i].id>> ELSE <<>>)
    BY <1>1, <2>4, PathOfEntry
  <2>7. QED
    BY <2>2, <2>3, <2>4, <2>5, <2>6
<1>6. CASE x = None
  BY <1>4, <1>6 DEF g
<1>7. CASE x # None
  <2>1. PICK i \in 1 .. Len(f) : x = f[i].id
    BY <1>2, <1>7 DEF IssuedIds
  <2>2. QED
    BY <1>5, <2>1 DEF g
<1>8. QED
  BY <1>6, <1>7

\* A conversation is made of entries of the log.
LEMMA PathTyped ==
  ASSUME NEW f \in Seq(Entry), LogOK(f), NEW x \in IssuedIds(f) \union {None}
  PROVE  PathToRoot(f, x) \in Seq(IssuedIds(f))
<1> DEFINE S == IssuedIds(f)
           T == {i \in 1 .. Len(f) : PathToRoot(f, f[i].id) \notin Seq(S)}
<1>1. /\ Len(f) \in Nat /\ DOMAIN f = 1 .. Len(f)
      /\ \A i \in 1 .. Len(f) : f[i].id \in Ids /\ f[i].parent \in MaybeId /\ f[i].id \in S
  BY LogTyped DEF IssuedIds
<1> HIDE DEF S
<1>2. PathToRoot(f, None) = <<>> /\ <<>> \in Seq(S)
  <2>1. None \in MaybeId /\ None \notin IssuedIds(f)
    BY <1>1, LogAssumption DEF MaybeId, IssuedIds
  <2>2. QED
    BY <1>1, <2>1, PathOfNone
<1>3. T = {}
  <2> SUFFICES ASSUME T # {} PROVE FALSE
    OBVIOUS
  <2>1. PICK i \in T : \A j \in T : i <= j
    <3>1. T \subseteq Nat
      BY <1>1
    <3> HIDE DEF T
    <3>2. QED
      BY <3>1, LeastNumber
  <2>2. /\ i \in 1 .. Len(f) /\ PathToRoot(f, f[i].id) \notin Seq(S)
        /\ \A j \in 1 .. i - 1 : PathToRoot(f, f[j].id) \in Seq(S)
    BY <1>1, <2>1
  <2> HIDE DEF T
  <2>3. PathToRoot(f, f[i].parent) \in Seq(S)
    <3>1. CASE f[i].parent = None
      BY <1>2, <3>1
    <3>2. CASE f[i].parent # None
      <4>1. PICK j \in 1 .. i - 1 : f[j].id = f[i].parent
        BY <1>1, <2>2, <3>2 DEF LogOK, ParentsIn
      <4>2. QED
        BY <2>2, <4>1
    <3>3. QED
      BY <3>1, <3>2
  <2>4. (IF f[i].kind = "message" THEN <<f[i].id>> ELSE <<>>) \in Seq(S)
    BY <1>1, <2>2
  <2>5. \A a, b \in Seq(S) : a \o b \in Seq(S)
    OBVIOUS
  <2>6. PathToRoot(f, f[i].id) =
           PathToRoot(f, f[i].parent)
             \o (IF f[i].kind = "message" THEN <<f[i].id>> ELSE <<>>)
    BY <2>2, PathOfEntry
  <2>7. QED
    BY <2>2, <2>3, <2>4, <2>5, <2>6
<1>4. CASE x = None
  BY <1>2, <1>4 DEF S
<1>5. CASE x # None
  <2>1. PICK i \in 1 .. Len(f) : x = f[i].id
    BY <1>1, <1>5 DEF IssuedIds
  <2>2. QED
    BY <1>3, <2>1 DEF S
<1>6. QED
  BY <1>4, <1>5

-----------------------------------------------------------------------------
(* The invariant. *)

\* The strengthening holds of the empty file.
LEMMA InitIInv == Init => IInv
<1> SUFFICES ASSUME Init PROVE IInv
  OBVIOUS
<1>1. file = <<>> /\ file \in Seq(Entry) /\ DOMAIN file = {}
  BY EmptySeq DEF Init
<1>2. LogOK(file)
  BY <1>1 DEF LogOK, UniqueIn, ParentsIn, TargetsIn
<1>3. QED
  BY <1>1, <1>2 DEF Init, IInv, TypeOK, MaybeId, LeafOnDisk

\* Every id on the file is an id.
LEMMA IdsIssued == TypeOK => IssuedIds(file) \subseteq Ids
<1> SUFFICES ASSUME TypeOK PROVE IssuedIds(file) \subseteq Ids
  OBVIOUS
<1>1. \A i \in DOMAIN file : file[i] \in Entry
  BY DEF TypeOK
<1>2. \A i \in DOMAIN file : file[i].id \in Ids
  BY <1>1 DEF Entry
<1>3. QED
  BY <1>2 DEF IssuedIds

\* A fresh id whose parent and target are on the file makes a line that fits.
LEMMA LinesFit ==
  ASSUME TypeOK, NEW id \in Ids \ IssuedIds(file),
         NEW p \in IssuedIds(file) \union {None},
         NEW f \in IssuedIds(file) \union {None},
         NEW t \in IssuedIds(file) \union {None}
  PROVE  /\ Fits(Message(id, p), file) /\ Message(id, p).id = id
         /\ Fits(Event(id, p), file) /\ Event(id, p).id = id
         /\ Fits(LeafChange(id, p, f, t), file)
         /\ LeafChange(id, p, f, t).id = id
<1>1. IssuedIds(file) \subseteq Ids
  BY IdsIssued
<1>2. Event(id, p) = [kind |-> "event", id |-> id, parent |-> p,
                      from |-> None, to |-> None]
  BY DEF Event, Message
<1>3. p \in MaybeId /\ f \in MaybeId /\ t \in MaybeId /\ None \in MaybeId
  BY <1>1 DEF MaybeId
<1>4. /\ Message(id, p) \in Entry
      /\ Event(id, p) \in Entry
      /\ LeafChange(id, p, f, t) \in Entry
  BY <1>2, <1>3 DEF Message, LeafChange, Entry, Kinds
<1>5. QED
  BY <1>2, <1>4 DEF Fits, Message, LeafChange

\* Each step of the writer, the process and the reader keeps the invariant.
LEMMA StepIInv == IInv /\ [Next]_vars => IInv'
<1> SUFFICES ASSUME IInv, [Next]_vars PROVE IInv'
  OBVIOUS
<1>0. /\ TypeOK /\ LogOK(file) /\ LeafOnDisk
      /\ proc = "up" => IssuedIds(file) \subseteq seen
      /\ proc = "absent" => file = <<>>
      /\ lock # None => proc = "up" /\ pend \in IssuedIds(file)
  BY DEF IInv
<1>i. IssuedIds(file) \subseteq Ids
  BY <1>0, IdsIssued
<1>1. CASE UNCHANGED vars
  BY <1>0, <1>1 DEF IInv, vars, disk, mem, TypeOK, LogOK, UniqueIn, ParentsIn,
                    TargetsIn, IssuedIds, LeafOnDisk
<1>2. CASE Create
  <2>1. file' = file /\ file = <<>> /\ IssuedIds(file) = {}
    BY <1>0, <1>2 DEF Create, disk, IssuedIds
  <2>2. QED
    BY <1>0, <1>2, <2>1 DEF Create, disk, mem, IInv, TypeOK, LogOK, UniqueIn,
                            ParentsIn, TargetsIn, IssuedIds, LeafOnDisk
<1>3. ASSUME NEW e \in Emitters, AppendMessage(e) PROVE IInv'
  <2>1. PICK id \in Fresh, o \in Outcomes :
          /\ WriteLine(Message(id, leaf), o)
          /\ seen' = seen \union {id}
          /\ lock' = IF o = "ok" THEN e ELSE None
          /\ pend' = IF o = "ok" THEN id ELSE None
    BY <1>3 DEF AppendMessage
  <2>2. proc = "up" /\ proc' = "up" /\ leaf' = leaf
    BY <1>3 DEF AppendMessage
  <2>3. id \in Ids \ IssuedIds(file)
    BY <1>0, <2>2 DEF Fresh
  <2>4. Fits(Message(id, leaf), file) /\ Message(id, leaf).id = id
    BY <1>0, <2>3, LinesFit DEF LeafOnDisk
  <2>5. QED
    BY <1>0, <2>1, <2>2, <2>3, <2>4, WriteKeeps
    DEF IInv, TypeOK, LeafOnDisk, MaybeId
<1>4. ASSUME NEW e \in Emitters, CommitLeaf(e) PROVE IInv'
  <2>1. PICK id \in Fresh, o \in Outcomes :
          /\ WriteLine(LeafChange(id, pend, leaf, pend), o)
          /\ seen' = seen \union {id}
          /\ leaf' = IF o = "ok" THEN pend ELSE leaf
    BY <1>4 DEF CommitLeaf
  <2>2. /\ proc = "up" /\ proc' = "up" /\ lock' = None /\ pend' = None
        /\ lock = e
    BY <1>4 DEF CommitLeaf
  <2>3. id \in Ids \ IssuedIds(file) /\ None \in MaybeId
    BY <1>0, <2>2 DEF Fresh, MaybeId
  <2>4. CASE e # None
    <3>1. pend \in IssuedIds(file)
      BY <1>0, <2>2, <2>4
    <3>2. /\ Fits(LeafChange(id, pend, leaf, pend), file)
          /\ LeafChange(id, pend, leaf, pend).id = id
      BY <1>0, <2>3, <3>1, LinesFit DEF LeafOnDisk
    <3>3. QED
      BY <1>0, <1>i, <2>1, <2>2, <2>3, <3>1, <3>2, WriteKeeps
      DEF IInv, TypeOK, LeafOnDisk, MaybeId
  <2>5. QED
    BY <2>4, LogAssumption
<1>5. ASSUME NEW e \in Emitters, AppendEvent(e) PROVE IInv'
  <2>1. PICK id \in Fresh, o \in Outcomes :
          WriteLine(Event(id, leaf), o) /\ seen' = seen \union {id}
    BY <1>5 DEF AppendEvent
  <2>2. /\ proc = "up" /\ proc' = "up" /\ leaf' = leaf
        /\ lock' = lock /\ pend' = pend
    BY <1>5 DEF AppendEvent
  <2>3. id \in Ids \ IssuedIds(file)
    BY <1>0, <2>2 DEF Fresh
  <2>4. Fits(Event(id, leaf), file) /\ Event(id, leaf).id = id
    BY <1>0, <2>3, LinesFit DEF LeafOnDisk
  <2>5. QED
    BY <1>0, <2>1, <2>2, <2>3, <2>4, WriteKeeps
    DEF IInv, TypeOK, LeafOnDisk, MaybeId
<1>6. ASSUME NEW t \in IssuedIds(file) \union {None}, SetLeaf(t) PROVE IInv'
  <2>1. PICK id \in Fresh, o \in Outcomes :
          /\ WriteLine(LeafChange(id, leaf, leaf, t), o)
          /\ seen' = seen \union {id}
          /\ leaf' = IF o = "ok" THEN t ELSE leaf
    BY <1>6 DEF SetLeaf
  <2>2. /\ proc = "up" /\ proc' = "up"
        /\ lock' = lock /\ pend' = pend
    BY <1>6 DEF SetLeaf
  <2>3. id \in Ids \ IssuedIds(file)
    BY <1>0, <2>2 DEF Fresh
  <2>4. /\ Fits(LeafChange(id, leaf, leaf, t), file)
        /\ LeafChange(id, leaf, leaf, t).id = id
    <3>1. leaf \in IssuedIds(file) \union {None}
      BY <1>0 DEF LeafOnDisk
    <3>2. QED
      BY <1>0, <2>3, <3>1, LinesFit
  <2>5. QED
    BY <1>0, <1>i, <2>1, <2>2, <2>3, <2>4, WriteKeeps
    DEF IInv, TypeOK, LeafOnDisk, MaybeId
<1>7. CASE Stop
  BY <1>0, <1>7 DEF Stop, disk, IInv, TypeOK, LogOK, UniqueIn, ParentsIn,
                    TargetsIn, IssuedIds, LeafOnDisk, MaybeId
<1>8. CASE Reopen
  <2>1. DiskLeaf(file) \in IssuedIds(file) \union {None}
    BY <1>0, DiskLeafIssued DEF TypeOK, LogOK
  <2>2. /\ file' = file /\ tail' = tail /\ broken' = broken
        /\ proc = "down" /\ proc' = "up" /\ lock' = lock /\ pend' = pend
        /\ leaf' = DiskLeaf(file) /\ seen' = IssuedIds(file)
    BY <1>8 DEF Reopen, disk
  <2>3. QED
    BY <1>0, <1>i, <2>1, <2>2
    DEF IInv, TypeOK, LogOK, UniqueIn, ParentsIn, TargetsIn, IssuedIds,
        LeafOnDisk, MaybeId
<1>9. ASSUME NEW t \in Ids, ReopenFork(t) PROVE IInv'
  <2>1. PICK id \in Ids \ IssuedIds(file), o \in Outcomes :
          /\ WriteLine(LeafChange(id, t, t, t), o)
          /\ IF o = "ok"
             THEN /\ proc' = "up" /\ leaf' = t
                  /\ seen' = IssuedIds(file) \union {id}
             ELSE UNCHANGED <<proc, mem>>
    BY <1>9 DEF ReopenFork
  <2>2. /\ t \in IssuedIds(file) /\ proc = "down"
        /\ lock' = lock /\ pend' = pend
    BY <1>9 DEF ReopenFork
  <2>3. Fits(LeafChange(id, t, t, t), file) /\ LeafChange(id, t, t, t).id = id
    BY <1>0, <2>2, LinesFit
  <2>4. CASE o = "ok"
    BY <1>0, <1>i, <2>1, <2>2, <2>3, <2>4, WriteKeeps
    DEF IInv, TypeOK, LeafOnDisk, MaybeId
  <2>5. CASE o # "ok"
    BY <1>0, <1>i, <2>1, <2>2, <2>3, <2>5, WriteKeeps
    DEF IInv, TypeOK, LeafOnDisk, MaybeId, mem
  <2>6. QED
    BY <2>4, <2>5
<1>10. QED
  BY <1>1, <1>2, <1>3, <1>4, <1>5, <1>6, <1>7, <1>8, <1>9 DEF Next

\* The strengthening holds in every reachable state.
LEMMA Invariant == Spec => []IInv
  BY InitIInv, StepIInv, PTL DEF Spec

\* Every reachable state has its type.
THEOREM TypeCorrect == Spec => []TypeOK
<1>1. IInv => TypeOK
  BY DEF IInv
<1>2. QED
  BY <1>1, Invariant, PTL

\* No id is ever given to two lines of the file.
THEOREM IdsStayUnique == Spec => []UniqueIds
<1>1. IInv => UniqueIds
  BY DEF IInv, LogOK, UniqueIn, UniqueIds
<1>2. QED
  BY <1>1, Invariant, PTL

\* The lines form a forest in which parents precede children.
THEOREM LogIsForest == Spec => []ParentsEarlier
<1>1. IInv => ParentsEarlier
  BY DEF IInv, LogOK, ParentsIn, ParentsEarlier
<1>2. QED
  BY <1>1, Invariant, PTL

\* The writer's cursor never dangles.
THEOREM CursorOnDisk == Spec => []LeafOnDisk
<1>1. IInv => LeafOnDisk
  BY DEF IInv
<1>2. QED
  BY <1>1, Invariant, PTL

\* The file is a forest of uniquely named entries and holds the cursor.
THEOREM StaysWellFormed == Spec => []LogWellFormed
  BY IdsStayUnique, LogIsForest, CursorOnDisk, PTL DEF LogWellFormed

-----------------------------------------------------------------------------
(* What is stored and what comes back. *)

HasLeaf(f) == \E i \in DOMAIN f : f[i].kind = "leaf"

\* The line of a message is written before its LeafChange, and nobody else
\* writes in between.
PendInv == lock # None => \E i \in DOMAIN file : file[i] = Message(pend, leaf)

\* Before the first LeafChange a reader takes the newest message: that is the
\* cursor a resumed writer started from, or one staged on top of it.
StagedInv ==
  proc = "up" /\ ~HasLeaf(file) =>
    LET m == Newest(file, "message")
    IN  \/ m = 0 /\ leaf = None
        \/ m # 0 /\ (file[m].id = leaf \/ file[m].parent = leaf)

\* What is acknowledged when the process ends is what the disk recovers, or
\* lacks just the one staged message.
RestartInv ==
  proc = "down" /\ Readable /\ tail = "eol" =>
    \/ acked = PathToRoot(file, DiskLeaf(file))
    \/ /\ ~HasLeaf(file) /\ Newest(file, "message") # 0
       /\ acked = PathToRoot(file, file[Newest(file, "message")].parent)

AckedInv ==
  /\ proc = "absent" => leaf = None /\ acked = <<>>
  /\ AckedIsReplayed /\ CursorRecoverable
  /\ PendInv /\ StagedInv /\ RestartInv

\* What a write that fits does to the file, and to what can be read from it.
LEMMA WriteEffect ==
  ASSUME IInv, NEW e, NEW o \in Outcomes, Fits(e, file), WriteLine(e, o)
  PROVE  /\ e \in Entry /\ file \in Seq(Entry)
         /\ \/ o \in {"ok", "cut"} /\ file' = Append(file, e)
            \/ o \notin {"ok", "cut"} /\ file' = file
         /\ Readable' => Readable
         /\ Readable' /\ tail' = "eol" => tail = "eol" /\ (o = "ok" \/ file' = file)
         /\ \A x \in IssuedIds(file) \union {None} : PathToRoot(file', x) = PathToRoot(file, x)
<1>1. e \in Entry /\ file \in Seq(Entry) /\ LogOK(file)
  BY DEF Fits, IInv, TypeOK
<1>2. \/ o \in {"ok", "cut"} /\ file' = Append(file, e)
      \/ o \notin {"ok", "cut"} /\ file' = file
  BY DEF WriteLine
<1>3. o \in {"ok", "fail", "torn", "cut"} /\ tail \in {"eol", "cut", "torn"} /\ broken \in BOOLEAN
  BY LogAssumption DEF Outcomes, WriteFaults, IInv, TypeOK
<1>4. /\ Readable' => Readable
      /\ Readable' /\ tail' = "eol" => tail = "eol" /\ (o = "ok" \/ file' = file)
  BY <1>3 DEF WriteLine, Readable
<1>5. \A x \in IssuedIds(file) \union {None} :
        PathToRoot(Append(file, e), x) = PathToRoot(file, x)
  BY <1>1, PathAppended
<1>6. QED
  BY <1>1, <1>2, <1>4, <1>5

\* What it does to the newest lines.
LEMMA WriteNewest ==
  ASSUME NEW f \in Seq(Entry), NEW e \in Entry
  PROVE  /\ HasLeaf(f) <=> Newest(f, "leaf") # 0
         /\ HasLeaf(Append(f, e)) <=> HasLeaf(f) \/ e.kind = "leaf"
         /\ \A x \in {Newest(f, "message")} : x # 0 => Append(f, e)[x] = f[x]
<1>1. HasLeaf(f) <=> Newest(f, "leaf") # 0
  BY NewestFacts, LogTyped DEF HasLeaf
<1>2. /\ Len(f) \in Nat /\ DOMAIN f = 1 .. Len(f) /\ DOMAIN Append(f, e) = 1 .. Len(f) + 1
      /\ \A i \in 1 .. Len(f) : Append(f, e)[i] = f[i]
      /\ Append(f, e)[Len(f) + 1] = e
  BY AppendFacts
<1>3. HasLeaf(Append(f, e)) <=> HasLeaf(f) \/ e.kind = "leaf"
  <2> DEFINE g == Append(f, e)
  <2> HIDE DEF g
  <2>1. 1 .. Len(f) + 1 = (1 .. Len(f)) \union {Len(f) + 1}
    BY <1>2
  <2>2. /\ DOMAIN f = 1 .. Len(f) /\ DOMAIN g = (1 .. Len(f)) \union {Len(f) + 1}
        /\ \A i \in 1 .. Len(f) : g[i] = f[i]
        /\ g[Len(f) + 1] = e
    BY <1>2, <2>1 DEF g
  <2>3. HasLeaf(g) <=> HasLeaf(f) \/ e.kind = "leaf"
    BY <2>2 DEF HasLeaf
  <2>4. QED
    BY <2>3 DEF g
<1>4. Newest(f, "message") # 0 => Newest(f, "message") \in 1 .. Len(f)
  BY NewestFacts
<1>5. QED
  BY <1>1, <1>2, <1>3, <1>4

\* A message line: staged on top of the cursor, acknowledged by nobody yet.
LEMMA AppendAcked ==
  ASSUME IInv, IInv', AckedInv, NEW e \in Emitters, AppendMessage(e)
  PROVE  AckedInv'
<1>1. PICK id \in Fresh, o \in Outcomes :
        /\ WriteLine(Message(id, leaf), o)
        /\ lock' = IF o = "ok" THEN e ELSE None
        /\ pend' = IF o = "ok" THEN id ELSE None
  BY DEF AppendMessage
<1>2. /\ proc = "up" /\ lock = None
      /\ proc' = "up" /\ leaf' = leaf /\ acked' = acked
  BY DEF AppendMessage
<1> DEFINE line == Message(id, leaf)
<1>3. /\ line.kind = "message" /\ line.parent = leaf /\ line.id = id
      /\ leaf \in IssuedIds(file) \union {None}
  BY DEF Message, IInv, LeafOnDisk
<1>4. Fits(line, file)
  <2>1. id \in Ids \ IssuedIds(file) /\ TypeOK
    BY <1>2 DEF Fresh, IInv
  <2>2. QED
    BY <1>3, <2>1, LinesFit
<1>5. /\ line \in Entry /\ file \in Seq(Entry)
      /\ \/ o \in {"ok", "cut"} /\ file' = Append(file, line)
         \/ o \notin {"ok", "cut"} /\ file' = file
      /\ Readable' => Readable
      /\ Readable' /\ tail' = "eol" => tail = "eol" /\ (o = "ok" \/ file' = file)
      /\ \A x \in IssuedIds(file) \union {None} : PathToRoot(file', x) = PathToRoot(file, x)
  BY <1>1, <1>4, WriteEffect
<1>6. /\ HasLeaf(file) <=> Newest(file, "leaf") # 0
      /\ HasLeaf(Append(file, line)) <=> HasLeaf(file)
      /\ Newest(file, "leaf") # 0 => DiskLeaf(Append(file, line)) = DiskLeaf(file)
      /\ Newest(Append(file, line), "message") = Len(file) + 1
      /\ Len(file) \in Nat /\ Len(file) + 1 # 0 /\ Append(file, line)[Len(file) + 1] = line
      /\ Len(file) + 1 \in DOMAIN Append(file, line)
  BY <1>3, <1>5, WriteNewest, DiskLeafAppended, NewestAppended, AppendFacts
<1> HIDE DEF line
<1>7. AckedIsReplayed'
  <2>1. Readable' => PathToRoot(file', leaf) = acked
    BY <1>2, <1>3, <1>5 DEF AckedInv, AckedIsReplayed
  <2>2. QED
    BY <1>2, <2>1 DEF AckedIsReplayed
<1>8. CursorRecoverable'
  <2>1. Readable' /\ tail' = "eol" /\ HasLeaf(file') => DiskLeaf(file') = leaf
    BY <1>2, <1>5, <1>6 DEF AckedInv, CursorRecoverable, HasLeaf
  <2>2. QED
    BY <1>2, <2>1 DEF CursorRecoverable, HasLeaf
<1>9. PendInv'
  <2>1. CASE o = "ok"
    <3>1. file'[Len(file) + 1] = Message(pend', leaf') /\ Len(file) + 1 \in DOMAIN file'
      BY <1>1, <1>2, <1>5, <1>6, <2>1 DEF line
    <3>2. QED
      BY <3>1 DEF PendInv
  <2>2. CASE o # "ok"
    BY <1>1, <2>2 DEF PendInv
  <2>3. QED
    BY <2>1, <2>2
<1>10. StagedInv'
  <2>1. CASE file' = file
    BY <1>2, <2>1 DEF AckedInv, StagedInv
  <2>2. CASE file' = Append(file, line)
    BY <1>2, <1>3, <1>6, <2>2 DEF StagedInv, line
  <2>3. QED
    BY <1>5, <2>1, <2>2
<1>11. RestartInv'
  BY <1>2 DEF RestartInv
<1>12. QED
  BY <1>2, <1>7, <1>8, <1>9, <1>10, <1>11 DEF AckedInv

\* Its LeafChange line: if it is written, the message is acknowledged and at
\* the cursor.
LEMMA CommitAcked ==
  ASSUME IInv, IInv', AckedInv, NEW e \in Emitters, CommitLeaf(e)
  PROVE  AckedInv'
<1>1. PICK id \in Fresh, o \in Outcomes :
        /\ WriteLine(LeafChange(id, pend, leaf, pend), o)
        /\ leaf' = IF o = "ok" THEN pend ELSE leaf
        /\ acked' = IF o = "ok" THEN Append(acked, pend) ELSE acked
  BY DEF CommitLeaf
<1>2. /\ proc = "up" /\ lock # None /\ proc' = "up" /\ lock' = None /\ pend' = None
  BY LogAssumption DEF CommitLeaf
<1> DEFINE line == LeafChange(id, pend, leaf, pend)
<1>3. /\ line.kind = "leaf" /\ line.to = pend
      /\ leaf \in IssuedIds(file) \union {None} /\ pend \in IssuedIds(file)
  BY <1>2 DEF LeafChange, IInv, LeafOnDisk
<1>4. Fits(line, file)
  <2>1. id \in Ids \ IssuedIds(file) /\ TypeOK
    BY <1>2 DEF Fresh, IInv
  <2>2. QED
    BY <1>3, <2>1, LinesFit
<1>5. /\ line \in Entry /\ file \in Seq(Entry)
      /\ \/ o \in {"ok", "cut"} /\ file' = Append(file, line)
         \/ o \notin {"ok", "cut"} /\ file' = file
      /\ Readable' => Readable
      /\ Readable' /\ tail' = "eol" => tail = "eol" /\ (o = "ok" \/ file' = file)
      /\ \A x \in IssuedIds(file) \union {None} : PathToRoot(file', x) = PathToRoot(file, x)
  BY <1>1, <1>4, WriteEffect
<1>6. /\ HasLeaf(Append(file, line)) /\ DiskLeaf(Append(file, line)) = pend
  BY <1>3, <1>5, WriteNewest, DiskLeafAppended
<1> HIDE DEF line
<1>7. AckedIsReplayed'
  <2>1. CASE o = "ok" /\ Readable'
    <3>1. acked = PathToRoot(file, leaf)
      BY <1>2, <1>5, <2>1 DEF AckedInv, AckedIsReplayed
    <3>2. PathToRoot(file, leaf) \in Seq(IssuedIds(file))
      BY <1>3, <1>5, PathTyped DEF IInv
    <3>3. PathToRoot(file, pend) = PathToRoot(file, leaf) \o <<pend>>
      <4>1. PICK i \in 1 .. Len(file) : file[i] = Message(pend, leaf)
        BY <1>2, <1>5, LogTyped DEF AckedInv, PendInv
      <4>2. file[i].id = pend /\ file[i].parent = leaf /\ file[i].kind = "message"
        BY <4>1 DEF Message
      <4>3. QED
        BY <1>5, <4>2, PathOfEntry DEF IInv
    <3>4. PathToRoot(file, leaf) \o <<pend>> = Append(PathToRoot(file, leaf), pend)
      <4> DEFINE p == PathToRoot(file, leaf)
      <4>1. p \in Seq(IssuedIds(file))
        BY <3>2
      <4> HIDE DEF p
      <4>2. p \o <<pend>> = Append(p, pend)
        BY <1>3, <4>1
      <4>3. QED
        BY <4>2 DEF p
    <3>5. PathToRoot(file', pend) = Append(acked, pend)
      BY <1>3, <1>5, <3>1, <3>3, <3>4
    <3>6. QED
      BY <1>1, <2>1, <3>5 DEF AckedIsReplayed
  <2>2. CASE o # "ok" /\ Readable'
    <3>1. PathToRoot(file', leaf) = acked
      BY <1>2, <1>3, <1>5, <2>2 DEF AckedInv, AckedIsReplayed
    <3>2. QED
      BY <1>1, <2>2, <3>1 DEF AckedIsReplayed
  <2>3. QED
    BY <2>1, <2>2 DEF AckedIsReplayed
<1>8. CursorRecoverable'
  <2>1. CASE file' = Append(file, line)
    BY <1>1, <1>5, <1>6, <2>1 DEF CursorRecoverable, AckedInv, HasLeaf
  <2>2. CASE file' = file /\ o \notin {"ok", "cut"}
    BY <1>1, <1>2, <1>5, <2>2 DEF CursorRecoverable, AckedInv
  <2>3. QED
    BY <1>5, <2>1, <2>2
<1>9. PendInv'
  BY <1>2 DEF PendInv
<1>10. StagedInv'
  <2>1. CASE file' = file /\ o \notin {"ok", "cut"}
    BY <1>1, <1>2, <2>1 DEF AckedInv, StagedInv
  <2>2. CASE file' = Append(file, line)
    BY <1>6, <2>2 DEF StagedInv
  <2>3. QED
    BY <1>5, <2>1, <2>2
<1>11. RestartInv'
  BY <1>2 DEF RestartInv
<1>12. QED
  BY <1>2, <1>7, <1>8, <1>9, <1>10, <1>11 DEF AckedInv

\* An event: it moves nothing.
LEMMA EventAcked ==
  ASSUME IInv, IInv', AckedInv, NEW e \in Emitters, AppendEvent(e)
  PROVE  AckedInv'
<1>1. PICK id \in Fresh, o \in Outcomes : WriteLine(Event(id, leaf), o)
  BY DEF AppendEvent
<1>2. /\ proc = "up" /\ lock = None /\ lock' = None
      /\ proc' = "up" /\ leaf' = leaf /\ acked' = acked
  BY DEF AppendEvent
<1> DEFINE line == Event(id, leaf)
<1>3. line.kind = "event" /\ leaf \in IssuedIds(file) \union {None}
  BY DEF Event, Message, IInv, LeafOnDisk
<1>4. Fits(line, file)
  <2>1. id \in Ids \ IssuedIds(file) /\ TypeOK
    BY <1>2 DEF Fresh, IInv
  <2>2. QED
    BY <1>3, <2>1, LinesFit
<1>5. /\ line \in Entry /\ file \in Seq(Entry)
      /\ \/ o \in {"ok", "cut"} /\ file' = Append(file, line)
         \/ o \notin {"ok", "cut"} /\ file' = file
      /\ Readable' => Readable
      /\ Readable' /\ tail' = "eol" => tail = "eol" /\ (o = "ok" \/ file' = file)
      /\ \A x \in IssuedIds(file) \union {None} : PathToRoot(file', x) = PathToRoot(file, x)
  BY <1>1, <1>4, WriteEffect
<1>6. /\ HasLeaf(Append(file, line)) <=> HasLeaf(file)
      /\ DiskLeaf(Append(file, line)) = DiskLeaf(file)
      /\ Newest(Append(file, line), "message") = Newest(file, "message")
      /\ Newest(file, "message") # 0 =>
           Append(file, line)[Newest(file, "message")] = file[Newest(file, "message")]
  BY <1>3, <1>5, WriteNewest, DiskLeafAppended, NewestAppended
<1> HIDE DEF line
<1>7. AckedIsReplayed'
  <2>1. Readable' => PathToRoot(file', leaf) = acked
    BY <1>2, <1>3, <1>5 DEF AckedInv, AckedIsReplayed
  <2>2. QED
    BY <1>2, <2>1 DEF AckedIsReplayed
<1>8. CursorRecoverable'
  <2>1. Readable' /\ tail' = "eol" /\ HasLeaf(file') => DiskLeaf(file') = leaf
    BY <1>2, <1>5, <1>6 DEF AckedInv, CursorRecoverable, HasLeaf
  <2>2. QED
    BY <1>2, <2>1 DEF CursorRecoverable, HasLeaf
<1>9. PendInv'
  BY <1>2 DEF PendInv
<1>10. StagedInv'
  <2>1. CASE file' = file
    BY <1>2, <2>1 DEF AckedInv, StagedInv
  <2>2. CASE file' = Append(file, line)
    BY <1>2, <1>6, <2>2 DEF AckedInv, StagedInv
  <2>3. QED
    BY <1>5, <2>1, <2>2
<1>11. RestartInv'
  BY <1>2 DEF RestartInv
<1>12. QED
  BY <1>2, <1>7, <1>8, <1>9, <1>10, <1>11 DEF AckedInv

\* A rewind: if its line is written the cursor and what is acknowledged move
\* together.
LEMMA SetLeafAcked ==
  ASSUME IInv, IInv', AckedInv, NEW t \in IssuedIds(file) \union {None}, SetLeaf(t)
  PROVE  AckedInv'
<1>1. PICK id \in Fresh, o \in Outcomes :
        /\ WriteLine(LeafChange(id, leaf, leaf, t), o)
        /\ leaf' = IF o = "ok" THEN t ELSE leaf
        /\ acked' = IF o = "ok" THEN PathToRoot(file, t) ELSE acked
  BY DEF SetLeaf
<1>2. /\ proc = "up" /\ lock = None /\ proc' = "up" /\ lock' = None
  BY DEF SetLeaf
<1> DEFINE line == LeafChange(id, leaf, leaf, t)
<1>3. line.kind = "leaf" /\ line.to = t /\ leaf \in IssuedIds(file) \union {None}
  BY DEF LeafChange, IInv, LeafOnDisk
<1>4. Fits(line, file)
  <2>1. id \in Ids \ IssuedIds(file) /\ TypeOK
    BY <1>2 DEF Fresh, IInv
  <2>2. QED
    BY <1>3, <2>1, LinesFit
<1>5. /\ line \in Entry /\ file \in Seq(Entry)
      /\ \/ o \in {"ok", "cut"} /\ file' = Append(file, line)
         \/ o \notin {"ok", "cut"} /\ file' = file
      /\ Readable' => Readable
      /\ Readable' /\ tail' = "eol" => tail = "eol" /\ (o = "ok" \/ file' = file)
      /\ \A x \in IssuedIds(file) \union {None} : PathToRoot(file', x) = PathToRoot(file, x)
  BY <1>1, <1>4, WriteEffect
<1>6. /\ HasLeaf(Append(file, line)) /\ DiskLeaf(Append(file, line)) = t
  BY <1>3, <1>5, WriteNewest, DiskLeafAppended
<1> HIDE DEF line
<1>7. AckedIsReplayed'
  <2>1. CASE o = "ok"
    BY <1>1, <1>5, <2>1 DEF AckedIsReplayed
  <2>2. CASE o # "ok"
    <3>1. Readable' => PathToRoot(file', leaf) = acked
      BY <1>2, <1>3, <1>5 DEF AckedInv, AckedIsReplayed
    <3>2. QED
      BY <1>1, <2>2, <3>1 DEF AckedIsReplayed
  <2>3. QED
    BY <2>1, <2>2
<1>8. CursorRecoverable'
  <2>1. CASE file' = Append(file, line)
    BY <1>1, <1>5, <1>6, <2>1 DEF CursorRecoverable, AckedInv, HasLeaf
  <2>2. CASE file' = file /\ o \notin {"ok", "cut"}
    BY <1>1, <1>2, <1>5, <2>2 DEF CursorRecoverable, AckedInv
  <2>3. QED
    BY <1>5, <2>1, <2>2
<1>9. PendInv'
  BY <1>2 DEF PendInv
<1>10. StagedInv'
  <2>1. CASE file' = file /\ o \notin {"ok", "cut"}
    BY <1>1, <1>2, <2>1 DEF AckedInv, StagedInv
  <2>2. CASE file' = Append(file, line)
    BY <1>6, <2>2 DEF StagedInv
  <2>3. QED
    BY <1>5, <2>1, <2>2
<1>11. RestartInv'
  BY <1>2 DEF RestartInv
<1>12. QED
  BY <1>2, <1>7, <1>8, <1>9, <1>10, <1>11 DEF AckedInv

\* The process ends: what was acknowledged is what the disk has.
LEMMA StopAcked ==
  ASSUME IInv, IInv', AckedInv, Stop
  PROVE  AckedInv'
<1>1. /\ proc = "up" /\ proc' = "down" /\ leaf' = None /\ lock' = None
      /\ UNCHANGED <<file, tail, broken, acked>>
  BY DEF Stop, disk
<1>2. RestartInv'
  <2> SUFFICES ASSUME Readable, tail = "eol"
               PROVE  \/ acked = PathToRoot(file, DiskLeaf(file))
                      \/ /\ ~HasLeaf(file) /\ Newest(file, "message") # 0
                         /\ acked = PathToRoot(file, file[Newest(file, "message")].parent)
    BY <1>1 DEF RestartInv, Readable
  <2>1. acked = PathToRoot(file, leaf)
    BY <1>1 DEF AckedInv, AckedIsReplayed
  <2>2. CASE HasLeaf(file)
    BY <1>1, <2>1, <2>2 DEF AckedInv, CursorRecoverable, HasLeaf
  <2>3. CASE ~HasLeaf(file)
    <3>1. Newest(file, "leaf") = 0
      BY <2>3, NewestFacts DEF HasLeaf, IInv, TypeOK
    <3>2. DiskLeaf(file) = IF Newest(file, "message") # 0
                           THEN file[Newest(file, "message")].id ELSE None
      BY <3>1, DiskLeafIs
    <3>3. QED
      BY <1>1, <2>1, <2>3, <3>2 DEF AckedInv, StagedInv
  <2>4. QED
    BY <2>2, <2>3
<1>3. QED
  BY <1>1, <1>2 DEF AckedInv, AckedIsReplayed, CursorRecoverable, PendInv, StagedInv

\* A resume takes the cursor from the disk.
LEMMA ReopenAcked ==
  ASSUME IInv, IInv', AckedInv, Reopen
  PROVE  AckedInv'
<1>1. /\ proc = "down" /\ proc' = "up" /\ lock' = lock /\ lock = None
      /\ UNCHANGED <<file, tail, broken>>
      /\ leaf' = DiskLeaf(file) /\ acked' = PathToRoot(file, DiskLeaf(file))
  BY DEF Reopen, disk, IInv
<1>2. StagedInv'
  <2>1. CASE HasLeaf(file)
    BY <1>1, <2>1 DEF StagedInv
  <2>2. CASE ~HasLeaf(file)
    <3>1. Newest(file, "leaf") = 0
      BY <2>2, NewestFacts DEF HasLeaf, IInv, TypeOK
    <3>2. DiskLeaf(file) = IF Newest(file, "message") # 0
                           THEN file[Newest(file, "message")].id ELSE None
      BY <3>1, DiskLeafIs
    <3>3. QED
      BY <1>1, <3>2 DEF StagedInv
  <2>3. QED
    BY <2>1, <2>2
<1>3. QED
  BY <1>1, <1>2 DEF AckedInv, AckedIsReplayed, CursorRecoverable, PendInv, RestartInv

\* A fork is a resume and a rewind in one.
LEMMA ForkAcked ==
  ASSUME IInv, IInv', AckedInv, NEW t \in Ids, ReopenFork(t)
  PROVE  AckedInv'
<1>1. PICK id \in Ids \ IssuedIds(file), o \in Outcomes :
        /\ WriteLine(LeafChange(id, t, t, t), o)
        /\ IF o = "ok"
           THEN proc' = "up" /\ leaf' = t /\ acked' = PathToRoot(file, t)
           ELSE UNCHANGED <<proc, leaf, acked>>
  BY DEF ReopenFork, mem
<1>2. /\ proc = "down" /\ t \in IssuedIds(file) /\ lock' = lock /\ lock = None
  BY DEF ReopenFork, IInv
<1> DEFINE line == LeafChange(id, t, t, t)
<1>3. line.kind = "leaf" /\ line.to = t
  BY DEF LeafChange
<1>4. Fits(line, file)
  BY <1>2, LinesFit DEF IInv
<1>5. /\ line \in Entry /\ file \in Seq(Entry)
      /\ \/ o \in {"ok", "cut"} /\ file' = Append(file, line)
         \/ o \notin {"ok", "cut"} /\ file' = file
      /\ Readable' => Readable
      /\ Readable' /\ tail' = "eol" => tail = "eol" /\ (o = "ok" \/ file' = file)
      /\ \A x \in IssuedIds(file) \union {None} : PathToRoot(file', x) = PathToRoot(file, x)
  BY <1>1, <1>4, WriteEffect
<1>6. /\ HasLeaf(Append(file, line)) /\ DiskLeaf(Append(file, line)) = t
  BY <1>3, <1>5, WriteNewest, DiskLeafAppended
<1> HIDE DEF line
<1>7. CASE o = "ok"
  BY <1>1, <1>2, <1>5, <1>6, <1>7
  DEF AckedInv, AckedIsReplayed, CursorRecoverable, PendInv, StagedInv, RestartInv
<1>8. CASE o # "ok"
  <2>1. RestartInv'
    <3>1. Readable' /\ tail' = "eol" => Readable /\ tail = "eol" /\ file' = file
      BY <1>5, <1>8
    <3>2. QED
      BY <1>1, <1>2, <1>8, <3>1 DEF AckedInv, RestartInv
  <2>2. QED
    BY <1>1, <1>2, <1>8, <2>1 DEF AckedInv, AckedIsReplayed, CursorRecoverable, PendInv, StagedInv
<1>9. QED
  BY <1>7, <1>8

\* A new file has nothing and promises nothing.
LEMMA EmptyPath == PathToRoot(<<>>, None) = <<>> /\ Newest(<<>>, "message") = 0 /\ ~HasLeaf(<<>>)
<1>1. <<>> \in Seq(Entry) /\ DOMAIN <<>> = {} /\ None \in MaybeId
  BY EmptySeq DEF MaybeId
<1>2. LogOK(<<>>) /\ None \notin IssuedIds(<<>>)
  BY <1>1 DEF LogOK, UniqueIn, ParentsIn, TargetsIn, IssuedIds
<1>3. Newest(<<>>, "message") = 0
  BY <1>1, NewestFacts
<1>4. QED
  BY <1>1, <1>2, <1>3, PathOfNone DEF HasLeaf

LEMMA CreateAcked ==
  ASSUME IInv, IInv', AckedInv, Create
  PROVE  AckedInv'
<1>1. /\ file = <<>> /\ leaf = None /\ acked = <<>> /\ proc' = "up" /\ lock = None
      /\ UNCHANGED <<file, leaf, acked, lock>>
  BY DEF Create, disk, mem, IInv, AckedInv
<1>2. AckedIsReplayed' /\ StagedInv'
  BY <1>1, EmptyPath DEF AckedIsReplayed, StagedInv
<1>3. CursorRecoverable'
  BY <1>1, EmptyPath DEF CursorRecoverable, HasLeaf
<1>4. QED
  BY <1>1, <1>2, <1>3 DEF AckedInv, PendInv, RestartInv

\* Every step keeps all of it.
LEMMA StepAckedInv == IInv /\ AckedInv /\ [Next]_vars => AckedInv'
<1> SUFFICES ASSUME IInv, AckedInv, [Next]_vars PROVE AckedInv'
  OBVIOUS
<1>1. IInv'
  BY StepIInv
<1>2. CASE UNCHANGED vars
  BY <1>2 DEF vars, AckedInv, AckedIsReplayed, CursorRecoverable, PendInv, StagedInv,
              RestartInv, Readable
<1>3. QED
  BY <1>1, <1>2, AppendAcked, CommitAcked, EventAcked, SetLeafAcked, StopAcked, ReopenAcked,
     ForkAcked, CreateAcked DEF Next

LEMMA InitAckedInv == Init => AckedInv
<1> SUFFICES ASSUME Init PROVE AckedInv
  OBVIOUS
<1>1. file = <<>> /\ proc = "absent" /\ leaf = None /\ acked = <<>> /\ lock = None
  BY DEF Init
<1>2. QED
  BY <1>1 DEF AckedInv, AckedIsReplayed, CursorRecoverable, PendInv, StagedInv, RestartInv

\* What the emitters were told is stored is what a replay from the writer's
\* cursor returns: no append that waits for the mutexes, fails half way or meets
\* a rewind is acknowledged and then missing.
THEOREM StoredIsReplayed == Spec => []AckedIsReplayed
<1>1. AckedInv => AckedIsReplayed
  BY DEF AckedInv
<1>2. QED
  BY Invariant, InitAckedInv, StepAckedInv, <1>1, PTL DEF Spec

\* The cursor in memory is the one a reader of the disk recovers.
THEOREM CursorIsRecovered == Spec => []CursorRecoverable
<1>1. AckedInv => CursorRecoverable
  BY DEF AckedInv
<1>2. QED
  BY Invariant, InitAckedInv, StepAckedInv, <1>1, PTL DEF Spec

\* Without its last element an extended sequence is what it was, and it differs
\* from it.
LEMMA FrontAppended ==
  ASSUME NEW S, NEW s \in Seq(S), NEW x \in S
  PROVE  s # s \o <<x>> /\ Front(s \o <<x>>) = s
<1> DEFINE t == s \o <<x>>
<1>1. t \in Seq(S) /\ Len(t) = Len(s) + 1 /\ Len(s) \in Nat
  OBVIOUS
<1>2. \A i \in 1 .. Len(s) : t[i] = s[i]
  OBVIOUS
<1> HIDE DEF t
<1> DEFINE u == SubSeq(t, 1, Len(t) - 1)
<1>3. u \in Seq(S) /\ Len(u) = Len(s)
  BY <1>1
<1>4. \A i \in 1 .. Len(s) : u[i] = t[i]
  BY <1>1
<1> HIDE DEF u
<1>5. u = s
  BY <1>2, <1>3, <1>4
<1>6. t # s
  BY <1>1
<1>7. Front(t) = s
  BY <1>5 DEF u, Front
<1>8. QED
  BY <1>6, <1>7 DEF t

\* A resume from a complete last line brings back what was acknowledged, and at
\* most one staged message more, if there never was a LeafChange.
THEOREM RestartKeepsAcked == Spec => AckedSurvivesRestart
<1>1. ASSUME IInv, AckedInv, Reopen, tail = "eol"
      PROVE  \/ acked' = acked
             \/ /\ \A i \in DOMAIN file : file[i].kind # "leaf"
                /\ acked # acked' /\ acked = Front(acked')
  <2>1. proc = "down" /\ Readable /\ acked' = PathToRoot(file, DiskLeaf(file))
    BY <1>1 DEF Reopen
  <2> DEFINE m == Newest(file, "message")
  <2>2. CASE ~HasLeaf(file) /\ m # 0 /\ acked = PathToRoot(file, file[m].parent)
    <3>1. Newest(file, "leaf") = 0
      BY <1>1, <2>2, NewestFacts DEF HasLeaf, IInv, TypeOK
    <3>2. acked' = PathToRoot(file, file[m].id)
      BY <2>1, <2>2, <3>1, DiskLeafIs
    <3>3. file \in Seq(Entry) /\ LogOK(file) /\ m \in 1 .. Len(file) /\ file[m].kind = "message"
      BY <1>1, <2>2, NewestFacts DEF IInv, TypeOK
    <3> HIDE DEF m
    <3>4. acked' = acked \o <<file[m].id>>
      BY <2>2, <3>2, <3>3, PathOfEntry
    <3>5. file[m].parent \in IssuedIds(file) \union {None} /\ file[m].id \in IssuedIds(file)
      BY <3>3, LogTyped DEF LogOK, ParentsIn, IssuedIds
    <3>6. acked \in Seq(IssuedIds(file))
      BY <2>2, <3>3, <3>5, PathTyped
    <3>7. PICK id \in IssuedIds(file) : acked' = acked \o <<id>>
      BY <3>4, <3>5
    <3>8. acked # acked' /\ acked = Front(acked')
      <4>1. PICK a \in Seq(IssuedIds(file)) : a = acked
        BY <3>6
      <4>2. a # a \o <<id>> /\ Front(a \o <<id>>) = a
        BY FrontAppended
      <4>3. QED
        BY <3>7, <4>1, <4>2
    <3>9. QED
      BY <2>2, <3>8 DEF HasLeaf
  <2>3. CASE acked = PathToRoot(file, DiskLeaf(file))
    BY <2>1, <2>3
  <2>4. QED
    BY <1>1, <2>1, <2>2, <2>3 DEF AckedInv, RestartInv
<1>2. IInv /\ AckedInv => [Reopen /\ tail = "eol" =>
        \/ acked' = acked
        \/ /\ \A i \in DOMAIN file : file[i].kind # "leaf"
           /\ acked # acked' /\ acked = Front(acked')]_vars
  BY <1>1
<1>3. QED
  BY Invariant, InitAckedInv, StepAckedInv, <1>2, PTL DEF Spec, AckedSurvivesRestart

-----------------------------------------------------------------------------
(* The file implements the transcript. *)

Known(f) == {PathToRoot(f, x) : x \in IssuedIds(f) \union {None}}

\* A line adds the conversation that ends in it, if it is a message, and nothing
\* otherwise.
LEMMA KnownAppended ==
  ASSUME NEW f \in Seq(Entry), LogOK(f), NEW e, Fits(e, f)
  PROVE  Known(Append(f, e)) =
           IF e.kind = "message" THEN Known(f) \union {Append(PathToRoot(f, e.parent), e.id)}
           ELSE Known(f)
<1> DEFINE g == Append(f, e)
           p == PathToRoot(f, e.parent)
<1>1. /\ g \in Seq(Entry) /\ LogOK(g) /\ IssuedIds(g) = IssuedIds(f) \union {e.id}
      /\ e \in Entry /\ e.parent \in IssuedIds(f) \union {None}
  BY AppendKeeps DEF Fits
<1>2. /\ Len(f) \in Nat /\ Len(f) + 1 \in 1 .. Len(g) /\ g[Len(f) + 1] = e
  BY <1>1, AppendFacts
<1>3. \A x \in IssuedIds(f) \union {None} : PathToRoot(g, x) = PathToRoot(f, x)
  BY PathAppended
<1>4. PathToRoot(g, e.id) = p \o (IF e.kind = "message" THEN <<e.id>> ELSE <<>>)
  <2>1. PathToRoot(g, g[Len(f) + 1].id) =
          PathToRoot(g, g[Len(f) + 1].parent)
            \o (IF g[Len(f) + 1].kind = "message" THEN <<g[Len(f) + 1].id>> ELSE <<>>)
    BY <1>1, <1>2, PathOfEntry
  <2>2. QED
    BY <1>1, <1>2, <1>3, <2>1
<1>5. p \in Seq(IssuedIds(f)) /\ p \in Known(f)
  BY <1>1, PathTyped DEF Known
<1> HIDE DEF g, p
<1>6. PathToRoot(g, e.id) = IF e.kind = "message" THEN Append(p, e.id) ELSE p
  <2>1. p \o <<>> = p /\ p \o <<e.id>> = Append(p, e.id)
    <3>1. p \in Seq(IssuedIds(f) \union {e.id})
      BY <1>5
    <3>2. QED
      BY <3>1
  <2>2. QED
    BY <1>4, <2>1
<1>7. Known(g) = Known(f) \union {PathToRoot(g, e.id)}
  BY <1>1, <1>3 DEF Known
<1>8. QED
  BY <1>5, <1>6, <1>7 DEF g, p

\* A step writes a line that fits or leaves the disk alone; a message is written
\* at the cursor, which stays.
LEMMA NextWrites ==
  ASSUME IInv, [Next]_vars
  PROVE  \/ UNCHANGED <<file, tail, broken>>
         \/ \E e \in Entry, o \in Outcomes :
              /\ Fits(e, file) /\ WriteLine(e, o)
              /\ e.kind = "message" =>
                   proc = "up" /\ proc' = "up" /\ leaf' = leaf /\ e.parent = leaf
<1> DEFINE Writes(e, o) ==
              /\ Fits(e, file) /\ WriteLine(e, o)
              /\ e.kind = "message" =>
                   proc = "up" /\ proc' = "up" /\ leaf' = leaf /\ e.parent = leaf
<1>0. /\ TypeOK /\ leaf \in IssuedIds(file) \union {None}
      /\ proc = "up" => IssuedIds(file) \subseteq seen
      /\ lock # None => pend \in IssuedIds(file)
  BY DEF IInv, LeafOnDisk
<1>1. ASSUME NEW e, NEW o \in Outcomes, Writes(e, o)
      PROVE  \E x \in Entry, y \in Outcomes : Writes(x, y)
  BY <1>1 DEF Fits
<1>2. ASSUME NEW m \in Emitters, AppendMessage(m)
      PROVE  \E x \in Entry, y \in Outcomes : Writes(x, y)
  <2>1. PICK id \in Fresh, o \in Outcomes : WriteLine(Message(id, leaf), o)
    BY <1>2 DEF AppendMessage
  <2>2. proc = "up" /\ proc' = "up" /\ leaf' = leaf
    BY <1>2 DEF AppendMessage
  <2>3. Fits(Message(id, leaf), file)
    BY <1>0, <2>2, LinesFit DEF Fresh
  <2>4. Writes(Message(id, leaf), o)
    BY <2>1, <2>2, <2>3 DEF Message
  <2>5. QED
    BY <1>1, <2>4
<1>3. ASSUME NEW m \in Emitters, CommitLeaf(m)
      PROVE  \E x \in Entry, y \in Outcomes : Writes(x, y)
  <2>1. PICK id \in Fresh, o \in Outcomes : WriteLine(LeafChange(id, pend, leaf, pend), o)
    BY <1>3 DEF CommitLeaf
  <2>2. proc = "up" /\ lock # None
    BY <1>3, LogAssumption DEF CommitLeaf
  <2>3. Fits(LeafChange(id, pend, leaf, pend), file)
    BY <1>0, <2>2, LinesFit DEF Fresh
  <2>4. Writes(LeafChange(id, pend, leaf, pend), o)
    BY <2>1, <2>3 DEF LeafChange
  <2>5. QED
    BY <1>1, <2>4
<1>4. ASSUME NEW m \in Emitters, AppendEvent(m)
      PROVE  \E x \in Entry, y \in Outcomes : Writes(x, y)
  <2>1. PICK id \in Fresh, o \in Outcomes : WriteLine(Event(id, leaf), o)
    BY <1>4 DEF AppendEvent
  <2>2. proc = "up"
    BY <1>4 DEF AppendEvent
  <2>3. Fits(Event(id, leaf), file)
    BY <1>0, <2>2, LinesFit DEF Fresh
  <2>4. Writes(Event(id, leaf), o)
    BY <2>1, <2>3 DEF Event, Message
  <2>5. QED
    BY <1>1, <2>4
<1>5. ASSUME NEW t \in IssuedIds(file) \union {None}, SetLeaf(t)
      PROVE  \E x \in Entry, y \in Outcomes : Writes(x, y)
  <2>1. PICK id \in Fresh, o \in Outcomes : WriteLine(LeafChange(id, leaf, leaf, t), o)
    BY <1>5 DEF SetLeaf
  <2>2. proc = "up"
    BY <1>5 DEF SetLeaf
  <2>3. Fits(LeafChange(id, leaf, leaf, t), file)
    BY <1>0, <2>2, LinesFit DEF Fresh
  <2>4. Writes(LeafChange(id, leaf, leaf, t), o)
    BY <2>1, <2>3 DEF LeafChange
  <2>5. QED
    BY <1>1, <2>4
<1>6. ASSUME NEW t \in Ids, ReopenFork(t)
      PROVE  \E x \in Entry, y \in Outcomes : Writes(x, y)
  <2>1. PICK id \in Ids \ IssuedIds(file), o \in Outcomes : WriteLine(LeafChange(id, t, t, t), o)
    BY <1>6 DEF ReopenFork
  <2>2. Fits(LeafChange(id, t, t, t), file)
    BY <1>0, <1>6, LinesFit DEF ReopenFork
  <2>3. Writes(LeafChange(id, t, t, t), o)
    BY <2>1, <2>2 DEF LeafChange
  <2>4. QED
    BY <1>1, <2>3
<1>7. CASE Create \/ Stop \/ Reopen \/ UNCHANGED vars
  BY <1>7 DEF Create, Stop, Reopen, disk, vars
<1>8. QED
  BY <1>2, <1>3, <1>4, <1>5, <1>6, <1>7 DEF Next

\* The cursor a reader uses is an entry of the log or nothing.
LEMMA ReaderLeafIssued == IInv => ReaderLeaf \in IssuedIds(file) \union {None}
<1> SUFFICES ASSUME IInv PROVE ReaderLeaf \in IssuedIds(file) \union {None}
  OBVIOUS
<1>1. DiskLeaf(file) \in IssuedIds(file) \union {None}
  BY DiskLeafIssued DEF IInv, TypeOK, LogOK
<1>2. QED
  BY <1>1 DEF IInv, LeafOnDisk, ReaderLeaf

\* Every step of the log, seen from a reader: nothing any more, a move to a
\* conversation on record, or a message nobody has seen after the current one.
LEMMA ReaderSees ==
  ASSUME IInv, IInv', [Next]_vars
  PROVE  \/ ~Readable'
         \/ /\ Readable /\ Readable'
            /\ Known(file') = Known(file) /\ PathToRoot(file', ReaderLeaf') \in Known(file)
         \/ /\ Readable /\ Readable'
            /\ PathToRoot(file', ReaderLeaf') = PathToRoot(file, ReaderLeaf)
            /\ \E m \in Ids :
                 /\ \A p \in Known(file) : \A i \in DOMAIN p : p[i] # m
                 /\ Known(file') = Known(file) \union {Append(PathToRoot(file, ReaderLeaf), m)}
<1>0. /\ file \in Seq(Entry) /\ LogOK(file)
      /\ IssuedIds(file)' = IssuedIds(file')
      /\ ReaderLeaf \in IssuedIds(file) \union {None}
      /\ ReaderLeaf' \in IssuedIds(file') \union {None}
  <2>1. ReaderLeaf \in IssuedIds(file) \union {None}
    BY ReaderLeafIssued
  <2>2. IssuedIds(file)' = IssuedIds(file')
    BY DEF IssuedIds
  <2>3. ReaderLeaf' \in IssuedIds(file') \union {None}
    <3>1. /\ file' \in Seq(Entry) /\ TargetsIn(file')
          /\ leaf' \in IssuedIds(file') \union {None}
      BY <2>2 DEF IInv, TypeOK, LogOK, TargetsIn, LeafOnDisk, IssuedIds
    <3>2. DiskLeaf(file') \in IssuedIds(file') \union {None}
      BY <3>1, DiskLeafIssued
    <3>3. ReaderLeaf' = IF proc' = "up" THEN leaf' ELSE DiskLeaf(file')
      BY DEF ReaderLeaf
    <3>4. QED
      BY <3>1, <3>2, <3>3
  <2>4. QED
    BY <2>1, <2>2, <2>3 DEF IInv, TypeOK
<1>1. PathToRoot(file', ReaderLeaf') \in Known(file')
  BY <1>0 DEF Known
<1>2. CASE UNCHANGED <<file, tail, broken>>
  BY <1>1, <1>2 DEF Readable
<1>3. ASSUME NEW e \in Entry, NEW o \in Outcomes, Fits(e, file), WriteLine(e, o),
             e.kind = "message" =>
               proc = "up" /\ proc' = "up" /\ leaf' = leaf /\ e.parent = leaf,
             Readable'
      PROVE  \/ /\ Readable
                /\ Known(file') = Known(file) /\ PathToRoot(file', ReaderLeaf') \in Known(file)
             \/ /\ Readable
                /\ PathToRoot(file', ReaderLeaf') = PathToRoot(file, ReaderLeaf)
                /\ \E m \in Ids :
                     /\ \A p \in Known(file) : \A i \in DOMAIN p : p[i] # m
                     /\ Known(file') = Known(file) \union {Append(PathToRoot(file, ReaderLeaf), m)}
  <2>1. /\ Readable
        /\ file' = file \/ file' = Append(file, e)
        /\ \A x \in IssuedIds(file) \union {None} : PathToRoot(file', x) = PathToRoot(file, x)
    BY <1>3, WriteEffect
  <2>2. CASE file' = file
    BY <1>1, <2>1, <2>2
  <2>3. CASE file' = Append(file, e) /\ e.kind # "message"
    <3>1. Known(file') = Known(file)
      BY <1>0, <1>3, <2>3, KnownAppended
    <3>2. QED
      BY <1>1, <2>1, <3>1
  <2>4. CASE file' = Append(file, e) /\ e.kind = "message"
    <3>1. ReaderLeaf = leaf /\ ReaderLeaf' = leaf /\ e.parent = leaf
      BY <1>3, <2>4 DEF ReaderLeaf
    <3>2. PathToRoot(file', ReaderLeaf') = PathToRoot(file, ReaderLeaf)
      BY <1>0, <2>1, <3>1
    <3>3. Known(file') = Known(file) \union {Append(PathToRoot(file, ReaderLeaf), e.id)}
      BY <1>0, <1>3, <2>4, <3>1, KnownAppended
    <3>4. \A p \in Known(file) : \A i \in DOMAIN p : p[i] # e.id
      <4> SUFFICES ASSUME NEW p \in Known(file), NEW i \in DOMAIN p PROVE p[i] # e.id
        OBVIOUS
      <4>1. p \in Seq(IssuedIds(file))
        BY <1>0, PathTyped DEF Known
      <4>2. p[i] \in IssuedIds(file)
        BY <4>1
      <4>3. QED
        BY <1>3, <4>2 DEF Fits
    <3>5. e.id \in Ids
      BY DEF Entry
    <3>6. QED
      BY <2>1, <3>2, <3>3, <3>4, <3>5
  <2>5. QED
    BY <2>1, <2>2, <2>3, <2>4
<1>4. QED
  BY <1>2, <1>3, NextWrites

\* A file that cannot be read stays so.
LEMMA LostIsLost == ASSUME IInv, [Next]_vars, ~Readable PROVE ~Readable'
<1>1. CASE UNCHANGED <<file, tail, broken>>
  BY <1>1 DEF Readable
<1>2. ASSUME NEW e \in Entry, NEW o \in Outcomes, Fits(e, file), WriteLine(e, o)
      PROVE  ~Readable'
  BY <1>2, WriteEffect
<1>3. QED
  BY <1>1, <1>2, NextWrites

\* Every step of the log is a step of the transcript or changes nothing of it.
LEMMA StepMaps == IInv /\ IInv' /\ [Next]_vars => [Abstract!Next]_(Abstract!vars)
<1> SUFFICES ASSUME IInv, IInv', [Next]_vars PROVE [Abstract!Next]_(Abstract!vars)
  OBVIOUS
<1>1. CASE ~Readable /\ ~Readable'
  <2>1. Readable' = Readable
    BY <1>1 DEF Readable
  <2>2. UNCHANGED Abstract!vars
    BY <1>1, <2>1, Zenon DEF Abstract!vars
  <2>3. QED
    BY <2>2, Zenon
<1>2. CASE Readable /\ ~Readable'
  BY <1>2 DEF Abstract!Next, Abstract!Lose
<1>3. CASE /\ Readable /\ Readable'
           /\ Known(file') = Known(file) /\ PathToRoot(file', ReaderLeaf') \in Known(file)
  <2>1. Abstract!Move
    BY <1>3 DEF Abstract!Move, Known
  <2>2. QED
    BY <2>1 DEF Abstract!Next
<1>4. CASE /\ Readable /\ Readable'
           /\ PathToRoot(file', ReaderLeaf') = PathToRoot(file, ReaderLeaf)
           /\ \E m \in Ids :
                /\ \A p \in Known(file) : \A i \in DOMAIN p : p[i] # m
                /\ Known(file') = Known(file) \union {Append(PathToRoot(file, ReaderLeaf), m)}
  <2>1. PICK m \in Ids :
          /\ \A p \in Known(file) : \A i \in DOMAIN p : p[i] # m
          /\ Known(file') = Known(file) \union {Append(PathToRoot(file, ReaderLeaf), m)}
    BY <1>4
  <2>2. Abstract!Stage(m)
    BY <1>4, <2>1 DEF Abstract!Stage, Known
  <2>3. QED
    BY <2>2 DEF Abstract!Next
<1>5. QED
  BY <1>1, <1>2, <1>3, <1>4, ReaderSees, LostIsLost

\* The empty file is the empty transcript.
LEMMA InitMaps == Init => Abstract!Init
<1> SUFFICES ASSUME Init PROVE Abstract!Init
  OBVIOUS
<1>1. file = <<>> /\ proc = "absent" /\ Readable
  BY DEF Init, Readable
<1>2. DiskLeaf(<<>>) = None /\ IssuedIds(<<>>) = {}
  <2>1. <<>> \in Seq(Entry) /\ TargetsIn(<<>>) /\ IssuedIds(<<>>) = {}
    BY DEF TargetsIn, IssuedIds
  <2>2. QED
    BY <2>1, DiskLeafIssued
<1>3. PathToRoot(file, ReaderLeaf) = <<>> /\ Known(file) = {<<>>}
  BY <1>1, <1>2, EmptyPath DEF ReaderLeaf, Known
<1>4. QED
  BY <1>1, <1>3 DEF Abstract!Init, Known

\* The session file implements the transcript: no interleaving of emitters,
\* failed write, stop, resume or fork makes a recorded conversation
\* unreachable, reorders one, or adds a message anywhere but at the cursor.
THEOREM FileIsTranscript == Spec => ImplementsTranscript
<1>1. IInv /\ IInv' /\ [Next]_vars => [Abstract!Next]_(Abstract!vars)
  BY StepMaps
<1>2. QED
  BY Invariant, InitMaps, <1>1, PTL DEF Spec, ImplementsTranscript, Abstract!Spec

=============================================================================
