---------------------------- MODULE ModelTurnProofs ----------------------------
(***************************************************************************)
(* What compaction sends to the model and what a streamed reply becomes,   *)
(* for any replies, any cut of their bytes, any thresholds and any         *)
(* conversation.                                                           *)
(***************************************************************************)
EXTENDS ModelTurn, SequenceTheorems, FiniteSetTheorems, WellFoundedInduction, TLAPS

(* Facts about numbers and folds. *)

\* A non-empty set of numbers with an upper bound has a largest element, and
\* that is what Max returns.
LEMMA MaxIsMember ==
  ASSUME NEW n \in Nat, NEW I \in SUBSET (1 .. n), I # {}
  PROVE  Max(I) \in I /\ \A i \in I : i <= Max(I)
<1> DEFINE J == {n - i : i \in I}
<1>1. J \subseteq Nat /\ J # {}
  <2>1. \A i \in I : n - i \in Nat
    OBVIOUS
  <2>2. J \subseteq Nat
    BY <2>1, Zenon
  <2>3. PICK i \in I : TRUE
    OBVIOUS
  <2>4. n - i \in J
    BY <2>3
  <2>5. QED
    BY <2>2, <2>4
<1>2. \E x \in J : \A y \in J : ~ (<<y, x>> \in OpToRel(<, Nat))
  BY <1>1, NatLessThanWellFounded, WFMin
<1>3. PICK x \in J : \A y \in J : ~ (<<y, x>> \in OpToRel(<, Nat))
  BY <1>2
<1>4. \A y \in J : ~ (y < x)
  BY <1>1, <1>3 DEF OpToRel
<1>5. PICK m \in I : x = n - m
  BY <1>3
<1>6. \A i \in I : m >= i
  BY SMTT(30), <1>4, <1>5
<1>7. Max(I) \in I /\ \A i \in I : Max(I) >= i
  BY <1>5, <1>6 DEF Max
<1>8. QED
  BY <1>7

\* The largest element is the only one there is.
LEMMA MaxIs ==
  ASSUME NEW I \in SUBSET Nat, NEW m \in I, \A i \in I : i <= m
  PROVE  Max(I) = m
<1>1. m \in I /\ \A i \in I : m >= i
  OBVIOUS
<1>2. \A x \in I : (\A i \in I : x >= i) => x = m
  BY <1>1
<1>3. QED
  BY <1>1, <1>2 DEF Max

\* A non-empty set of numbers has a smallest one: the proofs by induction below
\* look at the least counterexample.
LEMMA LeastNumber ==
  ASSUME NEW T, T \subseteq Nat, T # {}
  PROVE  \E x \in T : \A y \in T : x <= y
<1> DEFINE R == OpToRel(<, Nat)
<1>1. IsWellFoundedOn(R, Nat)
  BY NatLessThanWellFounded
<1>2. ASSUME NEW x \in Nat, NEW y \in Nat, y < x PROVE <<y, x>> \in R
  BY <1>2 DEF R, OpToRel
<1> HIDE DEF R
<1>3. PICK x \in T : \A y \in T : ~ (<<y, x>> \in R)
  BY <1>1, WFMin
<1>4. ASSUME NEW y \in T PROVE x <= y
  <2>1. x \in Nat /\ y \in Nat
    OBVIOUS
  <2>2. ~(y < x)
    BY <1>2, <1>3, <2>1
  <2>3. QED
    BY <2>1, <2>2
<1>5. QED
  BY <1>4

\* G[k] is what is done with the number k, on the values V.
Steps(G, n, V) == G \in [1 .. n -> [V -> V]]

\* it is a fold over the sets of numbers up to n, from b, the largest
\* number last.
Solves(it, n, V, b, G) ==
  /\ it \in [SUBSET (1 .. n) -> V]
  /\ it[{}] = b
  /\ \A T \in SUBSET (1 .. n) :
       T # {} => Max(T) \in T /\ it[T] = G[Max(T)][it[T \ {Max(T)}]]

\* f is one as far as its values are in V.
Unfolds(f, n, V, b, G) ==
  /\ f[{}] = b
  /\ \A T \in SUBSET (1 .. n) :
       T # {} /\ f[T \ {Max(T)}] \in V => f[T] = G[Max(T)][f[T \ {Max(T)}]]

\* A holds the value after each number up to n; the last one is c.
Runs(A, n, V, b, G, c) ==
  /\ A \in [0 .. n -> V]
  /\ A[0] = b /\ A[n] = c
  /\ \A k \in 1 .. n : A[k] = G[k][A[k - 1]]

\* What the folds of the community modules compute: there is such a function.
LEMMA FoldSolution ==
  ASSUME NEW N \in Nat, NEW V, NEW b \in V, NEW G, Steps(G, N, V)
  PROVE  \E it : Solves(it, N, V, b, G)
<1> DEFINE C == {n \in 0 .. N : ~ \E it : Solves(it, n, V, b, G)}
<1>1. \E it : Solves(it, 0, V, b, G)
  <2>1. 1 .. 0 = {} /\ SUBSET {} = {{}}
    OBVIOUS
  <2>2. Solves([T \in SUBSET (1 .. 0) |-> b], 0, V, b, G)
    BY <2>1 DEF Solves
  <2>3. QED
    BY <2>2
<1>2. ASSUME NEW n \in 0 .. N, n < N, NEW it, Solves(it, n, V, b, G)
      PROVE  \E jt : Solves(jt, n + 1, V, b, G)
  <2> DEFINE jt == [T \in SUBSET (1 .. n + 1) |->
                      IF n + 1 \in T THEN G[n + 1][it[T \ {n + 1}]] ELSE it[T]]
  <2>0. n \in Nat /\ n + 1 \in 1 .. N
    BY <1>2
  <2>1. \A T \in SUBSET (1 .. n + 1) : n + 1 \notin T => T \in SUBSET (1 .. n)
    BY <2>0
  <2>2. \A T \in SUBSET (1 .. n + 1) : T \ {n + 1} \in SUBSET (1 .. n)
    BY <2>0
  <2>3. /\ \A T \in SUBSET (1 .. n) : it[T] \in V
        /\ it[{}] = b
        /\ \A T \in SUBSET (1 .. n) :
             T # {} => Max(T) \in T /\ it[T] = G[Max(T)][it[T \ {Max(T)}]]
    BY <1>2 DEF Solves
  <2>4. jt \in [SUBSET (1 .. n + 1) -> V]
    BY <2>0, <2>1, <2>2, <2>3 DEF Steps
  <2>5. jt[{}] = b
    BY <2>3
  <2>6. ASSUME NEW T \in SUBSET (1 .. n + 1), T # {}
        PROVE  Max(T) \in T /\ jt[T] = G[Max(T)][jt[T \ {Max(T)}]]
    <3>1. CASE n + 1 \in T
      <4>1. Max(T) = n + 1
        <5>1. T \subseteq Nat /\ \A i \in T : i <= n + 1
          BY <2>0
        <5>2. QED
          BY <3>1, <5>1, MaxIs
      <4>2. T \ {n + 1} \in SUBSET (1 .. n + 1)
        OBVIOUS
      <4>3. jt[T] = G[n + 1][it[T \ {n + 1}]] /\ jt[T \ {n + 1}] = it[T \ {n + 1}]
        BY <3>1, <4>2
      <4>4. QED
        BY <3>1, <4>1, <4>3
    <3>2. CASE n + 1 \notin T
      <4>1. T \in SUBSET (1 .. n)
        BY <2>1, <3>2
      <4>2. Max(T) \in T /\ it[T] = G[Max(T)][it[T \ {Max(T)}]]
        BY <2>3, <2>6, <4>1
      <4>3. T \ {Max(T)} \in SUBSET (1 .. n + 1) /\ n + 1 \notin T \ {Max(T)}
        BY <3>2
      <4>4. jt[T] = it[T] /\ jt[T \ {Max(T)}] = it[T \ {Max(T)}]
        BY <3>2, <4>3
      <4>5. QED
        BY <4>2, <4>4
    <3>3. QED
      BY <3>1, <3>2
  <2>7. Solves(jt, n + 1, V, b, G)
    BY <2>4, <2>5, <2>6 DEF Solves
  <2>8. QED
    BY <2>7
<1>3. C = {}
  <2> SUFFICES ASSUME C # {} PROVE FALSE
    OBVIOUS
  <2>1. C \subseteq Nat
    OBVIOUS
  <2>2. PICK n \in C : \A m \in C : n <= m
    <3> HIDE DEF C
    <3>1. QED
      BY <2>1, LeastNumber
  <2>3. n \in 0 .. N /\ ~ \E it : Solves(it, n, V, b, G)
    OBVIOUS
  <2>4. n # 0
    BY <1>1, <2>3
  <2>5. n - 1 \in 0 .. N /\ n - 1 < N /\ (n - 1) + 1 = n /\ ~(n <= n - 1)
    BY <2>3, <2>4
  <2>6. n - 1 \notin C
    BY <2>2, <2>5
  <2>7. PICK it : Solves(it, n - 1, V, b, G)
    BY <2>5, <2>6
  <2>8. \E jt : Solves(jt, (n - 1) + 1, V, b, G)
    BY <1>2, <2>5, <2>7
  <2>9. QED
    BY <2>3, <2>5, <2>8
<1>4. N \in 0 .. N
  OBVIOUS
<1>5. QED
  BY <1>3, <1>4

\* ... and the values it runs through, after each element.
LEMMA FoldRuns ==
  ASSUME NEW N \in Nat, NEW V, NEW b \in V, NEW G, Steps(G, N, V),
         NEW f, Unfolds(f, N, V, b, G)
  PROVE  \E A : Runs(A, N, V, b, G, f[1 .. N])
<1> DEFINE C == {n \in 0 .. N : f[1 .. n] \notin V}
           A == [n \in 0 .. N |-> f[1 .. n]]
<1>1. f[1 .. 0] = b
  <2>1. 1 .. 0 = {}
    OBVIOUS
  <2>2. QED
    BY <2>1 DEF Unfolds
<1>2. ASSUME NEW n \in 1 .. N, f[1 .. n - 1] \in V
      PROVE  f[1 .. n] = G[n][f[1 .. n - 1]]
  <2>1. /\ 1 .. n \in SUBSET (1 .. N) /\ n \in 1 .. n /\ (1 .. n) \ {n} = 1 .. n - 1
        /\ 1 .. n \subseteq Nat /\ \A i \in 1 .. n : i <= n
    OBVIOUS
  <2>2. Max(1 .. n) = n
    BY <2>1, MaxIs
  <2>3. QED
    BY <1>2, <2>1, <2>2 DEF Unfolds
<1>3. C = {}
  <2> SUFFICES ASSUME C # {} PROVE FALSE
    OBVIOUS
  <2>1. C \subseteq Nat
    OBVIOUS
  <2>2. PICK n \in C : \A m \in C : n <= m
    <3> HIDE DEF C
    <3>1. QED
      BY <2>1, LeastNumber
  <2>3. n \in 1 .. N /\ n - 1 \in 0 .. N /\ ~(n <= n - 1)
    BY <1>1
  <2>4. f[1 .. n - 1] \in V
    BY <2>2, <2>3
  <2>5. f[1 .. n] \in V
    BY <1>2, <2>3, <2>4 DEF Steps
  <2>6. QED
    BY <2>5
<1>4. \A n \in 0 .. N : f[1 .. n] \in V
  BY <1>3
<1> HIDE DEF C
<1>5. A \in [0 .. N -> V] /\ A[0] = b /\ A[N] = f[1 .. N]
  BY <1>1, <1>4
<1>6. ASSUME NEW n \in 1 .. N PROVE A[n] = G[n][A[n - 1]]
  <2>1. n - 1 \in 0 .. N /\ n \in 0 .. N
    OBVIOUS
  <2>2. f[1 .. n] = G[n][f[1 .. n - 1]]
    BY <1>2, <1>4, <2>1
  <2>3. QED
    BY <2>1, <2>2
<1>7. QED
  BY <1>5, <1>6 DEF Runs

\* The value after the last number but one is that of the shorter fold.
LEMMA RunsAppend ==
  ASSUME NEW N \in Nat, NEW V, NEW b, NEW G, NEW H, NEW c, NEW d,
         \A k \in 1 .. N : H[k] = G[k],
         NEW A, Runs(A, N, V, b, G, c), NEW B, Runs(B, N + 1, V, b, H, d)
  PROVE  c \in V /\ d = H[N + 1][c]
<1>1. A \in [0 .. N -> V] /\ A[0] = b /\ A[N] = c /\ \A k \in 1 .. N : A[k] = G[k][A[k - 1]]
  BY DEF Runs
<1>2. B[0] = b /\ B[N + 1] = d /\ \A k \in 1 .. N + 1 : B[k] = H[k][B[k - 1]]
  BY DEF Runs
<1> DEFINE D == {n \in 0 .. N : A[n] # B[n]}
<1>3. D = {}
  <2> SUFFICES ASSUME D # {} PROVE FALSE
    OBVIOUS
  <2>1. D \subseteq Nat
    OBVIOUS
  <2>2. PICK n \in D : \A m \in D : n <= m
    <3> HIDE DEF D
    <3>1. QED
      BY <2>1, LeastNumber
  <2>3. n \in 1 .. N /\ n \in 1 .. N + 1 /\ n - 1 \in 0 .. N /\ ~(n <= n - 1)
    BY <1>1, <1>2
  <2>4. A[n - 1] = B[n - 1]
    BY <2>2, <2>3
  <2>5. A[n] = B[n]
    BY <1>1, <1>2, <2>3, <2>4
  <2>6. QED
    BY <2>5
<1>4. N \in 0 .. N /\ N + 1 \in 1 .. N + 1 /\ (N + 1) - 1 = N
  OBVIOUS
<1>5. A[N] = B[N]
  BY <1>3, <1>4
<1> HIDE DEF D
<1>6. QED
  BY <1>1, <1>2, <1>4, <1>5

\* A sequence starts empty and grows one element at a time: what holds of the
\* empty one and is kept by Append holds of all.
LEMMA SeqGrows ==
  ASSUME NEW M, NEW C, <<>> \in C, \A t \in Seq(M), x \in M : t \in C => Append(t, x) \in C
  PROVE  Seq(M) \subseteq C
<1> SUFFICES ASSUME NEW s \in Seq(M) PROVE s \in C
  OBVIOUS
<1> DEFINE B == {n \in 0 .. Len(s) : SubSeq(s, 1, n) \notin C}
<1>1. PICK N \in Nat : N = Len(s)
  OBVIOUS
<1>2. B = {}
  <2> SUFFICES ASSUME B # {} PROVE FALSE
    OBVIOUS
  <2>1. B \subseteq Nat
    BY <1>1
  <2>2. PICK n \in B : \A m \in B : n <= m
    <3> HIDE DEF B
    <3>1. QED
      BY <2>1, LeastNumber
  <2>3. n \in 0 .. N /\ SubSeq(s, 1, n) \notin C
    BY <1>1
  <2>4. n # 0
    <3>1. SubSeq(s, 1, 0) = <<>>
      BY SubSeqEmpty
    <3>2. QED
      BY <2>3, <3>1
  <2>5. n \in 1 .. N /\ n - 1 \in 0 .. N /\ ~(n <= n - 1)
    BY <2>3, <2>4
  <2>6. SubSeq(s, 1, n - 1) \in C
    BY <1>1, <2>2, <2>5
  <2>7. SubSeq(s, 1, n - 1) \in Seq(M) /\ s[n] \in M
    BY <1>1, <2>5
  <2>8. SubSeq(s, 1, n) = Append(SubSeq(s, 1, n - 1), s[n])
    <3>1. /\ SubSeq(s, 1, n) \in Seq(M) /\ Len(SubSeq(s, 1, n)) = n
          /\ \A i \in 1 .. n : SubSeq(s, 1, n)[i] = s[i]
          /\ Len(SubSeq(s, 1, n - 1)) = n - 1
          /\ \A i \in 1 .. n - 1 : SubSeq(s, 1, n - 1)[i] = s[i]
      BY <1>1, <2>5
    <3>2. PICK u \in Seq(M) : u = SubSeq(s, 1, n - 1)
      BY <2>7
    <3>3. PICK v \in Seq(M) : v = SubSeq(s, 1, n)
      BY <3>1
    <3>4. Append(u, s[n]) \in Seq(M) /\ Len(Append(u, s[n])) = n
      BY <2>5, <2>7, <3>1, <3>2
    <3>5. \A i \in 1 .. n : Append(u, s[n])[i] = v[i]
      BY <2>5, <2>7, <3>1, <3>2, <3>3
    <3>6. Append(u, s[n]) = v
      BY <3>1, <3>3, <3>4, <3>5, SeqEqual
    <3>7. QED
      BY <3>2, <3>3, <3>6
  <2>9. QED
    BY <2>3, <2>6, <2>7, <2>8
<1>3. SubSeq(s, 1, N) \in C
  BY <1>1, <1>2
<1>4. QED
  BY <1>1, <1>3, SubSeqFull

\* The first elements but one, and the next.
LEMMA FirstAndNext ==
  ASSUME NEW S, NEW s \in Seq(S), NEW k \in Nat, k < Len(s)
  PROVE  /\ SubSeq(s, 1, k) \in Seq(S) /\ s[k + 1] \in S
         /\ SubSeq(s, 1, k + 1) = Append(SubSeq(s, 1, k), s[k + 1])
<1>1. PICK n \in Nat : n = Len(s)
  OBVIOUS
<1>2. k + 1 \in 1 .. n /\ \A i \in 1 .. k + 1 : i \in 1 .. n
  BY <1>1
<1>3. \A i \in 1 .. k + 1 : s[i] \in S
  BY <1>1, <1>2
<1>4. \A i \in 1 .. k : s[i] \in S
  BY <1>3
<1>5. PICK u \in Seq(S) : u = SubSeq(s, 1, k)
  <2>1. SubSeq(s, 1, k) \in Seq(S)
    BY <1>4, SubSeqProperties
  <2>2. QED
    BY <2>1
<1>6. PICK m \in Nat : m = Len(u) /\ m = k /\ \A i \in 1 .. m : u[i] = s[i]
  <2>1. Len(u) = k /\ \A i \in 1 .. k : u[i] = s[i]
    BY <1>4, <1>5, SubSeqProperties
  <2>2. QED
    BY <2>1
<1>7. PICK v \in Seq(S) : v = SubSeq(s, 1, k + 1)
  <2>1. SubSeq(s, 1, k + 1) \in Seq(S)
    BY <1>3, SubSeqProperties
  <2>2. QED
    BY <2>1
<1>8. Len(v) = k + 1 /\ \A i \in 1 .. k + 1 : v[i] = s[i]
  BY <1>3, <1>7, SubSeqProperties
<1>9. PICK x \in S : x = s[k + 1]
  BY <1>3
<1>10. PICK w \in Seq(S) : w = Append(u, x)
  BY AppendProperties
<1>11. Len(w) = m + 1 /\ w[m + 1] = x /\ \A i \in 1 .. m : w[i] = u[i]
  <2>1. /\ Len(Append(u, x)) = Len(u) + 1 /\ Append(u, x)[Len(u) + 1] = x
        /\ \A i \in 1 .. Len(u) : Append(u, x)[i] = u[i]
    BY AppendProperties
  <2>2. Len(u) = m
    BY <1>6
  <2>3. QED
    BY <1>10, <2>1, <2>2
<1>12. \A i \in 1 .. m + 1 : w[i] = v[i]
  BY <1>6, <1>8, <1>9, <1>11
<1>13. w = v
  BY <1>6, <1>8, <1>11, <1>12, SeqEqual
<1>14. QED
  BY <1>5, <1>7, <1>9, <1>10, <1>13

\* A sequence over a set is one over a larger set.
LEMMA SeqWider ==
  ASSUME NEW M, NEW Z, M \subseteq Z, NEW s \in Seq(M)
  PROVE  s \in Seq(Z)
<1>1. PICK n \in Nat : n = Len(s)
  OBVIOUS
<1>2. s \in [1 .. n -> Z]
  BY <1>1
<1>3. QED
  BY <1>2, SeqDef

-----------------------------------------------------------------------------
(* The messages of some kinds.                                              *)

\* A holds the messages of the kinds K among the first ones of s.
Gathers(A, s, K, M) ==
  /\ A \in [0 .. Len(s) -> Seq(M)]
  /\ A[0] = <<>> /\ A[Len(s)] = OfKinds(s, K)
  /\ \A n \in 1 .. Len(s) :
       A[n] = IF s[n].kind \in K THEN Append(A[n - 1], s[n]) ELSE A[n - 1]

\* They are gathered message by message.
LEMMA OfKindsRuns ==
  ASSUME NEW M, NEW s \in Seq(M), NEW K
  PROVE  \E A : Gathers(A, s, K, M)
<1>1. PICK N \in Nat : N = Len(s)
  OBVIOUS
<1>2. DOMAIN s = 1 .. N /\ \A n \in 1 .. N : s[n] \in M
  BY <1>1
<1> DEFINE P(f) == f = [T \in SUBSET (DOMAIN s) |->
                          IF T = {} THEN <<>>
                          ELSE IF s[Max(T)].kind \in K
                               THEN Append(f[T \ {Max(T)}], s[Max(T)])
                               ELSE f[T \ {Max(T)}]]
           F == CHOOSE f : P(f)
           G == [n \in 1 .. N |-> [a \in Seq(M) |->
                   IF s[n].kind \in K THEN Append(a, s[n]) ELSE a]]
<1>3. PICK V, b : V = Seq(M) /\ b = <<>>
  OBVIOUS
<1>4. b \in V /\ Steps(G, N, V)
  BY <1>2, <1>3 DEF Steps
<1>5. PICK it : Solves(it, N, V, b, G)
  <2> HIDE DEF G
  <2>1. QED
    BY <1>4, FoldSolution
<1>6. P(it)
  <2>1. /\ it \in [SUBSET (1 .. N) -> Seq(M)] /\ it[{}] = <<>>
        /\ \A T \in SUBSET (1 .. N) :
             T # {} => Max(T) \in T /\ it[T] = G[Max(T)][it[T \ {Max(T)}]]
    BY <1>3, <1>5 DEF Solves
  <2>2. ASSUME NEW T \in SUBSET (1 .. N), T # {}
        PROVE  it[T] = IF s[Max(T)].kind \in K
                       THEN Append(it[T \ {Max(T)}], s[Max(T)]) ELSE it[T \ {Max(T)}]
    <3>1. Max(T) \in 1 .. N /\ it[T \ {Max(T)}] \in Seq(M)
      BY <2>1, <2>2
    <3>2. QED
      BY <2>1, <2>2, <3>1
  <2>3. QED
    BY <1>2, <2>1, <2>2
<1>7. P(F)
  <2> HIDE DEF P
  <2>1. QED
    BY <1>6
<1>8. OfKinds(s, K) = F[1 .. N]
  BY <1>2 DEF OfKinds, FoldLeft, MapThenFoldSet
<1>9. Unfolds(F, N, V, b, G)
  <2>1. \A T \in SUBSET (1 .. N) : T # {} => Max(T) \in 1 .. N
    BY <1>5 DEF Solves
  <2> HIDE DEF F
  <2>2. F[{}] = b
    BY <1>2, <1>3, <1>7
  <2>3. ASSUME NEW T \in SUBSET (1 .. N), T # {}, F[T \ {Max(T)}] \in V
        PROVE  F[T] = G[Max(T)][F[T \ {Max(T)}]]
    BY <1>2, <1>3, <1>7, <2>1, <2>3
  <2>4. QED
    BY <2>2, <2>3 DEF Unfolds
<1>10. PICK A : Runs(A, N, V, b, G, F[1 .. N])
  <2> HIDE DEF F, G
  <2>1. QED
    BY <1>4, <1>9, FoldRuns
<1> HIDE DEF F
<1>11. /\ A \in [0 .. N -> Seq(M)] /\ A[0] = <<>> /\ A[N] = OfKinds(s, K)
       /\ \A n \in 1 .. N : A[n] = G[n][A[n - 1]]
  BY <1>3, <1>8, <1>10 DEF Runs
<1>12. ASSUME NEW n \in 1 .. N
       PROVE  A[n] = IF s[n].kind \in K THEN Append(A[n - 1], s[n]) ELSE A[n - 1]
  <2>1. n - 1 \in 0 .. N
    OBVIOUS
  <2>2. A[n - 1] \in Seq(M)
    BY <1>11, <2>1
  <2>3. QED
    BY <1>11, <2>2
<1>13. QED
  BY <1>1, <1>11, <1>12 DEF Gathers

\* Nothing is gathered from nothing, and messages of M from messages of M.
LEMMA OfKindsTyped ==
  ASSUME NEW M, NEW s \in Seq(M), NEW K
  PROVE  OfKinds(s, K) \in Seq(M)
<1>1. Len(s) \in Nat /\ Len(s) \in 0 .. Len(s)
  OBVIOUS
<1>2. PICK A : Gathers(A, s, K, M)
  BY OfKindsRuns
<1>3. QED
  BY <1>1, <1>2 DEF Gathers

LEMMA OfKindsNothing == \A K : OfKinds(<<>>, K) = <<>>
<1> SUFFICES ASSUME NEW K PROVE OfKinds(<<>>, K) = <<>>
  OBVIOUS
<1>1. <<>> \in Seq({}) /\ Len(<<>>) = 0
  OBVIOUS
<1>2. PICK A : Gathers(A, <<>>, K, {})
  BY <1>1, OfKindsRuns
<1>3. QED
  BY <1>1, <1>2 DEF Gathers

\* The next message is added if it is of one of the kinds.
LEMMA OfKindsAppend ==
  ASSUME NEW M, NEW s \in Seq(M), NEW x \in M, NEW K
  PROVE  OfKinds(Append(s, x), K) =
           IF x.kind \in K THEN Append(OfKinds(s, K), x) ELSE OfKinds(s, K)
<1>1. PICK N \in Nat : N = Len(s)
  OBVIOUS
<1>2. PICK t \in Seq(M) : t = Append(s, x)
  BY AppendProperties
<1>3. Len(t) = N + 1 /\ t[N + 1] = x /\ \A i \in 1 .. N : t[i] = s[i]
  BY <1>1, <1>2
<1>4. PICK A : Gathers(A, s, K, M)
  BY OfKindsRuns
<1>5. PICK B : Gathers(B, t, K, M)
  BY OfKindsRuns
<1>6. /\ A[0] = <<>> /\ A[N] = OfKinds(s, K)
      /\ \A n \in 1 .. N :
           A[n] = IF s[n].kind \in K THEN Append(A[n - 1], s[n]) ELSE A[n - 1]
  BY <1>1, <1>4 DEF Gathers
<1>7. /\ B[0] = <<>> /\ B[N + 1] = OfKinds(t, K)
      /\ \A n \in 1 .. N + 1 :
           B[n] = IF t[n].kind \in K THEN Append(B[n - 1], t[n]) ELSE B[n - 1]
  BY <1>3, <1>5 DEF Gathers
<1> DEFINE D == {n \in 0 .. N : A[n] # B[n]}
<1>8. D = {}
  <2> SUFFICES ASSUME D # {} PROVE FALSE
    OBVIOUS
  <2>1. D \subseteq Nat
    OBVIOUS
  <2>2. PICK n \in D : \A m \in D : n <= m
    <3> HIDE DEF D
    <3>1. QED
      BY <2>1, LeastNumber
  <2>3. n \in 1 .. N /\ n \in 1 .. N + 1 /\ n - 1 \in 0 .. N /\ ~(n <= n - 1)
    BY <1>6, <1>7
  <2>4. A[n - 1] = B[n - 1]
    BY <2>2, <2>3
  <2>5. A[n] = B[n]
    BY <1>3, <1>6, <1>7, <2>3, <2>4
  <2>6. QED
    BY <2>5
<1>9. A[N] = B[N]
  <2>1. N \in 0 .. N
    OBVIOUS
  <2>2. QED
    BY <1>8, <2>1
<1> HIDE DEF D
<1>10. B[N + 1] = IF x.kind \in K THEN Append(B[N], x) ELSE B[N]
  <2>1. N + 1 \in 1 .. N + 1 /\ (N + 1) - 1 = N
    OBVIOUS
  <2>2. QED
    BY <1>3, <1>7, <2>1
<1>11. QED
  BY <1>2, <1>6, <1>7, <1>9, <1>10

\* One sequence after another, for the provers a symbol of its own.
Cat(s, t) == s \o t

LEMMA CatTyped ==
  ASSUME NEW M, NEW s \in Seq(M), NEW t \in Seq(M)
  PROVE  Cat(s, t) \in Seq(M)
  BY DEF Cat

LEMMA CatEmpty ==
  ASSUME NEW M, NEW s \in Seq(M)
  PROVE  Cat(s, <<>>) = s
  BY ConcatEmptySeq DEF Cat

LEMMA CatAppend ==
  ASSUME NEW M, NEW s \in Seq(M), NEW t \in Seq(M), NEW x \in M
  PROVE  Cat(s, Append(t, x)) = Append(Cat(s, t), x)
  BY DEF Cat

LEMMA NothingBefore ==
  ASSUME NEW M, NEW s \in Seq(M)
  PROVE  Cat(<<>>, s) = s
  BY ConcatEmptySeq DEF Cat

LEMMA CatAssoc ==
  ASSUME NEW M, NEW s \in Seq(M), NEW t \in Seq(M), NEW u \in Seq(M)
  PROVE  Cat(Cat(s, t), u) = Cat(s, Cat(t, u))
  BY ConcatAssociative DEF Cat

\* What is gathered from two parts one after the other.
LEMMA OfKindsConcat ==
  ASSUME NEW M, NEW s \in Seq(M), NEW t \in Seq(M), NEW K
  PROVE  OfKinds(Cat(s, t), K) = Cat(OfKinds(s, K), OfKinds(t, K))
<1> DEFINE C == {u \in Seq(M) : OfKinds(Cat(s, u), K) = Cat(OfKinds(s, K), OfKinds(u, K))}
<1>1. <<>> \in C
  <2>1. OfKinds(s, K) \in Seq(M) /\ <<>> \in Seq(M)
    BY OfKindsTyped
  <2>2. Cat(s, <<>>) = s /\ Cat(OfKinds(s, K), <<>>) = OfKinds(s, K)
    BY <2>1, CatEmpty
  <2>3. QED
    BY <2>1, <2>2, OfKindsNothing
<1>2. ASSUME NEW u \in Seq(M), NEW x \in M, u \in C
      PROVE  Append(u, x) \in C
  <2>1. PICK a \in Seq(M) : a = OfKinds(s, K)
    BY OfKindsTyped
  <2>2. PICK b \in Seq(M) : b = OfKinds(u, K)
    BY OfKindsTyped
  <2>3. PICK v \in Seq(M) : v = Cat(s, u)
    BY CatTyped
  <2>4. OfKinds(v, K) = Cat(a, b)
    BY <1>2, <2>1, <2>2, <2>3
  <2>5. OfKinds(Cat(s, Append(u, x)), K) =
          IF x.kind \in K THEN Append(Cat(a, b), x) ELSE Cat(a, b)
    <3>1. Cat(s, Append(u, x)) = Append(Cat(s, u), x)
      BY CatAppend
    <3>2. OfKinds(Append(v, x), K) =
            IF x.kind \in K THEN Append(OfKinds(v, K), x) ELSE OfKinds(v, K)
      BY OfKindsAppend
    <3>3. QED
      BY <2>3, <2>4, <3>1, <3>2
  <2>6. OfKinds(Append(u, x), K) = IF x.kind \in K THEN Append(b, x) ELSE b
    BY <2>2, OfKindsAppend
  <2>7. Cat(a, Append(b, x)) = Append(Cat(a, b), x)
    BY CatAppend
  <2>8. OfKinds(Cat(s, Append(u, x)), K) = Cat(OfKinds(s, K), OfKinds(Append(u, x), K))
    BY <2>1, <2>5, <2>6, <2>7
  <2>9. QED
    BY <2>8, AppendProperties
<1>3. t \in C
  <2> HIDE DEF C
  <2>1. QED
    BY <1>1, <1>2, SeqGrows
<1>4. QED
  BY <1>3

\* A middle part without any of the kinds is passed over.
LEMMA OfKindsPast ==
  ASSUME NEW M, NEW a \in Seq(M), NEW x \in Seq(M), NEW b \in Seq(M), NEW K,
         OfKinds(x, K) = <<>>
  PROVE  OfKinds(Cat(Cat(a, x), b), K) = Cat(OfKinds(a, K), OfKinds(b, K))
<1>1. OfKinds(a, K) \in Seq(M) /\ Cat(a, x) \in Seq(M)
  BY OfKindsTyped, CatTyped
<1>2. OfKinds(Cat(a, x), K) = OfKinds(a, K)
  BY <1>1, OfKindsConcat, CatEmpty
<1>3. QED
  BY <1>1, <1>2, OfKindsConcat

\* Gathering twice gathers the kinds both ask for.
LEMMA OfKindsTwice ==
  ASSUME NEW M, NEW s \in Seq(M), NEW K, NEW L
  PROVE  OfKinds(OfKinds(s, K), L) = OfKinds(s, K \intersect L)
<1> DEFINE C == {u \in Seq(M) : OfKinds(OfKinds(u, K), L) = OfKinds(u, K \intersect L)}
<1>1. <<>> \in C
  BY OfKindsNothing
<1>2. ASSUME NEW u \in Seq(M), NEW x \in M, u \in C
      PROVE  Append(u, x) \in C
  <2>1. PICK b \in Seq(M) : b = OfKinds(u, K)
    BY OfKindsTyped
  <2>2. OfKinds(b, L) = OfKinds(u, K \intersect L)
    BY <1>2, <2>1
  <2>3. OfKinds(Append(u, x), K) = IF x.kind \in K THEN Append(b, x) ELSE b
    BY <2>1, OfKindsAppend
  <2>4. OfKinds(Append(b, x), L) = IF x.kind \in L THEN Append(OfKinds(b, L), x) ELSE OfKinds(b, L)
    BY OfKindsAppend
  <2>5. OfKinds(Append(u, x), K \intersect L) =
          IF x.kind \in K \intersect L THEN Append(OfKinds(u, K \intersect L), x)
          ELSE OfKinds(u, K \intersect L)
    BY OfKindsAppend
  <2>6. OfKinds(OfKinds(Append(u, x), K), L) = OfKinds(Append(u, x), K \intersect L)
    <3>1. CASE x.kind \in K /\ x.kind \in L
      BY <2>2, <2>3, <2>4, <2>5, <3>1
    <3>2. CASE x.kind \in K /\ x.kind \notin L
      BY <2>2, <2>3, <2>4, <2>5, <3>2
    <3>3. CASE x.kind \notin K
      BY <2>1, <2>2, <2>3, <2>5, <3>3
    <3>4. QED
      BY <3>1, <3>2, <3>3
  <2>7. Append(u, x) \in Seq(M)
    BY AppendProperties
  <2>8. QED
    BY <2>6, <2>7
<1>3. s \in C
  <2> HIDE DEF C
  <2>1. QED
    BY <1>1, <1>2, SeqGrows
<1>4. QED
  BY <1>3

\* Of messages that are none of the kinds nothing is gathered, and of messages
\* that all are, everything.
LEMMA OfKindsNoneAll ==
  ASSUME NEW M, NEW s \in Seq(M), NEW K
  PROVE  /\ (\A i \in 1 .. Len(s) : s[i].kind \notin K) => OfKinds(s, K) = <<>>
         /\ (\A i \in 1 .. Len(s) : s[i].kind \in K) => OfKinds(s, K) = s
<1> DEFINE C == {u \in Seq(M) :
                   /\ (\A i \in 1 .. Len(u) : u[i].kind \notin K) => OfKinds(u, K) = <<>>
                   /\ (\A i \in 1 .. Len(u) : u[i].kind \in K) => OfKinds(u, K) = u}
<1>1. <<>> \in C
  BY OfKindsNothing, EmptySeq
<1>2. ASSUME NEW u \in Seq(M), NEW x \in M, u \in C
      PROVE  Append(u, x) \in C
  <2>1. PICK t \in Seq(M) : t = Append(u, x)
    BY AppendProperties
  <2>2. PICK n \in Nat : n = Len(u)
    OBVIOUS
  <2>3. /\ Len(t) = n + 1 /\ t[n + 1] = x /\ \A i \in 1 .. n : t[i] = u[i]
        /\ n + 1 \in 1 .. n + 1 /\ \A i \in 1 .. n : i \in 1 .. n + 1
    BY <2>1, <2>2
  <2>4. OfKinds(t, K) = IF x.kind \in K THEN Append(OfKinds(u, K), x) ELSE OfKinds(u, K)
    BY <2>1, OfKindsAppend
  <2>5. ASSUME \A i \in 1 .. Len(t) : t[i].kind \notin K
        PROVE  OfKinds(t, K) = <<>>
    <3>1. x.kind \notin K /\ \A i \in 1 .. Len(u) : u[i].kind \notin K
      BY <2>2, <2>3, <2>5
    <3>2. QED
      BY <1>2, <2>4, <3>1
  <2>6. ASSUME \A i \in 1 .. Len(t) : t[i].kind \in K
        PROVE  OfKinds(t, K) = t
    <3>1. x.kind \in K /\ \A i \in 1 .. Len(u) : u[i].kind \in K
      BY <2>2, <2>3, <2>6
    <3>2. QED
      BY <1>2, <2>1, <2>4, <3>1
  <2>7. QED
    BY <2>1, <2>5, <2>6
<1>3. s \in C
  <2> HIDE DEF C
  <2>1. QED
    BY <1>1, <1>2, SeqGrows
<1>4. QED
  BY <1>3

-----------------------------------------------------------------------------
(* What the transform keeps.                                                *)

Msg == [kind : Kinds, id : Nat, calls : Seq(Nat), of : Nat, covers : Nat, kept : Nat]

LastMarker(s) == SelectLastInSeq(s, IsMarker)

\* The newest marker: behind it there is none.
LEMMA LastMarkerIs ==
  ASSUME NEW s \in Seq(Msg)
  PROVE  \/ LastMarker(s) = 0 /\ \A i \in 1 .. Len(s) : s[i].kind # "marker"
         \/ /\ LastMarker(s) \in 1 .. Len(s) /\ s[LastMarker(s)].kind = "marker"
            /\ \A i \in LastMarker(s) + 1 .. Len(s) : s[i].kind # "marker"
<1> DEFINE I == {i \in 1 .. Len(s) : s[i].kind = "marker"}
<1>1. PICK N \in Nat : N = Len(s)
  OBVIOUS
<1>2. LastMarker(s) = IF I # {} THEN Max(I) ELSE 0
  BY DEF LastMarker, SelectLastInSeq, IsMarker
<1>3. CASE I = {}
  BY <1>2, <1>3
<1>4. CASE I # {}
  <2>1. PICK k \in I : \A i \in I : i <= k
    <3>1. I \in SUBSET (1 .. N)
      BY <1>1
    <3> HIDE DEF I
    <3>2. QED
      BY <1>4, <3>1, MaxIsMember
  <2>2. Max(I) = k
    <3>1. I \in SUBSET Nat
      OBVIOUS
    <3> HIDE DEF I
    <3>2. QED
      BY <2>1, <3>1, MaxIs
  <2>3. k \in 1 .. N /\ s[k].kind = "marker"
    BY <1>1, <2>1
  <2>4. \A i \in k + 1 .. N : i \in 1 .. N /\ ~(i <= k)
    BY <2>3
  <2>5. \A i \in k + 1 .. N : s[i].kind # "marker"
    BY <1>1, <2>1, <2>4
  <2>6. QED
    BY <1>1, <1>2, <1>4, <2>2, <2>3, <2>5
<1>5. QED
  BY <1>3, <1>4

\* A conversation is what comes before a message, the message, and what comes
\* after it.
LEMMA Parts ==
  ASSUME NEW s \in Seq(Msg), NEW k \in 1 .. Len(s)
  PROVE  /\ SubSeq(s, 1, k - 1) \in Seq(Msg) /\ SubSeq(s, k + 1, Len(s)) \in Seq(Msg)
         /\ Len(SubSeq(s, 1, k - 1)) = k - 1 /\ Len(SubSeq(s, k + 1, Len(s))) = Len(s) - k
         /\ \A i \in 1 .. k - 1 : SubSeq(s, 1, k - 1)[i] = s[i]
         /\ \A i \in 1 .. Len(s) - k : SubSeq(s, k + 1, Len(s))[i] = s[k + i]
         /\ s[k] \in Msg
         /\ s = (SubSeq(s, 1, k - 1) \o <<s[k]>>) \o SubSeq(s, k + 1, Len(s))
<1>1. PICK N \in Nat : N = Len(s)
  OBVIOUS
<1>2. k \in 1 .. N /\ s[k] \in Msg /\ \A i \in 1 .. N : s[i] \in Msg
  BY <1>1
<1>p. /\ k \in Int /\ N \in Int /\ k - 1 \in Int /\ k + 1 \in Int
      /\ (1 <= k - 1 => (k - 1) - 1 + 1 = k - 1) /\ (~(1 <= k - 1) => k - 1 = 0)
      /\ (k + 1 <= N => N - (k + 1) + 1 = N - k) /\ (~(k + 1 <= N) => N - k = 0)
      /\ (k - 1) - 1 + 1 = k - 1 /\ N - (k + 1) + 1 = N - k
  BY <1>2
<1>q. /\ \A i \in 1 .. k - 1 : s[i] \in Msg
      /\ \A i \in k + 1 .. N : s[i] \in Msg
  BY <1>2
<1>3. PICK a \in Seq(Msg) : a = SubSeq(s, 1, k - 1)
  <2>1. PICK e \in Int : e = k - 1
    BY <1>p
  <2>2. \A i \in 1 .. e : s[i] \in Msg
    BY <1>q, <2>1
  <2>3. SubSeq(s, 1, e) \in Seq(Msg)
    BY <2>2, SubSeqProperties
  <2>4. QED
    BY <2>1, <2>3
<1>4. PICK b \in Seq(Msg) : b = SubSeq(s, k + 1, N)
  BY <1>p, <1>q, SubSeqProperties
<1>5. Len(a) = k - 1 /\ \A i \in 1 .. k - 1 : a[i] = s[i]
  <2>1. /\ Len(a) = k - 1
        /\ \A i \in 1 .. k - 1 : a[i] = s[1 + i - 1]
    BY <1>p, <1>q, <1>3, SubSeqProperties
  <2>2. \A i \in 1 .. k - 1 : 1 + i - 1 = i
    BY <1>p
  <2>3. QED
    BY <2>1, <2>2
<1>6. Len(b) = N - k /\ \A i \in 1 .. N - k : b[i] = s[k + i]
  <2>1. /\ Len(b) = N - k
        /\ \A i \in 1 .. N - k : b[i] = s[(k + 1) + i - 1]
    BY <1>p, <1>q, <1>4, SubSeqProperties
  <2>2. \A i \in 1 .. N - k : (k + 1) + i - 1 = k + i
    BY <1>p
  <2>3. QED
    BY <2>1, <2>2
<1>7. PICK m \in Msg : m = s[k]
  BY <1>2
<1>8. PICK c \in Seq(Msg) : c = a \o <<m>> /\ c = Append(a, m)
  BY AppendIsConcat, AppendProperties
<1>9. Len(c) = k /\ c[k] = m /\ \A i \in 1 .. k - 1 : c[i] = a[i]
  <2>1. /\ Len(c) = Len(a) + 1 /\ c[Len(a) + 1] = m
        /\ \A i \in 1 .. Len(a) : c[i] = a[i]
    BY <1>8, AppendProperties
  <2>2. (k - 1) + 1 = k
    BY <1>p
  <2>3. QED
    BY <1>5, <2>1, <2>2
<1>10. PICK d \in Seq(Msg) : d = c \o b
  BY ConcatProperties
<1>11. Len(d) = N /\ \A i \in 1 .. N : d[i] = IF i <= k THEN c[i] ELSE b[i - k]
  <2>1. /\ Len(d) = Len(c) + Len(b)
        /\ \A i \in 1 .. Len(c) + Len(b) :
             d[i] = IF i <= Len(c) THEN c[i] ELSE b[i - Len(c)]
    BY <1>10, ConcatProperties
  <2>2. k + (N - k) = N
    BY <1>p
  <2>3. QED
    BY <1>6, <1>9, <2>1, <2>2
<1>12. \A i \in 1 .. N : d[i] = s[i]
  <2> SUFFICES ASSUME NEW i \in 1 .. N PROVE d[i] = s[i]
    OBVIOUS
  <2>1. CASE i < k
    BY <1>5, <1>9, <1>11, <1>2, <2>1
  <2>2. CASE i = k
    BY <1>7, <1>9, <1>11, <1>2, <2>2
  <2>3. CASE i > k
    <3>1. i - k \in 1 .. N - k /\ k + (i - k) = i /\ ~(i <= k)
      BY <1>2, <2>3
    <3>2. QED
      BY <1>6, <1>11, <1>2, <2>3, <3>1
  <2>4. QED
    BY <1>2, <2>1, <2>2, <2>3
<1>13. d = s
  BY <1>1, <1>11, <1>12, SeqEqual
<1>14. QED
  BY <1>1, <1>2, <1>3, <1>4, <1>5, <1>6, <1>7, <1>8, <1>10, <1>13

\* Of a single message all is gathered or nothing.
LEMMA OfKindsOne ==
  ASSUME NEW M, NEW x \in M, NEW K
  PROVE  /\ <<x>> \in Seq(M)
         /\ OfKinds(<<x>>, K) = IF x.kind \in K THEN <<x>> ELSE <<>>
<1>1. <<>> \in Seq(M) /\ Append(<<>>, x) = <<x>>
  OBVIOUS
<1>2. OfKinds(Append(<<>>, x), K) =
        IF x.kind \in K THEN Append(OfKinds(<<>>, K), x) ELSE OfKinds(<<>>, K)
  BY ZenonT(30), <1>1, OfKindsAppend
<1>3. <<x>> \in Seq(M)
  OBVIOUS
<1>4. QED
  BY <1>1, <1>2, <1>3, OfKindsNothing

LEMMA SummaryTyped ==
  ASSUME NEW m \in Msg
  PROVE  Summary(m) \in Msg /\ Summary(m).kind = "summary"
  BY DEF Msg, Summary, Kinds

\* The users of a and b are all there are with x between them.
UsersAround(a, x, b) == Users(Cat(Cat(a, x), b)) = Cat(Users(a), Users(b))

LEMMA UsersParts ==
  ASSUME NEW a \in Seq(Msg), NEW x \in Seq(Msg), NEW b \in Seq(Msg), Users(x) = <<>>
  PROVE  UsersAround(a, x, b)
  BY OfKindsPast DEF Users, UsersAround

\* Whatever the conversation, the model is sent all of its user messages.
LEMMA UsersReachModel ==
  ASSUME NEW s \in Seq(Msg)
  PROVE  Users(TransformOutgoing(s)) = Users(s)
<1> DEFINE k == LastMarker(s)
           a == SubSeq(s, 1, k - 1)
           b == SubSeq(s, k + 1, Len(s))
<1>1. TransformOutgoing(s) =
        IF k = 0 THEN Visible(s) ELSE Cat(Cat(Users(a), <<Summary(s[k])>>), Visible(b))
  BY DEF TransformOutgoing, LastMarker, Cat
<1>2. PICK U : U = {"user"}
  OBVIOUS
<1>3. VisibleKinds \intersect U = U /\ U \intersect U = U
  BY <1>2 DEF VisibleKinds, Kinds
<1>4. \A t : Users(t) = OfKinds(t, U) /\ Visible(t) = OfKinds(t, VisibleKinds)
  BY <1>2 DEF Users, Visible
<1>5. \A t \in Seq(Msg) : Users(Visible(t)) = Users(t) /\ Users(Users(t)) = Users(t)
  BY <1>3, <1>4, OfKindsTwice
<1>6. CASE k = 0
  BY <1>1, <1>5, <1>6
<1>7. CASE k # 0
  <2>1. k \in 1 .. Len(s) /\ s[k].kind = "marker"
    BY <1>7, LastMarkerIs
  <2>2. /\ a \in Seq(Msg) /\ b \in Seq(Msg) /\ s[k] \in Msg
        /\ s = Cat(Cat(a, <<s[k]>>), b)
    BY <2>1, Parts DEF Cat
  <2>3. PICK m \in Msg : m = s[k]
    BY <2>2
  <2>4. PICK n \in Msg : n = Summary(m) /\ n.kind = "summary"
    BY SummaryTyped
  <2> HIDE DEF a, b, k
  <2>5. PICK ua \in Seq(Msg) : ua = Users(a)
    BY <1>4, <2>2, OfKindsTyped
  <2>6. PICK ub \in Seq(Msg) : ub = Users(b)
    BY <1>4, <2>2, OfKindsTyped
  <2>7. PICK vb \in Seq(Msg) : vb = Visible(b)
    BY <1>4, <2>2, OfKindsTyped
  <2>8. PICK mm \in Seq(Msg) : mm = <<m>> /\ Users(mm) = <<>>
    BY <1>2, <1>4, <2>1, <2>3, OfKindsOne
  <2>9. PICK nn \in Seq(Msg) : nn = <<n>> /\ Users(nn) = <<>>
    BY <1>2, <1>4, <2>4, OfKindsOne
  <2>10. Users(ua) = ua /\ Users(vb) = ub
    BY <1>5, <2>2, <2>5, <2>6, <2>7
  <2>11. UsersAround(a, mm, b) /\ UsersAround(ua, nn, vb)
    BY <2>2, <2>8, <2>9, UsersParts
  <2>12. /\ Users(Cat(Cat(a, mm), b)) = Cat(Users(a), Users(b))
         /\ Users(Cat(Cat(ua, nn), vb)) = Cat(Users(ua), Users(vb))
    BY <2>11 DEF UsersAround
  <2>13. TransformOutgoing(s) = Cat(Cat(ua, nn), vb)
    BY <1>1, <1>7, <2>3, <2>4, <2>5, <2>7, <2>9
  <2>14. s = Cat(Cat(a, mm), b)
    BY <2>2, <2>3, <2>8
  <2>15. QED
    BY <2>5, <2>6, <2>10, <2>12, <2>13, <2>14
<1>8. QED
  BY <1>6, <1>7

-----------------------------------------------------------------------------
(* What a streamed reply is made of.                                        *)

Slot == [id : Nat, args : Seq(Nat)]

Aggregator == [started : BOOLEAN, slots : Seq(Slot), pending : StopReasons \union {NoFinish}]

ChunkNames == {"start", "text", "thinking", "call", "end"}

\* Only an end carries a stop reason, and it always does.
Chunks == {x \in [c : ChunkNames, call : Slot, stop : StopReasons \union {NoFinish}] :
             x.c = "end" => x.stop \in StopReasons}

Turn == [calls : Seq(Slot), stop : StopReasons, emitted : Seq(ChunkNames)]

StreamStates == [agg : Aggregator, turn : Turn, state : {"open", "done", "failed"}]

\* A delta leaves a slot for every index up to its own.
LEMMA AbsorbTyped ==
  ASSUME NEW slots \in Seq(Slot), NEW td \in ToolDeltas
  PROVE  AbsorbDelta(slots, td) \in Seq(Slot)
<1> DEFINE n == IF td.index > Len(slots) THEN td.index ELSE Len(slots)
           grown == [i \in 1 .. n |-> IF i <= Len(slots) THEN slots[i] ELSE EmptySlot]
           old == grown[td.index]
           new == [id   |-> IF td.id = 0 THEN old.id ELSE td.id,
                   args |-> IF td.arg = 0 THEN old.args ELSE Append(old.args, td.arg)]
<1>1. td.index \in Nat \ {0} /\ td.id \in Nat /\ td.arg \in Nat
  BY DEF ToolDeltas
<1>2. n \in Nat /\ td.index \in 1 .. n
  BY <1>1
<1>3. EmptySlot \in Slot
  BY DEF EmptySlot, Slot
<1>4. \A i \in 1 .. n : (IF i <= Len(slots) THEN slots[i] ELSE EmptySlot) \in Slot
  BY <1>2, <1>3
<1>5. grown \in [1 .. n -> Slot]
  BY <1>4
<1>6. old \in Slot
  BY <1>2, <1>5
<1> HIDE DEF old
<1>7. old.id \in Nat /\ old.args \in Seq(Nat)
  BY <1>6 DEF Slot
<1>8. new \in Slot
  BY <1>1, <1>7 DEF Slot
<1> HIDE DEF new
<1>9. [grown EXCEPT ![td.index] = new] \in [1 .. n -> Slot]
  BY <1>5, <1>8
<1>10. AbsorbDelta(slots, td) = [grown EXCEPT ![td.index] = new]
  BY DEF AbsorbDelta, new, old
<1>11. PICK g \in [1 .. n -> Slot] : g = AbsorbDelta(slots, td)
  BY <1>9, <1>10
<1>12. PICK k \in Nat : k = n
  BY <1>2
<1>13. g \in [1 .. k -> Slot]
  BY <1>11, <1>12
<1> HIDE DEF n, grown
<1>14. g \in Seq(Slot)
  BY <1>13, SeqDef
<1>15. QED
  BY <1>11, <1>14

\* What becomes of the slots, delta by delta.
Absorbs(tools) ==
  [n \in 1 .. Len(tools) |-> [a \in Seq(Slot) |-> AbsorbDelta(a, tools[n])]]

\* The deltas are absorbed one after another (StreamAggregator::ingest).
LEMMA AbsorbRuns ==
  ASSUME NEW slots \in Seq(Slot), NEW tools \in Seq(ToolDeltas)
  PROVE  \E A : Runs(A, Len(tools), Seq(Slot), slots, Absorbs(tools), AbsorbDeltas(slots, tools))
<1>1. PICK N \in Nat : N = Len(tools)
  OBVIOUS
<1>2. DOMAIN tools = 1 .. N /\ \A n \in 1 .. N : tools[n] \in ToolDeltas
  BY <1>1
<1>3. PICK V, b : V = Seq(Slot) /\ b = slots
  OBVIOUS
<1> DEFINE P(f) == f = [T \in SUBSET (DOMAIN tools) |->
                          IF T = {} THEN b ELSE AbsorbDelta(f[T \ {Max(T)}], tools[Max(T)])]
           F == CHOOSE f : P(f)
           G == [n \in 1 .. N |-> [a \in V |-> AbsorbDelta(a, tools[n])]]
<1>4. b \in V /\ \A a \in V, n \in 1 .. N : AbsorbDelta(a, tools[n]) \in V
  BY <1>2, <1>3, AbsorbTyped
<1>5. Steps(G, N, V)
  BY <1>4 DEF Steps
<1>6. PICK it : Solves(it, N, V, b, G)
  <2> HIDE DEF G
  <2>1. QED
    BY <1>4, <1>5, FoldSolution
<1>7. P(it)
  BY <1>2, <1>6 DEF Solves
<1>8. P(F)
  <2> HIDE DEF P
  <2>1. QED
    BY <1>7
<1>9. AbsorbDeltas(slots, tools) = F[1 .. N]
  BY <1>2, <1>3 DEF AbsorbDeltas, FoldLeft, MapThenFoldSet
<1>10. Unfolds(F, N, V, b, G)
  <2>1. \A T \in SUBSET (1 .. N) : T # {} => Max(T) \in 1 .. N
    BY <1>6 DEF Solves
  <2> HIDE DEF F
  <2>2. QED
    BY <1>2, <1>8, <2>1 DEF Unfolds
<1>11. PICK A : Runs(A, N, V, b, G, F[1 .. N])
  <2> HIDE DEF F, G
  <2>1. QED
    BY <1>4, <1>5, <1>10, FoldRuns
<1>12. G = Absorbs(tools)
  BY <1>1, <1>3 DEF Absorbs
<1>13. QED
  <2> HIDE DEF F, G
  <2>1. QED
    BY <1>1, <1>3, <1>9, <1>11, <1>12

LEMMA AbsorbAllTyped ==
  ASSUME NEW slots \in Seq(Slot), NEW tools \in Seq(ToolDeltas)
  PROVE  AbsorbDeltas(slots, tools) \in Seq(Slot)
<1>1. PICK N \in Nat : N = Len(tools)
  OBVIOUS
<1>2. PICK A : Runs(A, N, Seq(Slot), slots, Absorbs(tools), AbsorbDeltas(slots, tools))
  BY <1>1, AbsorbRuns
<1>3. QED
  BY <1>1, <1>2 DEF Runs

LEMMA AbsorbEmpty ==
  ASSUME NEW slots \in Seq(Slot)
  PROVE  AbsorbDeltas(slots, <<>>) = slots
<1>1. <<>> \in Seq(ToolDeltas) /\ Len(<<>>) = 0
  OBVIOUS
<1>2. PICK A : Runs(A, Len(<<>>), Seq(Slot), slots, Absorbs(<<>>), AbsorbDeltas(slots, <<>>))
  BY <1>1, AbsorbRuns
<1>3. QED
  BY <1>1, <1>2 DEF Runs

LEMMA AbsorbAppend ==
  ASSUME NEW slots \in Seq(Slot), NEW t \in Seq(ToolDeltas), NEW x \in ToolDeltas
  PROVE  /\ AbsorbDeltas(slots, t) \in Seq(Slot)
         /\ AbsorbDeltas(slots, Append(t, x)) = AbsorbDelta(AbsorbDeltas(slots, t), x)
<1>1. PICK N \in Nat : N = Len(t)
  OBVIOUS
<1>2. PICK u \in Seq(ToolDeltas) : u = Append(t, x)
  BY AppendProperties
<1>3. Len(u) = N + 1 /\ u[N + 1] = x /\ \A i \in 1 .. N : u[i] = t[i]
  BY <1>1, <1>2
<1>4. PICK A : Runs(A, N, Seq(Slot), slots, Absorbs(t), AbsorbDeltas(slots, t))
  BY <1>1, AbsorbRuns
<1>5. PICK B : Runs(B, N + 1, Seq(Slot), slots, Absorbs(u), AbsorbDeltas(slots, u))
  BY <1>3, AbsorbRuns
<1>6. \A i \in 1 .. N : Absorbs(u)[i] = Absorbs(t)[i]
  BY <1>1, <1>3 DEF Absorbs
<1>7. /\ AbsorbDeltas(slots, t) \in Seq(Slot)
      /\ AbsorbDeltas(slots, u) = Absorbs(u)[N + 1][AbsorbDeltas(slots, t)]
  BY <1>4, <1>5, <1>6, RunsAppend
<1>8. Absorbs(u)[N + 1][AbsorbDeltas(slots, t)] = AbsorbDelta(AbsorbDeltas(slots, t), x)
  BY <1>3, <1>7 DEF Absorbs
<1>9. QED
  BY <1>2, <1>7, <1>8

\* Deltas that come in two lots leave the slots they leave at once.
LEMMA AbsorbInTwo ==
  ASSUME NEW slots \in Seq(Slot), NEW a \in Seq(ToolDeltas), NEW b \in Seq(ToolDeltas)
  PROVE  AbsorbDeltas(slots, Cat(a, b)) = AbsorbDeltas(AbsorbDeltas(slots, a), b)
<1> DEFINE g == AbsorbDeltas(slots, a)
           C == {u \in Seq(ToolDeltas) : AbsorbDeltas(slots, Cat(a, u)) = AbsorbDeltas(g, u)}
<1>1. g \in Seq(Slot)
  BY AbsorbAllTyped
<1> HIDE DEF g
<1>2. <<>> \in C
  <2>1. AbsorbDeltas(g, <<>>) = g /\ Cat(a, <<>>) = a
    BY <1>1, AbsorbEmpty, CatEmpty
  <2>2. <<>> \in Seq(ToolDeltas)
    OBVIOUS
  <2>3. QED
    BY <2>1, <2>2 DEF g
<1>3. ASSUME NEW u \in Seq(ToolDeltas), NEW x \in ToolDeltas, u \in C PROVE Append(u, x) \in C
  <2>1. PICK v \in Seq(ToolDeltas) : v = Cat(a, u)
    BY CatTyped
  <2>2. AbsorbDeltas(slots, v) = AbsorbDeltas(g, u)
    BY <1>3, <2>1
  <2>3. Cat(a, Append(u, x)) = Append(v, x)
    <3>1. Cat(a, Append(u, x)) = Append(Cat(a, u), x)
      BY CatAppend
    <3>2. QED
      BY <2>1, <3>1
  <2>4. AbsorbDeltas(slots, Append(v, x)) = AbsorbDelta(AbsorbDeltas(slots, v), x)
    BY AbsorbAppend
  <2>5. AbsorbDeltas(g, Append(u, x)) = AbsorbDelta(AbsorbDeltas(g, u), x)
    BY <1>1, AbsorbAppend
  <2>6. Append(u, x) \in Seq(ToolDeltas)
    BY AppendProperties
  <2>7. QED
    BY <2>2, <2>3, <2>4, <2>5, <2>6
<1>4. b \in C
  <2> HIDE DEF C
  <2>1. QED
    BY <1>2, <1>3, SeqGrows
<1>5. QED
  BY <1>4 DEF g

CallChunks == {x \in Chunks : x.c = "call"}

\* The chunks of the calls, slot by slot.
FlushCall(out, c) == IF c.id = 0 THEN out ELSE Append(out, Chunk("call", c, NoFinish))
Flushes(slots) ==
  [n \in 1 .. Len(slots) |-> [a \in Seq(CallChunks) |-> FlushCall(a, slots[n])]]

LEMMA FlushCallTyped ==
  ASSUME NEW out \in Seq(CallChunks), NEW c \in Slot
  PROVE  FlushCall(out, c) \in Seq(CallChunks)
<1>1. Chunk("call", c, NoFinish) \in CallChunks
  BY DEF Chunk, Chunks, CallChunks, ChunkNames, NoFinish
<1>2. Append(out, Chunk("call", c, NoFinish)) \in Seq(CallChunks)
  BY <1>1, AppendProperties
<1>3. QED
  BY <1>2 DEF FlushCall

\* The slots are flushed one after another (StreamAggregator::ingest, finish reason).
LEMMA FlushRuns ==
  ASSUME NEW slots \in Seq(Slot)
  PROVE  \E A : Runs(A, Len(slots), Seq(CallChunks), <<>>, Flushes(slots), FlushToolCalls(slots))
<1>1. PICK N \in Nat : N = Len(slots)
  OBVIOUS
<1>2. DOMAIN slots = 1 .. N /\ \A n \in 1 .. N : slots[n] \in Slot
  BY <1>1
<1>3. PICK V, b : V = Seq(CallChunks) /\ b = <<>>
  OBVIOUS
<1> DEFINE P(f) == f = [T \in SUBSET (DOMAIN slots) |->
                          IF T = {} THEN b ELSE FlushCall(f[T \ {Max(T)}], slots[Max(T)])]
           F == CHOOSE f : P(f)
           G == [n \in 1 .. N |-> [a \in V |-> FlushCall(a, slots[n])]]
<1>4. b \in V /\ \A a \in V, n \in 1 .. N : FlushCall(a, slots[n]) \in V
  BY <1>2, <1>3, FlushCallTyped
<1>5. Steps(G, N, V)
  BY <1>4 DEF Steps
<1>6. PICK it : Solves(it, N, V, b, G)
  <2> HIDE DEF G
  <2>1. QED
    BY <1>4, <1>5, FoldSolution
<1>7. P(it)
  BY <1>2, <1>6 DEF Solves
<1>8. P(F)
  <2> HIDE DEF P
  <2>1. QED
    BY <1>7
<1>9. FlushToolCalls(slots) = F[1 .. N]
  BY <1>2, <1>3 DEF FlushToolCalls, FlushCall, FoldLeft, MapThenFoldSet
<1>10. Unfolds(F, N, V, b, G)
  <2>1. \A T \in SUBSET (1 .. N) : T # {} => Max(T) \in 1 .. N
    BY <1>6 DEF Solves
  <2> HIDE DEF F
  <2>2. QED
    BY <1>2, <1>8, <2>1 DEF Unfolds
<1>11. PICK A : Runs(A, N, V, b, G, F[1 .. N])
  <2> HIDE DEF F, G
  <2>1. QED
    BY <1>4, <1>5, <1>10, FoldRuns
<1>12. G = Flushes(slots)
  BY <1>1, <1>3 DEF Flushes
<1>13. QED
  <2> HIDE DEF F, G
  <2>1. QED
    BY <1>1, <1>3, <1>9, <1>11, <1>12

\* They are calls and nothing else.
LEMMA FlushIsCalls ==
  ASSUME NEW slots \in Seq(Slot)
  PROVE  FlushToolCalls(slots) \in Seq(CallChunks)
<1>1. PICK N \in Nat : N = Len(slots)
  OBVIOUS
<1>2. PICK A : Runs(A, N, Seq(CallChunks), <<>>, Flushes(slots), FlushToolCalls(slots))
  BY <1>1, FlushRuns
<1>3. QED
  BY <1>1, <1>2 DEF Runs

LEMMA FlushEmpty == FlushToolCalls(<<>>) = <<>>
<1>1. <<>> \in Seq(Slot) /\ Len(<<>>) = 0
  OBVIOUS
<1>2. PICK A : Runs(A, Len(<<>>), Seq(CallChunks), <<>>, Flushes(<<>>), FlushToolCalls(<<>>))
  BY <1>1, FlushRuns
<1>3. QED
  BY <1>1, <1>2 DEF Runs

LEMMA FlushAppend ==
  ASSUME NEW t \in Seq(Slot), NEW x \in Slot
  PROVE  /\ FlushToolCalls(t) \in Seq(CallChunks)
         /\ FlushToolCalls(Append(t, x)) = FlushCall(FlushToolCalls(t), x)
<1>1. PICK N \in Nat : N = Len(t)
  OBVIOUS
<1>2. PICK u \in Seq(Slot) : u = Append(t, x)
  BY AppendProperties
<1>3. Len(u) = N + 1 /\ u[N + 1] = x /\ \A i \in 1 .. N : u[i] = t[i]
  BY <1>1, <1>2
<1>4. PICK A : Runs(A, N, Seq(CallChunks), <<>>, Flushes(t), FlushToolCalls(t))
  BY <1>1, FlushRuns
<1>5. PICK B : Runs(B, N + 1, Seq(CallChunks), <<>>, Flushes(u), FlushToolCalls(u))
  BY <1>3, FlushRuns
<1>6. \A i \in 1 .. N : Flushes(u)[i] = Flushes(t)[i]
  BY <1>1, <1>3 DEF Flushes
<1>7. /\ FlushToolCalls(t) \in Seq(CallChunks)
      /\ FlushToolCalls(u) = Flushes(u)[N + 1][FlushToolCalls(t)]
  BY <1>4, <1>5, <1>6, RunsAppend
<1>8. Flushes(u)[N + 1][FlushToolCalls(t)] = FlushCall(FlushToolCalls(t), x)
  BY <1>3, <1>7 DEF Flushes
<1>9. QED
  BY <1>2, <1>7, <1>8

\* A chunk leaves a turn behind.
LEMMA ConsumeTyped ==
  ASSUME NEW turn \in Turn, NEW x \in Chunks
  PROVE  Consume(turn, x) \in Turn
<1>1. /\ turn.calls \in Seq(Slot) /\ turn.stop \in StopReasons
      /\ turn.emitted \in Seq(ChunkNames)
  BY DEF Turn
<1>2. x.c \in ChunkNames /\ x.call \in Slot /\ (x.c = "end" => x.stop \in StopReasons)
  BY DEF Chunks
<1>3. /\ Append(turn.calls, x.call) \in Seq(Slot)
      /\ Append(turn.emitted, x.c) \in Seq(ChunkNames)
  BY <1>1, <1>2, AppendProperties
<1>4. QED
  BY <1>1, <1>2, <1>3 DEF Consume, Turn

\* What becomes of the turn, chunk by chunk.
Consumes(chunks) ==
  [n \in 1 .. Len(chunks) |-> [a \in Turn |-> Consume(a, chunks[n])]]

\* The chunks are consumed one after another (DefaultConsumer).
LEMMA ConsumeRuns ==
  ASSUME NEW turn \in Turn, NEW chunks \in Seq(Chunks)
  PROVE  \E A : Runs(A, Len(chunks), Turn, turn, Consumes(chunks), ConsumeAll(turn, chunks))
<1>1. PICK N \in Nat : N = Len(chunks)
  OBVIOUS
<1>2. DOMAIN chunks = 1 .. N /\ \A n \in 1 .. N : chunks[n] \in Chunks
  BY <1>1
<1>3. PICK V : V = Turn
  OBVIOUS
<1> DEFINE P(f) == f = [T \in SUBSET (DOMAIN chunks) |->
                          IF T = {} THEN turn
                          ELSE Consume(f[T \ {Max(T)}], chunks[Max(T)])]
           F == CHOOSE f : P(f)
           G == [n \in 1 .. N |-> [a \in V |-> Consume(a, chunks[n])]]
<1>4. turn \in V /\ \A a \in V, n \in 1 .. N : Consume(a, chunks[n]) \in V
  BY <1>2, <1>3, ConsumeTyped
<1>5. Steps(G, N, V)
  BY <1>4 DEF Steps
<1>6. PICK it : Solves(it, N, V, turn, G)
  <2> HIDE DEF G
  <2>1. QED
    BY <1>4, <1>5, FoldSolution
<1>7. P(it)
  BY <1>2, <1>6 DEF Solves
<1>8. P(F)
  <2> HIDE DEF P
  <2>1. QED
    BY <1>7
<1>9. ConsumeAll(turn, chunks) = F[1 .. N]
  BY <1>2 DEF ConsumeAll, FoldLeft, MapThenFoldSet
<1>10. Unfolds(F, N, V, turn, G)
  <2>1. \A T \in SUBSET (1 .. N) : T # {} => Max(T) \in 1 .. N
    BY <1>6 DEF Solves
  <2> HIDE DEF F
  <2>2. QED
    BY <1>2, <1>8, <2>1 DEF Unfolds
<1>11. PICK A : Runs(A, N, V, turn, G, F[1 .. N])
  <2> HIDE DEF F, G
  <2>1. QED
    BY <1>4, <1>5, <1>10, FoldRuns
<1>12. G = Consumes(chunks)
  BY <1>1, <1>3 DEF Consumes
<1>13. QED
  <2> HIDE DEF F, G
  <2>1. QED
    BY <1>1, <1>3, <1>9, <1>11, <1>12

LEMMA ConsumeAllTyped ==
  ASSUME NEW turn \in Turn, NEW chunks \in Seq(Chunks)
  PROVE  ConsumeAll(turn, chunks) \in Turn
<1>1. PICK A : Runs(A, Len(chunks), Turn, turn, Consumes(chunks), ConsumeAll(turn, chunks))
  BY ConsumeRuns
<1>2. Len(chunks) \in 0 .. Len(chunks)
  OBVIOUS
<1>3. QED
  BY <1>1, <1>2 DEF Runs

LEMMA ConsumeAllEmpty ==
  ASSUME NEW turn \in Turn
  PROVE  ConsumeAll(turn, <<>>) = turn
<1>1. <<>> \in Seq(Chunks) /\ Len(<<>>) = 0
  OBVIOUS
<1>2. PICK A : Runs(A, Len(<<>>), Turn, turn, Consumes(<<>>), ConsumeAll(turn, <<>>))
  BY <1>1, ConsumeRuns
<1>3. QED
  BY <1>1, <1>2 DEF Runs

LEMMA ConsumeAllAppend ==
  ASSUME NEW turn \in Turn, NEW t \in Seq(Chunks), NEW x \in Chunks
  PROVE  ConsumeAll(turn, Append(t, x)) = Consume(ConsumeAll(turn, t), x)
<1>1. PICK N \in Nat : N = Len(t)
  OBVIOUS
<1>2. PICK u \in Seq(Chunks) : u = Append(t, x)
  BY AppendProperties
<1>3. Len(u) = N + 1 /\ u[N + 1] = x /\ \A i \in 1 .. N : u[i] = t[i]
  BY <1>1, <1>2
<1>4. PICK A : Runs(A, N, Turn, turn, Consumes(t), ConsumeAll(turn, t))
  BY <1>1, ConsumeRuns
<1>5. PICK B : Runs(B, N + 1, Turn, turn, Consumes(u), ConsumeAll(turn, u))
  BY <1>3, ConsumeRuns
<1>6. \A k \in 1 .. N : Consumes(u)[k] = Consumes(t)[k]
  BY <1>1, <1>3 DEF Consumes
<1>7. ConsumeAll(turn, t) \in Turn /\ ConsumeAll(turn, u) = Consumes(u)[N + 1][ConsumeAll(turn, t)]
  BY <1>4, <1>5, <1>6, RunsAppend
<1>8. Consumes(u)[N + 1][ConsumeAll(turn, t)] = Consume(ConsumeAll(turn, t), x)
  BY <1>3, <1>7 DEF Consumes
<1>9. QED
  BY <1>2, <1>7, <1>8

LEMMA ConsumeOne ==
  ASSUME NEW turn \in Turn, NEW x \in Chunks
  PROVE  ConsumeAll(turn, <<x>>) = Consume(turn, x)
<1>1. PICK e \in Seq(Chunks) : e = <<>>
  <2>1. <<>> \in Seq(Chunks)
    OBVIOUS
  <2>2. QED
    BY <2>1
<1>2. Append(e, x) = <<x>>
  BY <1>1
<1>3. ConsumeAll(turn, Append(e, x)) = Consume(ConsumeAll(turn, e), x)
  BY ConsumeAllAppend
<1>4. ConsumeAll(turn, e) = turn
  BY <1>1, ConsumeAllEmpty
<1>5. QED
  BY <1>2, <1>3, <1>4

\* Chunks that come in two lots leave the turn they leave at once.
LEMMA ConsumeInTwo ==
  ASSUME NEW turn \in Turn, NEW a \in Seq(Chunks), NEW b \in Seq(Chunks)
  PROVE  ConsumeAll(turn, Cat(a, b)) = ConsumeAll(ConsumeAll(turn, a), b)
<1> DEFINE g == ConsumeAll(turn, a)
           C == {u \in Seq(Chunks) : ConsumeAll(turn, Cat(a, u)) = ConsumeAll(g, u)}
<1>1. g \in Turn
  BY ConsumeAllTyped
<1> HIDE DEF g
<1>2. <<>> \in C
  <2>1. ConsumeAll(g, <<>>) = g /\ Cat(a, <<>>) = a
    BY <1>1, ConsumeAllEmpty, CatEmpty
  <2>2. <<>> \in Seq(Chunks)
    OBVIOUS
  <2>3. QED
    BY <2>1, <2>2 DEF g
<1>3. ASSUME NEW u \in Seq(Chunks), NEW x \in Chunks, u \in C PROVE Append(u, x) \in C
  <2>1. PICK v \in Seq(Chunks) : v = Cat(a, u)
    BY CatTyped
  <2>2. ConsumeAll(turn, v) = ConsumeAll(g, u)
    BY <1>3, <2>1
  <2>3. Cat(a, Append(u, x)) = Append(v, x)
    <3>1. Cat(a, Append(u, x)) = Append(Cat(a, u), x)
      BY CatAppend
    <3>2. QED
      BY <2>1, <3>1
  <2>4. ConsumeAll(turn, Append(v, x)) = Consume(ConsumeAll(turn, v), x)
    BY ConsumeAllAppend
  <2>5. ConsumeAll(g, Append(u, x)) = Consume(ConsumeAll(g, u), x)
    BY <1>1, ConsumeAllAppend
  <2>6. Append(u, x) \in Seq(Chunks)
    BY AppendProperties
  <2>7. QED
    BY <2>2, <2>3, <2>4, <2>5, <2>6
<1>4. b \in C
  <2> HIDE DEF C
  <2>1. QED
    BY <1>2, <1>3, SeqGrows
<1>5. QED
  BY <1>4 DEF g

\* An end carries a stop reason.
LEMMA EndTyped ==
  ASSUME NEW stop \in StopReasons
  PROVE  EndOf(stop) \in Seq(Chunks)
<1>1. EmptySlot \in Slot
  BY DEF EmptySlot, Slot
<1>2. Chunk("end", EmptySlot, stop) \in Chunks
  BY <1>1 DEF Chunk, Chunks, ChunkNames
<1>3. PICK x \in Chunks : x = Chunk("end", EmptySlot, stop)
  BY <1>2
<1>4. <<x>> \in Seq(Chunks)
  OBVIOUS
<1>5. QED
  BY <1>3, <1>4 DEF EndOf

\* At most one chunk of a text or of the start.
LEMMA OneChunkTyped ==
  ASSUME NEW c \in ChunkNames \ {"end"}
  PROVE  <<Chunk(c, EmptySlot, NoFinish)>> \in Seq(Chunks)
<1>1. EmptySlot \in Slot
  BY DEF EmptySlot, Slot
<1>2. Chunk(c, EmptySlot, NoFinish) \in Chunks
  BY <1>1 DEF Chunk, Chunks
<1>3. PICK x \in Chunks : x = Chunk(c, EmptySlot, NoFinish)
  BY <1>2
<1>4. <<x>> \in Seq(Chunks)
  OBVIOUS
<1>5. QED
  BY <1>3, <1>4

\* Chunks that neither start nor end a message.
MiddleChunks == {x \in Chunks : x.c \notin {"start", "end"}}

\* What an event adds to the turn, piece by piece, and what it leaves behind.
Adds(agg, ev, a, b, c, d, fin) ==
  /\ a = IF agg.started THEN <<>> ELSE <<Chunk("start", EmptySlot, NoFinish)>>
  /\ b = IF ev.text = "none" THEN <<>> ELSE <<Chunk(ev.text, EmptySlot, NoFinish)>>
  /\ c = IF ev.finish = NoFinish THEN <<>> ELSE FlushToolCalls(AbsorbDeltas(agg.slots, ev.tools))
  /\ fin = IF ev.finish = NoFinish THEN agg.pending ELSE StopReasonFrom(ev.finish)
  /\ d = IF fin # NoFinish /\ ev.usage THEN EndOf(fin) ELSE <<>>
  /\ Ingest(agg, ev).out = Cat(Cat(Cat(a, b), c), d)
  /\ Ingest(agg, ev).agg =
       [started |-> TRUE,
        slots   |-> IF ev.finish = NoFinish THEN AbsorbDeltas(agg.slots, ev.tools) ELSE <<>>,
        pending |-> IF fin # NoFinish /\ ev.usage THEN NoFinish ELSE fin]

\* What one event adds to the stream of chunks, part by part.
LEMMA IngestOut ==
  ASSUME NEW agg \in Aggregator, NEW ev \in ChatEvents
  PROVE  \E a \in Seq(Chunks), b \in Seq(MiddleChunks), c \in Seq(MiddleChunks),
            d \in Seq(Chunks), fin \in StopReasons \union {NoFinish} :
           Adds(agg, ev, a, b, c, d, fin)
<1>1. /\ agg.started \in BOOLEAN /\ agg.slots \in Seq(Slot)
      /\ agg.pending \in StopReasons \union {NoFinish}
      /\ ev.text \in Texts /\ ev.tools \in Seq(ToolDeltas)
      /\ ev.finish \in Finishes \union {NoFinish} /\ ev.usage \in BOOLEAN
  BY DEF Aggregator, ChatEvents
<1>2. PICK slots \in Seq(Slot) : slots = AbsorbDeltas(agg.slots, ev.tools)
  BY <1>1, AbsorbAllTyped
<1>3. PICK fin \in StopReasons \union {NoFinish} :
        fin = IF ev.finish = NoFinish THEN agg.pending ELSE StopReasonFrom(ev.finish)
  BY <1>1 DEF StopReasonFrom, StopReasons, Finishes
<1>4. <<>> \in Seq(Chunks) /\ <<>> \in Seq(MiddleChunks)
  OBVIOUS
<1>5. PICK a \in Seq(Chunks) :
        a = IF agg.started THEN <<>> ELSE <<Chunk("start", EmptySlot, NoFinish)>>
  BY <1>4, OneChunkTyped DEF ChunkNames
<1>6. PICK b \in Seq(MiddleChunks) :
        b = IF ev.text = "none" THEN <<>> ELSE <<Chunk(ev.text, EmptySlot, NoFinish)>>
  <2>1. CASE ev.text = "none"
    BY <1>4, <2>1
  <2>2. CASE ev.text # "none"
    <3>1. EmptySlot \in Slot
      BY DEF EmptySlot, Slot
    <3>2. Chunk(ev.text, EmptySlot, NoFinish) \in MiddleChunks
      BY <1>1, <2>2, <3>1 DEF Chunk, Chunks, MiddleChunks, Texts, ChunkNames
    <3>3. PICK x \in MiddleChunks : x = Chunk(ev.text, EmptySlot, NoFinish)
      BY <3>2
    <3>4. <<x>> \in Seq(MiddleChunks)
      OBVIOUS
    <3>5. QED
      BY <2>2, <3>3, <3>4
  <2>3. QED
    BY <2>1, <2>2
<1>7. PICK c \in Seq(MiddleChunks) : c = IF ev.finish = NoFinish THEN <<>> ELSE FlushToolCalls(slots)
  <2>1. FlushToolCalls(slots) \in Seq(CallChunks)
    BY FlushIsCalls
  <2>2. CallChunks \subseteq MiddleChunks
    BY DEF CallChunks, MiddleChunks
  <2>3. FlushToolCalls(slots) \in Seq(MiddleChunks)
    BY <2>1, <2>2, SeqWider
  <2>4. QED
    BY <1>4, <2>3
<1>8. PICK d \in Seq(Chunks) : d = IF fin # NoFinish /\ ev.usage THEN EndOf(fin) ELSE <<>>
  BY <1>3, <1>4, EndTyped
<1>9. Ingest(agg, ev).agg =
        [started |-> TRUE, slots |-> IF ev.finish = NoFinish THEN slots ELSE <<>>,
         pending |-> IF fin # NoFinish /\ ev.usage THEN NoFinish ELSE fin]
  BY <1>2, <1>3 DEF Ingest
<1>10. Ingest(agg, ev).out = Cat(Cat(Cat(a, b), c), d)
  BY <1>2, <1>3, <1>5, <1>6, <1>7, <1>8 DEF Ingest, Cat
<1>11. Adds(agg, ev, a, b, c, d, fin)
  BY <1>2, <1>3, <1>5, <1>6, <1>7, <1>8, <1>9, <1>10 DEF Adds
<1>12. QED
  BY <1>11

\* An event leaves an aggregator behind and yields chunks.
LEMMA IngestTyped ==
  ASSUME NEW agg \in Aggregator, NEW ev \in ChatEvents
  PROVE  Ingest(agg, ev).agg \in Aggregator /\ Ingest(agg, ev).out \in Seq(Chunks)
<1>1. PICK a \in Seq(Chunks), b \in Seq(MiddleChunks), c \in Seq(MiddleChunks),
           d \in Seq(Chunks), fin \in StopReasons \union {NoFinish} :
        Adds(agg, ev, a, b, c, d, fin)
  BY IngestOut
<1>2. PICK slots \in Seq(Slot) :
        slots = IF ev.finish = NoFinish THEN AbsorbDeltas(agg.slots, ev.tools) ELSE <<>>
  <2>1. agg.slots \in Seq(Slot) /\ ev.tools \in Seq(ToolDeltas)
    BY DEF Aggregator, ChatEvents
  <2>2. AbsorbDeltas(agg.slots, ev.tools) \in Seq(Slot)
    BY <2>1, AbsorbAllTyped
  <2>3. <<>> \in Seq(Slot)
    OBVIOUS
  <2>4. QED
    BY <2>2, <2>3
<1>3. PICK x \in Aggregator :
        x = [started |-> TRUE, slots |-> slots,
             pending |-> IF fin # NoFinish /\ ev.usage THEN NoFinish ELSE fin]
  BY DEF Aggregator
<1>4. Ingest(agg, ev).agg = x /\ Ingest(agg, ev).out = Cat(Cat(Cat(a, b), c), d)
  BY <1>1, <1>2, <1>3 DEF Adds
<1>5. MiddleChunks \subseteq Chunks
  BY DEF MiddleChunks
<1>6. b \in Seq(Chunks) /\ c \in Seq(Chunks)
  BY <1>5, SeqWider
<1>7. Cat(Cat(Cat(a, b), c), d) \in Seq(Chunks)
  BY <1>6, CatTyped
<1>8. QED
  BY <1>4, <1>7

LEMMA FinalizeTyped ==
  ASSUME NEW agg \in Aggregator
  PROVE  Finalize(agg) \in Seq(Chunks)
<1>1. agg.pending \in StopReasons \union {NoFinish}
  BY DEF Aggregator
<1>2. <<>> \in Seq(Chunks)
  OBVIOUS
<1>3. QED
  BY <1>1, <1>2, EndTyped DEF Finalize

\* The symbols the body of a reply is made of.
Symbols(r) ==
  {LF, CR, DataPrefix, Sym("comment", 0), Sym("done", 0)}
    \union {Sym("event", i) : i \in DOMAIN r.events}

LEMMA AdvanceTyped ==
  ASSUME NEW r, r.events \in Seq(ChatEvents), NEW s \in StreamStates, NEW x \in Symbols(r)
  PROVE  Advance(r, s, x) \in StreamStates
<1>1. /\ s.agg \in Aggregator /\ s.turn \in Turn /\ s.state \in {"open", "done", "failed"}
      /\ s = [agg |-> s.agg, turn |-> s.turn, state |-> s.state]
  BY DEF StreamStates
<1>2. CASE s.state # "open"
  BY <1>2 DEF Advance
<1>3. CASE s.state = "open" /\ x.s = "done"
  <2>1. PICK t \in Turn : t = ConsumeAll(s.turn, Finalize(s.agg))
    BY <1>1, FinalizeTyped, ConsumeAllTyped
  <2>2. Advance(r, s, x) = [s EXCEPT !.turn = t, !.state = "done"]
    BY <1>3, <2>1 DEF Advance
  <2>3. QED
    BY <1>1, <2>2 DEF StreamStates
<1>4. CASE s.state = "open" /\ x.s # "done" /\ x.s = "event" /\ r.events[x.e].valid
  <2>1. PICK i \in DOMAIN r.events : x = Sym("event", i)
    BY <1>4 DEF Symbols, LF, CR, DataPrefix, Sym
  <2>2. x.e = i
    BY <2>1 DEF Sym
  <2>3. r.events[i] \in ChatEvents
    OBVIOUS
  <2>4. PICK ev \in ChatEvents : ev = r.events[x.e]
    BY <2>2, <2>3
  <2>5. PICK a \in Aggregator : a = Ingest(s.agg, ev).agg
    BY <1>1, IngestTyped
  <2>6. PICK o \in Seq(Chunks) : o = Ingest(s.agg, ev).out
    BY <1>1, IngestTyped
  <2>7. PICK t \in Turn : t = ConsumeAll(s.turn, o)
    BY <1>1, ConsumeAllTyped
  <2>8. Advance(r, s, x) = [s EXCEPT !.agg = a, !.turn = t]
    BY <1>4, <2>4, <2>5, <2>6, <2>7 DEF Advance
  <2>9. QED
    BY <1>1, <2>8 DEF StreamStates
<1>5. CASE s.state = "open" /\ x.s # "done" /\ ~(x.s = "event" /\ r.events[x.e].valid)
  <2>1. Advance(r, s, x) = [s EXCEPT !.state = "failed"]
    BY <1>5 DEF Advance
  <2>2. QED
    BY <1>1, <2>1 DEF StreamStates
<1>6. QED
  BY <1>2, <1>3, <1>4, <1>5

\* What becomes of the stream, event by event.
Advances(r, out) ==
  [n \in 1 .. Len(out) |-> [a \in StreamStates |-> Advance(r, a, out[n])]]

\* The data are handed on one after another.
LEMMA AdvanceRuns ==
  ASSUME NEW r, r.events \in Seq(ChatEvents), NEW s \in StreamStates, NEW out \in Seq(Symbols(r))
  PROVE  \E A : Runs(A, Len(out), StreamStates, s, Advances(r, out), AdvanceAll(r, s, out))
<1>1. PICK N \in Nat : N = Len(out)
  OBVIOUS
<1>2. DOMAIN out = 1 .. N /\ \A n \in 1 .. N : out[n] \in Symbols(r)
  BY <1>1
<1>3. PICK V : V = StreamStates
  OBVIOUS
<1> DEFINE P(f) == f = [T \in SUBSET (DOMAIN out) |->
                          IF T = {} THEN s
                          ELSE Advance(r, f[T \ {Max(T)}], out[Max(T)])]
           F == CHOOSE f : P(f)
           G == [n \in 1 .. N |-> [a \in V |-> Advance(r, a, out[n])]]
<1>4. s \in V /\ \A a \in V, n \in 1 .. N : Advance(r, a, out[n]) \in V
  BY <1>2, <1>3, AdvanceTyped
<1>5. Steps(G, N, V)
  BY <1>4 DEF Steps
<1>6. PICK it : Solves(it, N, V, s, G)
  <2> HIDE DEF G
  <2>1. QED
    BY <1>4, <1>5, FoldSolution
<1>7. P(it)
  BY <1>2, <1>6 DEF Solves
<1>8. P(F)
  <2> HIDE DEF P
  <2>1. QED
    BY <1>7
<1>9. AdvanceAll(r, s, out) = F[1 .. N]
  BY <1>2 DEF AdvanceAll, FoldLeft, MapThenFoldSet
<1>10. Unfolds(F, N, V, s, G)
  <2>1. \A T \in SUBSET (1 .. N) : T # {} => Max(T) \in 1 .. N
    BY <1>6 DEF Solves
  <2> HIDE DEF F
  <2>2. QED
    BY <1>2, <1>8, <2>1 DEF Unfolds
<1>11. PICK A : Runs(A, N, V, s, G, F[1 .. N])
  <2> HIDE DEF F, G
  <2>1. QED
    BY <1>4, <1>5, <1>10, FoldRuns
<1>12. G = Advances(r, out)
  BY <1>1, <1>3 DEF Advances
<1>13. QED
  <2> HIDE DEF F, G
  <2>1. QED
    BY <1>1, <1>3, <1>9, <1>11, <1>12

LEMMA AdvanceAllTyped ==
  ASSUME NEW r, r.events \in Seq(ChatEvents), NEW s \in StreamStates, NEW out \in Seq(Symbols(r))
  PROVE  AdvanceAll(r, s, out) \in StreamStates
<1>1. PICK A : Runs(A, Len(out), StreamStates, s, Advances(r, out), AdvanceAll(r, s, out))
  BY AdvanceRuns
<1>2. Len(out) \in 0 .. Len(out)
  OBVIOUS
<1>3. QED
  BY <1>1, <1>2 DEF Runs

LEMMA AdvanceAllEmpty ==
  ASSUME NEW r, r.events \in Seq(ChatEvents), NEW s \in StreamStates
  PROVE  AdvanceAll(r, s, <<>>) = s
<1>1. <<>> \in Seq(Symbols(r)) /\ Len(<<>>) = 0
  OBVIOUS
<1>2. PICK A : Runs(A, Len(<<>>), StreamStates, s, Advances(r, <<>>), AdvanceAll(r, s, <<>>))
  BY <1>1, AdvanceRuns
<1>3. QED
  BY <1>1, <1>2 DEF Runs

LEMMA AdvanceAllAppend ==
  ASSUME NEW r, r.events \in Seq(ChatEvents), NEW s \in StreamStates,
         NEW t \in Seq(Symbols(r)), NEW x \in Symbols(r)
  PROVE  AdvanceAll(r, s, Append(t, x)) = Advance(r, AdvanceAll(r, s, t), x)
<1>1. PICK N \in Nat : N = Len(t)
  OBVIOUS
<1>2. PICK u \in Seq(Symbols(r)) : u = Append(t, x)
  BY AppendProperties
<1>3. Len(u) = N + 1 /\ u[N + 1] = x /\ \A i \in 1 .. N : u[i] = t[i]
  BY <1>1, <1>2
<1>4. PICK A : Runs(A, N, StreamStates, s, Advances(r, t), AdvanceAll(r, s, t))
  BY <1>1, AdvanceRuns
<1>5. PICK B : Runs(B, N + 1, StreamStates, s, Advances(r, u), AdvanceAll(r, s, u))
  BY <1>3, AdvanceRuns
<1>6. \A k \in 1 .. N : Advances(r, u)[k] = Advances(r, t)[k]
  BY <1>1, <1>3 DEF Advances
<1>7. /\ AdvanceAll(r, s, t) \in StreamStates
      /\ AdvanceAll(r, s, u) = Advances(r, u)[N + 1][AdvanceAll(r, s, t)]
  BY <1>4, <1>5, <1>6, RunsAppend
<1>8. Advances(r, u)[N + 1][AdvanceAll(r, s, t)] = Advance(r, AdvanceAll(r, s, t), x)
  BY <1>3, <1>7 DEF Advances
<1>9. QED
  BY <1>2, <1>7, <1>8

\* Data that come in two lots leave the stream they leave at once.
LEMMA AdvanceInTwo ==
  ASSUME NEW r, r.events \in Seq(ChatEvents), NEW s \in StreamStates,
         NEW a \in Seq(Symbols(r)), NEW b \in Seq(Symbols(r))
  PROVE  AdvanceAll(r, s, Cat(a, b)) = AdvanceAll(r, AdvanceAll(r, s, a), b)
<1> DEFINE S == Symbols(r)
           g == AdvanceAll(r, s, a)
           C == {u \in Seq(S) : AdvanceAll(r, s, Cat(a, u)) = AdvanceAll(r, g, u)}
<1>1. g \in StreamStates
  BY AdvanceAllTyped
<1> HIDE DEF g
<1>2. <<>> \in C
  <2>1. AdvanceAll(r, g, <<>>) = g /\ Cat(a, <<>>) = a
    BY <1>1, AdvanceAllEmpty, CatEmpty
  <2>2. <<>> \in Seq(S)
    OBVIOUS
  <2>3. QED
    BY <2>1, <2>2 DEF g
<1>3. ASSUME NEW u \in Seq(S), NEW x \in S, u \in C PROVE Append(u, x) \in C
  <2>1. PICK v \in Seq(S) : v = Cat(a, u)
    BY CatTyped
  <2>2. AdvanceAll(r, s, v) = AdvanceAll(r, g, u)
    BY <1>3, <2>1
  <2>3. Cat(a, Append(u, x)) = Append(v, x)
    <3>1. Cat(a, Append(u, x)) = Append(Cat(a, u), x)
      BY CatAppend
    <3>2. QED
      BY <2>1, <3>1
  <2>4. AdvanceAll(r, s, Append(v, x)) = Advance(r, AdvanceAll(r, s, v), x)
    BY AdvanceAllAppend
  <2>5. AdvanceAll(r, g, Append(u, x)) = Advance(r, AdvanceAll(r, g, u), x)
    BY <1>1, AdvanceAllAppend
  <2>6. Append(u, x) \in Seq(S)
    BY AppendProperties
  <2>7. QED
    BY <2>2, <2>3, <2>4, <2>5, <2>6
<1>4. b \in C
  <2> HIDE DEF C, S
  <2>1. QED
    BY <1>2, <1>3, SeqGrows DEF S
<1>5. QED
  BY <1>4 DEF g

-----------------------------------------------------------------------------
(* The bytes of a reply, and what is decoded from them.                     *)

\* What the decoder holds after a symbol.
Decoding(S) == [buf : Seq(S), pending : Seq(S), out : Seq(S)]

\* The end of a line that has no CR before it, and the line it ends.
LEMMA StripTyped ==
  ASSUME NEW S, NEW line \in Seq(S)
  PROVE  StripCR(line) \in Seq(S)
<1>1. CASE line # <<>>
  <2>1. Front(line) \in Seq(S)
    <3>1. PICK n \in Nat : n = Len(line)
      OBVIOUS
    <3>2. PICK e \in Int : e = n - 1
      BY <3>1
    <3>3. \A i \in 1 .. e : line[i] \in S
      BY <3>1, <3>2
    <3>4. SubSeq(line, 1, e) \in Seq(S)
      BY <3>3, SubSeqProperties
    <3>5. QED
      BY <3>1, <3>2, <3>4 DEF Front
  <2>2. QED
    BY <2>1 DEF StripCR
<1>2. CASE line = <<>>
  BY <1>2 DEF StripCR
<1>3. QED
  BY <1>1, <1>2

LEMMA HandleLineTyped ==
  ASSUME NEW S, NEW d \in Decoding(S), NEW line \in Seq(S)
  PROVE  HandleLine(d, line) \in Decoding(S)
<1>1. d.buf \in Seq(S) /\ d.pending \in Seq(S) /\ d.out \in Seq(S)
  BY DEF Decoding
<1>2. CASE line = <<>>
  <2>1. PICK o \in Seq(S) : o = Cat(d.out, d.pending)
    BY <1>1, CatTyped
  <2>2. HandleLine(d, line) = [d EXCEPT !.pending = <<>>, !.out = o]
    BY <1>2, <2>1 DEF HandleLine, Cat
  <2>3. <<>> \in Seq(S)
    OBVIOUS
  <2>4. QED
    BY <2>2, <2>3 DEF Decoding
<1>3. CASE line # <<>>
  <2>1. PICK t \in Seq(S) : t = Tail(line)
    BY <1>3, HeadTailProperties
  <2>2. PICK p \in Seq(S) : p = Cat(d.pending, t)
    BY <1>1, CatTyped
  <2>3. HandleLine(d, line) =
          [d EXCEPT !.pending = IF Head(line) = DataPrefix THEN p ELSE d.pending]
    BY <1>3, <2>1, <2>2 DEF HandleLine, Cat
  <2>4. QED
    BY <1>1, <2>3 DEF Decoding
<1>4. QED
  BY <1>2, <1>3

LEMMA FeedSymbolTyped ==
  ASSUME NEW S, NEW d \in Decoding(S), NEW x \in S
  PROVE  FeedSymbol(d, x) \in Decoding(S)
<1>1. d.buf \in Seq(S) /\ d.pending \in Seq(S) /\ d.out \in Seq(S)
  BY DEF Decoding
<1>2. CASE x = LF
  <2>1. PICK line \in Seq(S) : line = StripCR(d.buf)
    BY <1>1, StripTyped
  <2>2. PICK e \in Decoding(S) : e = HandleLine(d, line)
    BY HandleLineTyped
  <2>3. FeedSymbol(d, x) = [e EXCEPT !.buf = <<>>]
    BY <1>2, <2>1, <2>2 DEF FeedSymbol
  <2>4. <<>> \in Seq(S)
    OBVIOUS
  <2>5. QED
    BY <2>3, <2>4 DEF Decoding
<1>3. CASE x # LF
  <2>1. PICK b \in Seq(S) : b = Append(d.buf, x)
    BY <1>1, AppendProperties
  <2>2. FeedSymbol(d, x) = [d EXCEPT !.buf = b]
    BY <1>3, <2>1 DEF FeedSymbol
  <2>3. QED
    BY <2>2 DEF Decoding
<1>4. QED
  BY <1>2, <1>3

\* What the decoder does with a chunk, symbol by symbol.
Fresh(d) == [buf |-> d.buf, pending |-> d.pending, out |-> <<>>]
Feeds(chunk, S) ==
  [n \in 1 .. Len(chunk) |-> [a \in Decoding(S) |-> FeedSymbol(a, chunk[n])]]

\* The bytes are fed one after another (EventStream).
LEMMA FeedRuns ==
  ASSUME NEW S, NEW d, d.buf \in Seq(S), d.pending \in Seq(S), NEW chunk \in Seq(S)
  PROVE  /\ Fresh(d) \in Decoding(S)
         /\ Steps(Feeds(chunk, S), Len(chunk), Decoding(S))
         /\ \E A : Runs(A, Len(chunk), Decoding(S), Fresh(d), Feeds(chunk, S), Feed(d, chunk))
<1>1. PICK N \in Nat : N = Len(chunk)
  OBVIOUS
<1>2. DOMAIN chunk = 1 .. N /\ \A n \in 1 .. N : chunk[n] \in S
  BY <1>1
<1>3. PICK V : V = Decoding(S)
  OBVIOUS
<1>4. PICK b \in V : b = Fresh(d)
  <2>1. <<>> \in Seq(S)
    OBVIOUS
  <2>2. QED
    BY <1>3, <2>1 DEF Decoding, Fresh
<1> DEFINE P(f) == f = [T \in SUBSET (DOMAIN chunk) |->
                          IF T = {} THEN b
                          ELSE FeedSymbol(f[T \ {Max(T)}], chunk[Max(T)])]
           F == CHOOSE f : P(f)
           G == [n \in 1 .. N |-> [a \in V |-> FeedSymbol(a, chunk[n])]]
<1>5. \A a \in V, n \in 1 .. N : FeedSymbol(a, chunk[n]) \in V
  BY <1>2, <1>3, FeedSymbolTyped
<1>6. Steps(G, N, V)
  BY <1>5 DEF Steps
<1>7. PICK it : Solves(it, N, V, b, G)
  <2> HIDE DEF G
  <2>1. QED
    BY <1>4, <1>6, FoldSolution
<1>8. P(it)
  BY <1>2, <1>7 DEF Solves
<1>9. P(F)
  <2> HIDE DEF P
  <2>1. QED
    BY <1>8
<1>10. Feed(d, chunk) = F[1 .. N]
  BY <1>2, <1>4 DEF Feed, FoldLeft, MapThenFoldSet, Fresh
<1>11. Unfolds(F, N, V, b, G)
  <2>1. \A T \in SUBSET (1 .. N) : T # {} => Max(T) \in 1 .. N
    BY <1>7 DEF Solves
  <2> HIDE DEF F
  <2>2. QED
    BY <1>2, <1>9, <2>1 DEF Unfolds
<1>12. PICK A : Runs(A, N, V, b, G, F[1 .. N])
  <2> HIDE DEF F, G
  <2>1. QED
    BY <1>4, <1>6, <1>11, FoldRuns
<1>13. G = Feeds(chunk, S)
  BY <1>1, <1>3 DEF Feeds
<1>14. QED
  <2> HIDE DEF F, G
  <2>1. QED
    BY <1>1, <1>3, <1>4, <1>6, <1>10, <1>12, <1>13

\* However the bytes are cut, the decoder holds symbols of the body and
\* yields some.
LEMMA FeedTyped ==
  ASSUME NEW S, NEW d, d.buf \in Seq(S), d.pending \in Seq(S), NEW chunk \in Seq(S)
  PROVE  Feed(d, chunk) \in Decoding(S)
<1>1. PICK A : Runs(A, Len(chunk), Decoding(S), Fresh(d), Feeds(chunk, S), Feed(d, chunk))
  BY FeedRuns
<1>2. Len(chunk) \in 0 .. Len(chunk)
  OBVIOUS
<1>3. QED
  BY <1>1, <1>2 DEF Runs

LEMMA FeedEmpty ==
  ASSUME NEW S, NEW d, d.buf \in Seq(S), d.pending \in Seq(S)
  PROVE  Feed(d, <<>>) = Fresh(d)
<1>1. <<>> \in Seq(S) /\ Len(<<>>) = 0
  OBVIOUS
<1>2. PICK A : Runs(A, Len(<<>>), Decoding(S), Fresh(d), Feeds(<<>>, S), Feed(d, <<>>))
  BY <1>1, FeedRuns
<1>3. QED
  BY <1>1, <1>2 DEF Runs

\* A decoder between two chunks, and what it does with one symbol more.
Holds(S, d) == d.buf \in Seq(S) /\ d.pending \in Seq(S)
FedMore(d, t, x) == Feed(d, Append(t, x)) = FeedSymbol(Feed(d, t), x)

LEMMA FeedAppend ==
  ASSUME NEW S, NEW d, Holds(S, d), NEW t \in Seq(S), NEW x \in S
  PROVE  FedMore(d, t, x)
<1>0. d.buf \in Seq(S) /\ d.pending \in Seq(S)
  BY DEF Holds
<1>1. PICK N \in Nat : N = Len(t)
  OBVIOUS
<1>2. PICK u \in Seq(S) : u = Append(t, x)
  BY AppendProperties
<1>3. Len(u) = N + 1 /\ u[N + 1] = x /\ \A i \in 1 .. N : u[i] = t[i]
  BY <1>1, <1>2
<1>4. PICK A : Runs(A, N, Decoding(S), Fresh(d), Feeds(t, S), Feed(d, t))
  BY <1>0, <1>1, FeedRuns
<1>5. PICK B : Runs(B, N + 1, Decoding(S), Fresh(d), Feeds(u, S), Feed(d, u))
  BY <1>0, <1>3, FeedRuns
<1>6. \A k \in 1 .. N : Feeds(u, S)[k] = Feeds(t, S)[k]
  BY <1>1, <1>3 DEF Feeds
<1>7. Feed(d, t) \in Decoding(S) /\ Feed(d, u) = Feeds(u, S)[N + 1][Feed(d, t)]
  BY <1>4, <1>5, <1>6, RunsAppend
<1>8. Feeds(u, S)[N + 1][Feed(d, t)] = FeedSymbol(Feed(d, t), x)
  BY <1>3, <1>7 DEF Feeds
<1>9. QED
  BY <1>2, <1>7, <1>8 DEF FedMore

\* A decoder that has put out o before what d has.
Joined(o, d) == [buf |-> d.buf, pending |-> d.pending, out |-> Cat(o, d.out)]

LEMMA JoinedTyped ==
  ASSUME NEW S, NEW o \in Seq(S), NEW d \in Decoding(S)
  PROVE  Joined(o, d) \in Decoding(S)
  BY CatTyped DEF Joined, Decoding

\* What was put out before makes no difference to a symbol.
LEMMA JoinedFeeds ==
  ASSUME NEW S, NEW o \in Seq(S), NEW d \in Decoding(S), NEW x \in S
  PROVE  FeedSymbol(Joined(o, d), x) = Joined(o, FeedSymbol(d, x))
<1>1. /\ d.buf \in Seq(S) /\ d.pending \in Seq(S) /\ d.out \in Seq(S)
      /\ d = [buf |-> d.buf, pending |-> d.pending, out |-> d.out]
  BY DEF Decoding
<1>2. PICK e : e = Joined(o, d)
  OBVIOUS
<1>3. /\ e = [buf |-> d.buf, pending |-> d.pending, out |-> Cat(o, d.out)]
      /\ e.buf = d.buf /\ e.pending = d.pending /\ e.out = Cat(o, d.out)
  BY <1>2 DEF Joined
<1>4. PICK line \in Seq(S) : line = StripCR(d.buf)
  BY <1>1, StripTyped
<1>5. CASE x = LF /\ line = <<>>
  <2>1. FeedSymbol(d, x) = [buf |-> <<>>, pending |-> <<>>, out |-> Cat(d.out, d.pending)]
    BY <1>1, <1>4, <1>5 DEF FeedSymbol, HandleLine, Cat
  <2>2. FeedSymbol(e, x) = [buf |-> <<>>, pending |-> <<>>, out |-> Cat(e.out, e.pending)]
    BY <1>3, <1>4, <1>5 DEF FeedSymbol, HandleLine, Cat
  <2>3. Cat(Cat(o, d.out), d.pending) = Cat(o, Cat(d.out, d.pending))
    BY <1>1, CatAssoc
  <2>4. QED
    BY <1>2, <1>3, <2>1, <2>2, <2>3 DEF Joined
<1>6. CASE x = LF /\ line # <<>>
  <2>1. PICK t \in Seq(S) : t = Tail(line)
    BY <1>6, HeadTailProperties
  <2>2. PICK p \in Seq(S) : p = IF Head(line) = DataPrefix THEN Cat(d.pending, t) ELSE d.pending
    BY <1>1, CatTyped
  <2>3. FeedSymbol(d, x) = [buf |-> <<>>, pending |-> p, out |-> d.out]
    BY <1>1, <1>4, <1>6, <2>1, <2>2 DEF FeedSymbol, HandleLine, Cat
  <2>4. FeedSymbol(e, x) = [buf |-> <<>>, pending |-> p, out |-> Cat(o, d.out)]
    BY <1>3, <1>4, <1>6, <2>1, <2>2 DEF FeedSymbol, HandleLine, Cat
  <2>5. QED
    BY <1>2, <2>3, <2>4 DEF Joined
<1>7. CASE x # LF
  <2>1. PICK b \in Seq(S) : b = Append(d.buf, x)
    BY <1>1, AppendProperties
  <2>2. FeedSymbol(d, x) = [buf |-> b, pending |-> d.pending, out |-> d.out]
    BY <1>1, <1>7, <2>1 DEF FeedSymbol
  <2>3. FeedSymbol(e, x) = [buf |-> b, pending |-> d.pending, out |-> Cat(o, d.out)]
    BY <1>3, <1>7, <2>1 DEF FeedSymbol
  <2>4. QED
    BY <1>2, <2>2, <2>3 DEF Joined
<1>8. QED
  BY <1>5, <1>6, <1>7

\* Feeding two chunks is feeding them as one; f is the decoder between them.
FedInTwo(d, s, t, f) == Feed(d, Cat(s, t)) = Joined(f.out, Feed(f, t))

\* Bytes that come in two lots give the data they give at once.
LEMMA FeedInTwo ==
  ASSUME NEW S, NEW d, Holds(S, d),
         NEW s \in Seq(S), NEW t \in Seq(S), NEW f, f = Feed(d, s)
  PROVE  FedInTwo(d, s, t, f)
<1>0. d.buf \in Seq(S) /\ d.pending \in Seq(S)
  BY DEF Holds
<1> DEFINE C == {u \in Seq(S) : Feed(d, Cat(s, u)) = Joined(f.out, Feed(f, u))}
<1>1. /\ f \in Decoding(S) /\ f.buf \in Seq(S) /\ f.pending \in Seq(S) /\ f.out \in Seq(S)
      /\ f = [buf |-> f.buf, pending |-> f.pending, out |-> f.out]
  BY <1>0, FeedTyped DEF Decoding
<1>2. <<>> \in C
  <2>1. Feed(f, <<>>) = Fresh(f)
    BY <1>1, FeedEmpty
  <2>2. Cat(f.out, <<>>) = f.out /\ Cat(s, <<>>) = s
    BY <1>1, CatEmpty
  <2>3. Joined(f.out, Fresh(f)) = [buf |-> f.buf, pending |-> f.pending, out |-> f.out]
    BY <2>2 DEF Joined, Fresh
  <2>4. <<>> \in Seq(S)
    OBVIOUS
  <2>5. QED
    BY <1>1, <2>1, <2>2, <2>3, <2>4
<1>3. ASSUME NEW u \in Seq(S), NEW x \in S, u \in C PROVE Append(u, x) \in C
  <2>1. PICK v \in Seq(S) : v = Cat(s, u)
    BY CatTyped
  <2>2. PICK g \in Decoding(S) : g = Feed(f, u)
    BY <1>1, FeedTyped
  <2>3. Feed(d, v) = Joined(f.out, g)
    BY <1>3, <2>1, <2>2
  <2>4. Cat(s, Append(u, x)) = Append(v, x)
    <3>1. Cat(s, Append(u, x)) = Append(Cat(s, u), x)
      BY CatAppend
    <3>2. QED
      BY <2>1, <3>1
  <2>5. Feed(d, Append(v, x)) = FeedSymbol(Joined(f.out, g), x)
    <3>1. Feed(d, Append(v, x)) = FeedSymbol(Feed(d, v), x)
      <4>1. FedMore(d, v, x)
        BY FeedAppend
      <4>2. QED
        BY <4>1 DEF FedMore
    <3>2. QED
      BY <2>3, <3>1
  <2>6. FeedSymbol(Joined(f.out, g), x) = Joined(f.out, FeedSymbol(g, x))
    BY <1>1, JoinedFeeds
  <2>7. Feed(f, Append(u, x)) = FeedSymbol(g, x)
    <3>1. Feed(f, Append(u, x)) = FeedSymbol(Feed(f, u), x)
      <4>1. FedMore(f, u, x)
        BY <1>1, FeedAppend DEF Holds
      <4>2. QED
        BY <4>1 DEF FedMore
    <3>2. QED
      BY <2>2, <3>1
  <2>8. Append(u, x) \in Seq(S)
    BY AppendProperties
  <2>9. QED
    BY <2>4, <2>5, <2>6, <2>7, <2>8
<1>4. t \in C
  <2> HIDE DEF C
  <2>1. QED
    BY <1>2, <1>3, SeqGrows
<1>5. QED
  BY <1>4 DEF FedInTwo

\* Feeding depends on nothing but what the decoder holds.
FeedFrom(buf, pending, chunk) ==
  FoldLeft(FeedSymbol, [buf |-> buf, pending |-> pending, out |-> <<>>], chunk)

LEMMA FeedFromHeld == \A d, chunk : Feed(d, chunk) = FeedFrom(d.buf, d.pending, chunk)
  BY DEF Feed, FeedFrom

\* A holds the first of the sequences ss, one after another.
Strings(A, S, ss) ==
  /\ A \in [0 .. Len(ss) -> Seq(S)]
  /\ A[0] = <<>> /\ A[Len(ss)] = FlattenSeq(ss)
  /\ \A k \in 1 .. Len(ss) : A[k] = Cat(A[k - 1], ss[k])

\* Sequences are put one after another, each behind those before it.
LEMMA FlattenRuns ==
  ASSUME NEW S, NEW ss \in Seq(Seq(S))
  PROVE  \E A : Strings(A, S, ss)
<1>1. PICK N \in Nat : N = Len(ss)
  OBVIOUS
<1>2. DOMAIN ss = 1 .. N /\ \A n \in 1 .. N : ss[n] \in Seq(S)
  BY <1>1
<1>3. CASE N = 0
  <2>1. ss = <<>>
    <3>1. PICK T : T = Seq(S)
      OBVIOUS
    <3>2. ss \in Seq(T) /\ Len(ss) = 0
      BY <1>1, <1>3, <3>1
    <3>3. QED
      BY <3>2, EmptySeq
  <2>2. <<>> \in Seq(S) /\ Len(<<>>) = 0 /\ FlattenSeq(<<>>) = <<>>
    BY DEF FlattenSeq
  <2>3. Strings([k \in 0 .. 0 |-> <<>>], S, <<>>)
    BY <2>2 DEF Strings
  <2>4. QED
    BY <2>1, <2>3
<1>4. CASE N # 0
  <2>1. PICK V, b : V = Seq(S) /\ b = <<>>
    OBVIOUS
  <2> DEFINE P(f) == f = [i \in 1 .. Len(ss) |-> IF i = 1 THEN ss[i] ELSE f[i - 1] \o ss[i]]
             F == CHOOSE f : P(f)
             G == [n \in 1 .. N |-> [a \in V |-> IF n = 1 THEN ss[n] ELSE Cat(a, ss[n])]]
  <2>2. b \in V /\ \A a \in V, n \in 1 .. N :
          ss[n] \in V /\ Cat(a, ss[n]) \in V
    BY <1>2, <2>1, CatTyped
  <2>3. Steps(G, N, V)
    BY <2>2 DEF Steps
  <2>4. PICK it : Solves(it, N, V, b, G)
    <3> HIDE DEF G
    <3>1. QED
      BY <2>2, <2>3, FoldSolution
  <2>5. Unfolds(it, N, V, b, G)
    <3> HIDE DEF G
    <3>1. QED
      BY <2>4 DEF Solves, Unfolds
  <2>6. PICK A : Runs(A, N, V, b, G, it[1 .. N])
    <3> HIDE DEF G
    <3>1. QED
      BY <2>2, <2>3, <2>5, FoldRuns
  <2>7. /\ A \in [0 .. N -> V]
        /\ \A k \in 1 .. N : A[k] = G[k][A[k - 1]]
    BY <2>6 DEF Runs
  <2>8. ASSUME NEW k \in 1 .. N
        PROVE  A[k] \in V /\ A[k] = IF k = 1 THEN ss[k] ELSE Cat(A[k - 1], ss[k])
    <3>1. k - 1 \in 0 .. N /\ k \in 0 .. N
      OBVIOUS
    <3>2. A[k - 1] \in V
      BY <2>7, <3>1
    <3>3. QED
      BY <2>7, <3>1, <3>2
  <2> DEFINE g == [i \in 1 .. N |-> A[i]]
  <2>9. P(g)
    <3>1. ASSUME NEW k \in 1 .. N
          PROVE  A[k] = IF k = 1 THEN ss[k] ELSE g[k - 1] \o ss[k]
      <4>1. CASE k = 1
        BY <2>8, <4>1
      <4>2. CASE k # 1
        <5>1. k - 1 \in 1 .. N
          BY <4>2
        <5>2. g[k - 1] = A[k - 1]
          BY <5>1
        <5>3. QED
          BY <2>8, <4>2, <5>2 DEF Cat
      <4>3. QED
        BY <4>1, <4>2
    <3>2. QED
      BY <1>1, <3>1
  <2>10. P(F)
    <3> HIDE DEF P
    <3>1. QED
      BY <2>9
  <2>11. FlattenSeq(ss) = F[N]
    BY <1>1, <1>4 DEF FlattenSeq
  <2> DEFINE B == {n \in 1 .. N : F[n] # A[n]}
  <2> HIDE DEF F
  <2>12. \A n \in 1 .. N : F[n] = IF n = 1 THEN ss[n] ELSE Cat(F[n - 1], ss[n])
    BY <1>1, <2>10 DEF Cat
  <2> HIDE DEF P, g, G
  <2>13. B = {}
    <3> SUFFICES ASSUME B # {} PROVE FALSE
      OBVIOUS
    <3>1. B \subseteq Nat
      OBVIOUS
    <3>2. PICK n \in B : \A m \in B : n <= m
      <4> HIDE DEF B
      <4>1. QED
        BY <3>1, LeastNumber
    <3>3. n \in 1 .. N /\ F[n] # A[n]
      OBVIOUS
    <3>4. n # 1
      BY <2>8, <2>12, <3>3
    <3>5. n - 1 \in 1 .. N /\ ~(n <= n - 1)
      BY <3>3, <3>4
    <3>6. F[n - 1] = A[n - 1]
      BY <3>2, <3>5
    <3>7. QED
      BY <2>8, <2>12, <3>3, <3>4, <3>6
  <2>14. F[N] = A[N]
    <3>1. N \in 1 .. N
      BY <1>4
    <3>2. QED
      BY <2>13, <3>1
  <2>15. A \in [0 .. N -> Seq(S)] /\ A[0] = <<>>
    BY <2>1, <2>6 DEF Runs
  <2>16. ASSUME NEW k \in 1 .. N PROVE A[k] = Cat(A[k - 1], ss[k])
    <3>1. CASE k = 1
      <4>1. A[k - 1] = <<>> /\ A[k] = ss[k] /\ ss[k] \in Seq(S)
        BY <1>2, <2>8, <2>15, <3>1
      <4>2. Cat(<<>>, ss[k]) = ss[k]
        BY <4>1, NothingBefore
      <4>3. QED
        BY <4>1, <4>2
    <3>2. CASE k # 1
      BY <2>8, <3>2
    <3>3. QED
      BY <3>1, <3>2
  <2> HIDE DEF B
  <2>17. Strings(A, S, ss)
    BY <1>1, <2>11, <2>14, <2>15, <2>16 DEF Strings
  <2>18. QED
    BY <2>17
<1>5. QED
  BY <1>3, <1>4

\* Sequences of S one after another are one of S.
LEMMA FlattenTyped ==
  ASSUME NEW S, NEW ss \in Seq(Seq(S))
  PROVE  FlattenSeq(ss) \in Seq(S)
<1>1. Len(ss) \in Nat /\ Len(ss) \in 0 .. Len(ss)
  OBVIOUS
<1>2. PICK A : Strings(A, S, ss)
  BY FlattenRuns
<1>3. QED
  BY <1>1, <1>2 DEF Strings

\* The body of a reply is made of its symbols.
LEMMA BodyTyped ==
  ASSUME NEW r, r.events \in Seq(ChatEvents)
  PROVE  Body(r) \in Seq(Symbols(r))
<1> DEFINE S == Symbols(r)
           frame(x) == <<DataPrefix, x>> \o Break(r) \o Break(r)
           ping == IF r.ping THEN <<Sym("comment", 0)>> \o Break(r) \o Break(r) ELSE <<>>
           frames == [i \in DOMAIN r.events |-> frame(Sym("event", i))]
           end == IF r.done THEN frame(Sym("done", 0)) ELSE <<>>
<1>1. /\ LF \in S /\ CR \in S /\ DataPrefix \in S /\ Sym("comment", 0) \in S
      /\ Sym("done", 0) \in S /\ \A i \in DOMAIN r.events : Sym("event", i) \in S
  BY DEF Symbols
<1> HIDE DEF S
<1>2. PICK br \in Seq(S) : br = Break(r)
  <2>1. <<LF>> \in Seq(S) /\ <<CR, LF>> \in Seq(S)
    BY <1>1
  <2>2. QED
    BY <2>1 DEF Break
<1>3. ASSUME NEW x \in S PROVE frame(x) \in Seq(S)
  <2>1. PICK h \in Seq(S) : h = <<DataPrefix, x>>
    <3>1. PICK a \in S : a = DataPrefix
      BY <1>1
    <3>2. <<a, x>> \in Seq(S)
      OBVIOUS
    <3>3. QED
      BY <3>1, <3>2
  <2>2. Cat(Cat(h, br), br) \in Seq(S)
    BY CatTyped
  <2>3. QED
    BY <1>2, <2>1, <2>2 DEF Cat
<1>4. PICK p \in Seq(S) : p = ping
  <2>1. PICK h \in Seq(S) : h = <<Sym("comment", 0)>>
    <3>1. PICK a \in S : a = Sym("comment", 0)
      BY <1>1
    <3>2. <<a>> \in Seq(S)
      OBVIOUS
    <3>3. QED
      BY <3>1, <3>2
  <2>2. Cat(Cat(h, br), br) \in Seq(S) /\ <<>> \in Seq(S)
    BY CatTyped
  <2>3. QED
    BY <1>2, <2>1, <2>2 DEF Cat
<1>5. PICK e \in Seq(S) : e = end
  <2>1. <<>> \in Seq(S)
    OBVIOUS
  <2>2. frame(Sym("done", 0)) \in Seq(S)
    BY <1>1, <1>3
  <2>3. QED
    BY <2>1, <2>2
<1> HIDE DEF frame
<1>6. frames \in Seq(Seq(S))
  <2>1. PICK n \in Nat : n = Len(r.events)
    OBVIOUS
  <2>2. DOMAIN r.events = 1 .. n
    BY <2>1
  <2>3. frames \in [1 .. n -> Seq(S)]
    BY <1>1, <1>3, <2>2
  <2> HIDE DEF frames
  <2>4. QED
    BY <2>3, SeqDef
<1>7. PICK m \in Seq(S) : m = FlattenSeq(frames)
  <2> HIDE DEF frames
  <2>1. QED
    BY <1>6, FlattenTyped
<1>8. Body(r) = Cat(Cat(p, m), e)
  BY <1>4, <1>5, <1>7 DEF Body, Cat, frame
<1>9. Cat(Cat(p, m), e) \in Seq(S)
  BY CatTyped
<1>10. QED
  BY <1>8, <1>9 DEF S

-----------------------------------------------------------------------------
(* What the body of a reply decodes into.                                   *)

\* A decoder that holds nothing, and one that has put out o as well.
Gone(o) == [buf |-> <<>>, pending |-> <<>>, out |-> o]

\* A decoder that holds nothing holds nothing after c, and puts out o.
Gives(c, o) == Feed(NewDecoder, c) = Gone(o)

\* A new decoder holds nothing.
LEMMA NewHolds == \A S : Holds(S, NewDecoder)
<1> SUFFICES ASSUME NEW S PROVE Holds(S, NewDecoder)
  OBVIOUS
<1>1. <<>> \in Seq(S)
  OBVIOUS
<1>2. QED
  BY <1>1 DEF Holds, NewDecoder

LEMMA GivesNothing == Gives(<<>>, <<>>)
<1>1. Feed(NewDecoder, <<>>) = Fresh(NewDecoder)
  <2>1. NewDecoder.buf \in Seq({}) /\ NewDecoder.pending \in Seq({})
    BY NewHolds DEF Holds
  <2>2. QED
    BY <2>1, FeedEmpty
<1>2. NewDecoder.buf = <<>> /\ NewDecoder.pending = <<>>
  BY DEF NewDecoder
<1>3. QED
  BY <1>1, <1>2 DEF Gives, Gone, Fresh

\* What two pieces give, one after the other.
LEMMA GivesBoth ==
  ASSUME NEW S, NEW a \in Seq(S), NEW b \in Seq(S), NEW o \in Seq(S), NEW q \in Seq(S),
         Gives(a, o), Gives(b, q)
  PROVE  Gives(Cat(a, b), Cat(o, q))
<1>1. PICK f : f = Feed(NewDecoder, a) /\ f = Gone(o)
  BY DEF Gives
<1>2. FedInTwo(NewDecoder, a, b, f)
  BY <1>1, NewHolds, FeedInTwo
<1>3. f.buf = <<>> /\ f.pending = <<>> /\ f.out = o
  BY <1>1 DEF Gone
<1>4. NewDecoder.buf = <<>> /\ NewDecoder.pending = <<>>
  BY DEF NewDecoder
<1>5. Feed(f, b) = Feed(NewDecoder, b)
  BY <1>3, <1>4, FeedFromHeld
<1>6. Feed(f, b) = Gone(q)
  BY <1>5 DEF Gives
<1>7. PICK g : g = Gone(q)
  OBVIOUS
<1>8. g.buf = <<>> /\ g.pending = <<>> /\ g.out = q
  BY <1>7 DEF Gone
<1>9. Feed(NewDecoder, Cat(a, b)) = Joined(o, g)
  BY <1>2, <1>3, <1>6, <1>7 DEF FedInTwo
<1>10. Joined(o, g) = [buf |-> <<>>, pending |-> <<>>, out |-> Cat(o, q)]
  BY <1>8 DEF Joined
<1>11. Feed(NewDecoder, Cat(a, b)) = [buf |-> <<>>, pending |-> <<>>, out |-> Cat(o, q)]
  BY <1>9, <1>10
<1>12. QED
  BY <1>11 DEF Gives, Gone

\* A line that does not end with CR, with or without the CR of its break.
LEMMA StripOne ==
  ASSUME NEW S, NEW l \in Seq(S), CR \in S
  PROVE  StripCR(Append(l, CR)) = l
<1>1. PICK n \in Nat : n = Len(l)
  OBVIOUS
<1>2. PICK m \in Seq(S) : m = Append(l, CR)
  BY AppendProperties
<1>3. Len(m) = n + 1 /\ m[n + 1] = CR /\ \A i \in 1 .. n : m[i] = l[i]
  BY <1>1, <1>2, AppendProperties
<1>4. m # <<>> /\ Last(m) = CR
  BY <1>3 DEF Last
<1>5. Front(m) = SubSeq(m, 1, n)
  BY <1>3 DEF Front
<1>6. PICK v \in Seq(S) : v = SubSeq(m, 1, n) /\ Len(v) = n /\ \A i \in 1 .. n : v[i] = m[i]
  BY <1>1, <1>3, SubSeqProperties
<1>7. v = l
  BY <1>1, <1>3, <1>6, SeqEqual
<1>8. QED
  BY <1>2, <1>4, <1>5, <1>6, <1>7 DEF StripCR

Held(b, p, o) == [buf |-> b, pending |-> p, out |-> o]

LEMMA HeldHas == \A b, p, o : LET d == Held(b, p, o) IN d.buf = b /\ d.pending = p /\ d.out = o
  BY DEF Held

\* What a line break does to a decoder that holds the line l.
Breaks(r, l, p, q, o) == Feed(Held(l, p, <<>>), Break(r)) = Held(<<>>, q, o)

\* A line break completes the line the decoder holds.
LEMMA BreakFed ==
  ASSUME NEW r, NEW S, LF \in S, CR \in S, NEW l \in Seq(S), StripCR(l) = l,
         NEW p \in Seq(S), NEW q, NEW o,
         \A b : HandleLine(Held(b, p, <<>>), l) = Held(b, q, o)
  PROVE  Breaks(r, l, p, q, o)
<1>1. CR # LF
  BY DEF CR, LF, Sym
<1>2. PICK e \in Seq(S) : e = <<>>
  <2>1. <<>> \in Seq(S)
    OBVIOUS
  <2>2. QED
    BY <2>1
<1>3. PICK g : g = Held(l, p, <<>>)
  OBVIOUS
<1>4. Holds(S, g) /\ g.buf = l /\ g.pending = p /\ g.buf \in Seq(S) /\ g.pending \in Seq(S)
  BY <1>3 DEF Holds, Held
<1>5. Feed(g, e) = g
  <2>1. Feed(g, <<>>) = Fresh(g)
    BY <1>4, FeedEmpty
  <2>2. QED
    BY <1>2, <1>3, <1>4, <2>1 DEF Fresh, Held
<1>6. ASSUME NEW b, NEW k, k = Held(b, p, <<>>), StripCR(b) = l
      PROVE  FeedSymbol(k, LF) = Held(<<>>, q, o)
  <2>1. k.buf = b
    BY <1>6 DEF Held
  <2>2. HandleLine(k, l) = Held(b, q, o)
    BY <1>6
  <2>3. FeedSymbol(k, LF) = [HandleLine(k, StripCR(k.buf)) EXCEPT !.buf = <<>>]
    BY DEF FeedSymbol
  <2>4. FeedSymbol(k, LF) = [Held(b, q, o) EXCEPT !.buf = <<>>]
    BY <1>6, <2>1, <2>2, <2>3
  <2>5. QED
    BY <2>4 DEF Held
<1>7. CASE ~r.crlf
  <2>1. FedMore(g, e, LF)
    BY <1>4, FeedAppend
  <2>2. Feed(g, Append(e, LF)) = FeedSymbol(g, LF)
    BY <1>5, <2>1 DEF FedMore
  <2>3. Break(r) = Append(e, LF)
    BY <1>2, <1>7 DEF Break
  <2>4. FeedSymbol(g, LF) = Held(<<>>, q, o)
    BY <1>3, <1>6
  <2>5. QED
    BY <1>3, <2>2, <2>3, <2>4 DEF Breaks
<1>8. CASE r.crlf
  <2>1. PICK c \in Seq(S) : c = Append(e, CR)
    BY AppendProperties
  <2>2. FedMore(g, e, CR)
    BY <1>4, FeedAppend
  <2>3. FedMore(g, c, LF)
    BY <1>4, FeedAppend
  <2>4. Break(r) = Append(c, LF)
    BY <1>2, <1>8, <2>1 DEF Break
  <2>5. PICK m \in Seq(S) : m = Append(l, CR)
    BY AppendProperties
  <2>6. FeedSymbol(g, CR) = Held(m, p, <<>>)
    BY <1>1, <1>3, <1>4, <2>5 DEF FeedSymbol, Held
  <2>7. PICK k : k = Held(m, p, <<>>) /\ k = Feed(g, c)
    BY <1>5, <2>1, <2>2, <2>6 DEF FedMore
  <2>8. FeedSymbol(k, LF) = Held(<<>>, q, o)
    BY <1>6, <2>5, <2>7, StripOne
  <2>9. Feed(g, Append(c, LF)) = FeedSymbol(Feed(g, c), LF)
    BY <2>3 DEF FedMore
  <2>10. QED
    BY <1>3, <2>4, <2>7, <2>8, <2>9 DEF Breaks
<1>9. QED
  BY <1>7, <1>8

\* Two line breaks behind a line without one: the first completes the line, the
\* second puts out what it carries, o.
LEMMA LineGives ==
  ASSUME NEW r, NEW S, LF \in S, CR \in S, NEW line \in Seq(S), line # <<>>, Last(line) # CR,
         NEW o \in Seq(S), o = (IF Head(line) = DataPrefix THEN Tail(line) ELSE <<>>),
         Feed(NewDecoder, line) = Held(line, <<>>, <<>>)
  PROVE  Gives(Cat(Cat(line, Break(r)), Break(r)), o)
<1>1. PICK e \in Seq(S) : e = <<>>
  <2>1. <<>> \in Seq(S)
    OBVIOUS
  <2>2. QED
    BY <2>1
<1>2. StripCR(line) = line /\ StripCR(e) = e
  BY <1>1 DEF StripCR
<1>3. ASSUME NEW b PROVE HandleLine(Held(b, e, <<>>), line) = Held(b, o, e)
  <2>1. CASE Head(line) = DataPrefix
    <3>1. o = Tail(line) /\ Cat(e, o) = o
      BY <1>1, <2>1, NothingBefore
    <3>2. HandleLine(Held(b, e, <<>>), line) = [Held(b, e, <<>>) EXCEPT !.pending = Cat(@, Tail(line))]
      BY <2>1 DEF HandleLine, Cat
    <3>3. QED
      BY <1>1, <3>1, <3>2 DEF Held
  <2>2. CASE Head(line) # DataPrefix
    BY <1>1, <2>2 DEF HandleLine, Held
  <2>3. QED
    BY <2>1, <2>2
<1>4. ASSUME NEW b PROVE HandleLine(Held(b, o, <<>>), e) = Held(b, e, o)
  <2>1. Cat(e, o) = o
    BY <1>1, NothingBefore
  <2>2. HandleLine(Held(b, o, <<>>), e) =
          [Held(b, o, <<>>) EXCEPT !.pending = e, !.out = Cat(@, Held(b, o, <<>>).pending)]
    BY <1>1 DEF HandleLine, Cat
  <2>3. QED
    BY <1>1, <2>1, <2>2 DEF Held
<1>5. PICK br \in Seq(S) : br = Break(r)
  <2>1. <<LF>> \in Seq(S) /\ <<CR, LF>> \in Seq(S)
    OBVIOUS
  <2>2. QED
    BY <2>1 DEF Break
<1>6. Feed(Held(line, e, e), br) = Held(e, o, e)
  <2>1. Breaks(r, line, e, o, e)
    BY <1>2, <1>3, BreakFed
  <2>2. QED
    BY <1>1, <1>5, <2>1 DEF Breaks
<1>7. Feed(Held(e, o, e), br) = Held(e, e, o)
  <2>1. Breaks(r, e, o, e, o)
    BY <1>2, <1>4, BreakFed
  <2>2. QED
    BY <1>1, <1>5, <2>1 DEF Breaks
<1>8. PICK f : f = Feed(NewDecoder, line) /\ f = Held(line, e, e)
  BY <1>1
<1>9. PICK lb \in Seq(S) : lb = Cat(line, br)
  BY CatTyped
<1>10. PICK g : g = Held(e, o, e) /\ g.out = e /\ g.buf = e /\ g.pending = o
  BY HeldHas
<1>11. Feed(NewDecoder, lb) = g
  <2>1. FedInTwo(NewDecoder, line, br, f)
    BY <1>8, NewHolds, FeedInTwo
  <2>2. Feed(NewDecoder, lb) = Joined(f.out, g)
    BY <1>6, <1>8, <1>9, <1>10, <2>1 DEF FedInTwo
  <2>3. f.out = e /\ Cat(e, e) = e
    <3>1. f.out = e
      BY <1>8, HeldHas
    <3>2. Cat(<<>>, e) = e
      BY NothingBefore
    <3>3. QED
      BY <1>1, <3>1, <3>2
  <2>4. QED
    BY <1>1, <1>10, <2>2, <2>3 DEF Joined, Held
<1>12. Feed(g, br) = Held(e, e, o)
  BY <1>1, <1>7, <1>10
<1>13. FedInTwo(NewDecoder, lb, br, g)
  BY <1>11, NewHolds, FeedInTwo
<1>14. PICK h : h = Held(e, e, o) /\ h.out = o /\ h.buf = e /\ h.pending = e
  BY HeldHas
<1>15. Feed(NewDecoder, Cat(lb, br)) = Joined(e, h)
  BY <1>10, <1>12, <1>13, <1>14 DEF FedInTwo
<1>16. Joined(e, h) = Held(<<>>, <<>>, o)
  <2>1. Cat(e, o) = o
    BY <1>1, NothingBefore
  <2>2. QED
    BY <1>1, <1>14, <2>1 DEF Joined, Held
<1>17. Feed(NewDecoder, Cat(lb, br)) = Gone(o)
  BY <1>15, <1>16 DEF Gone, Held
<1>18. QED
  BY <1>5, <1>9, <1>17 DEF Gives

\* The five kinds of symbols are different ones.
LEMMA SymbolsDiffer ==
  \A i : /\ Sym("event", i) \notin {LF, CR, DataPrefix} /\ Sym("done", 0) \notin {LF, CR, DataPrefix}
         /\ Sym("comment", 0) \notin {LF, CR, DataPrefix}
         /\ DataPrefix # LF /\ DataPrefix # CR /\ CR # LF
<1> SUFFICES ASSUME NEW i
             PROVE  /\ Sym("event", i) \notin {LF, CR, DataPrefix}
                    /\ Sym("done", 0) \notin {LF, CR, DataPrefix}
                    /\ Sym("comment", 0) \notin {LF, CR, DataPrefix}
                    /\ DataPrefix # LF /\ DataPrefix # CR /\ CR # LF
  OBVIOUS
<1>1. Sym("event", i).s = "event" /\ Sym("done", 0).s = "done" /\ Sym("comment", 0).s = "comment"
  BY DEF Sym
<1>2. LF.s = "LF" /\ CR.s = "CR" /\ DataPrefix.s = "data"
  BY DEF LF, CR, DataPrefix, Sym
<1>3. QED
  BY <1>1, <1>2

\* A data line with the symbol x, and the blank line behind it.
Frame(r, x) == <<DataPrefix, x>> \o Break(r) \o Break(r)

Ping(r) == IF r.ping THEN <<Sym("comment", 0)>> \o Break(r) \o Break(r) ELSE <<>>

\* One symbol, fed to a new decoder or to one that holds some.
LEMMA SymbolHeld ==
  ASSUME NEW S, NEW l \in Seq(S), NEW x \in S, x # LF, Feed(NewDecoder, l) = Held(l, <<>>, <<>>)
  PROVE  Feed(NewDecoder, Append(l, x)) = Held(Append(l, x), <<>>, <<>>)
<1>1. FedMore(NewDecoder, l, x)
  BY NewHolds, FeedAppend
<1>2. PICK m \in Seq(S) : m = Append(l, x)
  BY AppendProperties
<1>3. PICK d : d = Held(l, <<>>, <<>>)
  OBVIOUS
<1>4. FeedSymbol(d, x) = Held(m, <<>>, <<>>)
  BY <1>2, <1>3 DEF FeedSymbol, Held
<1>5. QED
  BY <1>1, <1>2, <1>3, <1>4 DEF FedMore

\* A whole frame gives its datum and leaves nothing behind.
LEMMA FrameGives ==
  ASSUME NEW r, NEW S, LF \in S, CR \in S, DataPrefix \in S,
         NEW x \in S, x # LF, x # CR
  PROVE  Frame(r, x) \in Seq(S) /\ Gives(Frame(r, x), <<x>>)
<1>1. PICK e \in Seq(S) : e = <<>>
  <2>1. <<>> \in Seq(S)
    OBVIOUS
  <2>2. QED
    BY <2>1
<1>2. Feed(NewDecoder, e) = Held(e, <<>>, <<>>)
  BY <1>1, GivesNothing DEF Gives, Gone, Held
<1>3. PICK d \in Seq(S) : d = Append(e, DataPrefix)
  BY AppendProperties
<1>4. Feed(NewDecoder, d) = Held(d, <<>>, <<>>)
  BY <1>2, <1>3, SymbolHeld, SymbolsDiffer
<1>5. PICK l \in Seq(S) : l = Append(d, x)
  BY AppendProperties
<1>6. Feed(NewDecoder, l) = Held(l, <<>>, <<>>)
  BY <1>4, <1>5, SymbolHeld
<1>7. l = <<DataPrefix, x>>
  <2>1. Len(e) = 0
    BY <1>1
  <2>2. Len(d) = 1 /\ d[1] = DataPrefix
    BY <1>3, <2>1
  <2>3. Len(l) = 2 /\ l[1] = DataPrefix /\ l[2] = x
    <3>1. /\ Len(l) = Len(d) + 1 /\ l[Len(d) + 1] = x
          /\ \A i \in 1 .. Len(d) : l[i] = d[i]
      BY <1>5, AppendProperties
    <3>2. 1 \in 1 .. 1 /\ 1 + 1 = 2
      OBVIOUS
    <3>3. QED
      BY <2>2, <3>1, <3>2
  <2>4. PICK u \in Seq(S) : u = <<DataPrefix, x>>
    <3>1. <<DataPrefix, x>> \in Seq(S)
      OBVIOUS
    <3>2. QED
      BY <3>1
  <2>5. Len(u) = 2 /\ u[1] = DataPrefix /\ u[2] = x
    BY <2>4
  <2>6. \A i \in 1 .. 2 : i = 1 \/ i = 2
    OBVIOUS
  <2>7. \A i \in 1 .. 2 : l[i] = u[i]
    BY <2>3, <2>5, <2>6
  <2>8. l = u
    BY <2>3, <2>5, <2>7, SeqEqual
  <2>9. QED
    BY <2>4, <2>8
<1>8. PICK o \in Seq(S) : o = <<x>>
  <2>1. <<x>> \in Seq(S)
    OBVIOUS
  <2>2. QED
    BY <2>1
<1>9. l # <<>> /\ Last(l) = x /\ Head(l) = DataPrefix /\ Tail(l) = o
  BY <1>7, <1>8 DEF Last
<1>10. o = (IF Head(l) = DataPrefix THEN Tail(l) ELSE <<>>)
  BY <1>9
<1>11. Gives(Cat(Cat(l, Break(r)), Break(r)), o)
  BY <1>6, <1>9, <1>10, LineGives
<1>12. PICK br \in Seq(S) : br = Break(r)
  <2>1. <<LF>> \in Seq(S) /\ <<CR, LF>> \in Seq(S)
    OBVIOUS
  <2>2. QED
    BY <2>1 DEF Break
<1>13. PICK h \in Seq(S) : h = Cat(l, br)
  BY CatTyped
<1>14. PICK w \in Seq(S) : w = Cat(h, br)
  BY CatTyped
<1>15. Frame(r, x) = Cat(Cat(l, Break(r)), Break(r))
  BY <1>7 DEF Frame, Cat
<1>16. QED
  BY <1>8, <1>11, <1>12, <1>13, <1>14, <1>15

\* A comment gives nothing.
LEMMA PingGives ==
  ASSUME NEW r, NEW S, LF \in S, CR \in S, Sym("comment", 0) \in S
  PROVE  Ping(r) \in Seq(S) /\ Gives(Ping(r), <<>>)
<1>1. PICK e \in Seq(S) : e = <<>>
  <2>1. <<>> \in Seq(S)
    OBVIOUS
  <2>2. QED
    BY <2>1
<1>2. CASE ~r.ping
  BY <1>1, <1>2, GivesNothing DEF Ping
<1>3. CASE r.ping
  <2>1. Feed(NewDecoder, e) = Held(e, <<>>, <<>>)
    BY <1>1, GivesNothing DEF Gives, Gone, Held
  <2>2. PICK x \in S : x = Sym("comment", 0)
    OBVIOUS
  <2>3. x # LF /\ x # CR /\ x # DataPrefix
    BY <2>2, SymbolsDiffer
  <2>4. PICK l \in Seq(S) : l = Append(e, x)
    BY AppendProperties
  <2>5. Feed(NewDecoder, l) = Held(l, <<>>, <<>>)
    BY <2>1, <2>3, <2>4, SymbolHeld
  <2>6. l = <<x>>
    BY <1>1, <2>4
  <2>7. l # <<>> /\ Last(l) = x /\ Head(l) = x
    BY <2>6 DEF Last
  <2>8. e = (IF Head(l) = DataPrefix THEN Tail(l) ELSE <<>>)
    BY <1>1, <2>3, <2>7
  <2>9. Gives(Cat(Cat(l, Break(r)), Break(r)), e)
    BY <2>3, <2>5, <2>7, <2>8, LineGives
  <2>10. PICK br \in Seq(S) : br = Break(r)
    <3>1. <<LF>> \in Seq(S) /\ <<CR, LF>> \in Seq(S)
      OBVIOUS
    <3>2. QED
      BY <3>1 DEF Break
  <2>11. PICK h \in Seq(S) : h = Cat(l, br)
    BY CatTyped
  <2>12. PICK w \in Seq(S) : w = Cat(h, br)
    BY CatTyped
  <2>13. Ping(r) = Cat(Cat(l, Break(r)), Break(r))
    BY <1>3, <2>2, <2>6 DEF Ping, Cat
  <2>14. QED
    BY <1>1, <2>9, <2>10, <2>11, <2>12, <2>13
<1>4. QED
  BY <1>2, <1>3

\* What there is to decode in the body of r, in order.
EventSyms(n) == [i \in 1 .. n |-> Sym("event", i)]

Decodable(r) ==
  Cat(EventSyms(Len(r.events)), IF r.done THEN <<Sym("done", 0)>> ELSE <<>>)

LEMMA EventSymsTyped ==
  ASSUME NEW r, r.events \in Seq(ChatEvents), NEW k \in 0 .. Len(r.events)
  PROVE  EventSyms(k) \in Seq(Symbols(r))
<1>1. k \in Nat /\ \A i \in 1 .. k : i \in DOMAIN r.events
  OBVIOUS
<1>2. EventSyms(k) \in [1 .. k -> Symbols(r)]
  BY <1>1 DEF EventSyms, Symbols
<1>3. QED
  BY <1>1, <1>2, SeqDef

\* The body of a reply decodes into its events and, if it has one, its [DONE];
\* nothing of it is left over.
LEMMA BodyGives ==
  ASSUME NEW r, r.events \in Seq(ChatEvents)
  PROVE  Decodable(r) \in Seq(Symbols(r)) /\ Gives(Body(r), Decodable(r))
<1> DEFINE S == Symbols(r)
<1>1. /\ LF \in S /\ CR \in S /\ DataPrefix \in S /\ Sym("comment", 0) \in S
      /\ Sym("done", 0) \in S /\ \A i \in DOMAIN r.events : Sym("event", i) \in S
  BY DEF Symbols
<1>2. PICK n \in Nat : n = Len(r.events) /\ DOMAIN r.events = 1 .. n
  OBVIOUS
<1>3. \A k \in 0 .. n : EventSyms(k) \in Seq(S)
  BY <1>2, EventSymsTyped
<1> HIDE DEF S
<1>4. PICK p \in Seq(S) : p = Ping(r) /\ Gives(p, <<>>)
  BY <1>1, PingGives
<1>5. PICK e \in Seq(S), y \in Seq(S) :
        /\ e = (IF r.done THEN Frame(r, Sym("done", 0)) ELSE <<>>)
        /\ y = (IF r.done THEN <<Sym("done", 0)>> ELSE <<>>)
        /\ Gives(e, y)
  <2>1. PICK x \in S : x = Sym("done", 0) /\ x # LF /\ x # CR
    BY <1>1, SymbolsDiffer
  <2>2. Frame(r, x) \in Seq(S) /\ Gives(Frame(r, x), <<x>>)
    BY <1>1, <2>1, FrameGives
  <2>3. <<>> \in Seq(S)
    OBVIOUS
  <2>4. <<x>> \in Seq(S)
    OBVIOUS
  <2>5. CASE r.done
    BY <2>1, <2>2, <2>4, <2>5
  <2>6. CASE ~r.done
    BY <2>3, <2>6, GivesNothing
  <2>7. QED
    BY <2>5, <2>6
<1>6. PICK ss \in Seq(Seq(S)) : ss = [i \in 1 .. n |-> Frame(r, Sym("event", i))]
  <2>1. \A i \in 1 .. n : Frame(r, Sym("event", i)) \in Seq(S)
    BY <1>1, <1>2, FrameGives, SymbolsDiffer
  <2>2. PICK ss : ss = [i \in 1 .. n |-> Frame(r, Sym("event", i))]
    OBVIOUS
  <2>3. ss \in [1 .. n -> Seq(S)]
    BY <2>1, <2>2
  <2>4. ss \in Seq(Seq(S))
    BY <2>3, SeqDef
  <2>5. QED
    BY <2>2, <2>4
<1>7. Len(ss) = n
  BY <1>6
<1>8. PICK A : Strings(A, S, ss)
  BY FlattenRuns
<1>9. /\ A \in [0 .. n -> Seq(S)] /\ A[0] = <<>> /\ A[n] = FlattenSeq(ss)
      /\ \A k \in 1 .. n : A[k] = Cat(A[k - 1], Frame(r, Sym("event", k)))
  BY <1>6, <1>7, <1>8 DEF Strings
<1> DEFINE B == {k \in 0 .. n : ~ Gives(A[k], EventSyms(k))}
<1>10. B = {}
  <2> SUFFICES ASSUME B # {} PROVE FALSE
    OBVIOUS
  <2>1. B \subseteq Nat
    OBVIOUS
  <2>2. PICK k \in B : \A m \in B : k <= m
    <3> HIDE DEF B
    <3>1. QED
      BY <2>1, LeastNumber
  <2>3. k \in 0 .. n /\ ~ Gives(A[k], EventSyms(k))
    OBVIOUS
  <2>4. k # 0
    <3>1. EventSyms(0) = <<>>
      BY DEF EventSyms
    <3>2. QED
      BY <1>9, <2>3, <3>1, GivesNothing
  <2>5. k \in 1 .. n /\ k - 1 \in 0 .. n /\ ~(k <= k - 1)
    BY <2>3, <2>4
  <2>6. Gives(A[k - 1], EventSyms(k - 1))
    BY <2>2, <2>5
  <2> HIDE DEF B
  <2>7. PICK x \in S : x = Sym("event", k) /\ x # LF /\ x # CR
    <3>1. Sym("event", k) \in S
      BY <1>1, <1>2, <2>5
    <3>2. Sym("event", k) # LF /\ Sym("event", k) # CR
      BY SymbolsDiffer
    <3>3. QED
      BY <3>1, <3>2
  <2>8. PICK f \in Seq(S) : f = Frame(r, x) /\ Gives(f, <<x>>)
    BY <1>1, <2>7, FrameGives
  <2>9. PICK xx \in Seq(S) : xx = <<x>>
    <3>1. <<x>> \in Seq(S)
      OBVIOUS
    <3>2. QED
      BY <3>1
  <2>10. PICK a \in Seq(S), es \in Seq(S) : a = A[k - 1] /\ es = EventSyms(k - 1)
    BY <1>3, <1>9, <2>5
  <2>11. Gives(Cat(a, f), Cat(es, xx))
    BY <2>6, <2>8, <2>9, <2>10, GivesBoth
  <2>12. Cat(es, xx) = EventSyms(k)
    <3>1. PICK j \in Nat : j = k - 1 /\ k = j + 1
      BY <2>5
    <3>2. es = [i \in 1 .. j |-> Sym("event", i)] /\ Len(es) = j
      BY <2>10, <3>1 DEF EventSyms
    <3>3. Cat(es, xx) = Append(es, x)
      BY <2>9, AppendIsConcat DEF Cat
    <3>4. PICK v \in Seq(S) : v = Append(es, x)
      BY AppendProperties
    <3>5. Len(v) = j + 1 /\ v[j + 1] = x /\ \A i \in 1 .. j : v[i] = es[i]
      <4>1. Len(es) = j
        BY <3>2
      <4>2. QED
        BY <3>4, <4>1
    <3>6. PICK u \in Seq(S) : u = EventSyms(k)
      BY <1>3, <2>3
    <3>7. Len(u) = j + 1 /\ \A i \in 1 .. j + 1 : u[i] = Sym("event", i)
      BY <3>1, <3>6 DEF EventSyms
    <3>8. \A i \in 1 .. j : v[i] = Sym("event", i)
      BY <3>2, <3>5
    <3>9. \A i \in 1 .. j + 1 : v[i] = u[i]
      BY <2>7, <3>1, <3>5, <3>7, <3>8
    <3>10. v = u
      BY <3>5, <3>7, <3>9, SeqEqual
    <3>11. QED
      BY <3>3, <3>4, <3>6, <3>10
  <2>13. A[k] = Cat(a, f)
    BY <1>9, <2>5, <2>7, <2>8, <2>10
  <2>14. QED
    BY <2>3, <2>11, <2>12, <2>13
<1>11. PICK m \in Seq(S), es \in Seq(S) :
         m = FlattenSeq(ss) /\ es = EventSyms(n) /\ Gives(m, es)
  <2>1. n \in 0 .. n
    OBVIOUS
  <2>2. A[n] \in Seq(S) /\ Gives(A[n], EventSyms(n))
    BY <1>9, <1>10, <2>1
  <2>3. QED
    BY <1>3, <1>9, <2>1, <2>2
<1> HIDE DEF B
<1>12. Body(r) = Cat(Cat(p, m), e)
  BY <1>2, <1>4, <1>5, <1>6, <1>11 DEF Body, Cat, Frame, Ping
<1>13. PICK z \in Seq(S) : z = <<>>
  <2>1. <<>> \in Seq(S)
    OBVIOUS
  <2>2. QED
    BY <2>1
<1>14. PICK pm \in Seq(S) : pm = Cat(p, m)
  BY CatTyped
<1>15. Gives(pm, es)
  <2>1. Gives(Cat(p, m), Cat(z, es))
    BY <1>4, <1>11, <1>13, GivesBoth
  <2>2. Cat(z, es) = es
    BY <1>13, NothingBefore
  <2>3. QED
    BY <1>14, <2>1, <2>2
<1>16. Gives(Cat(pm, e), Cat(es, y))
  BY <1>5, <1>15, GivesBoth
<1>17. Decodable(r) = Cat(es, y)
  BY <1>2, <1>5, <1>11 DEF Decodable
<1>18. Cat(es, y) \in Seq(S)
  BY CatTyped
<1>19. QED
  BY <1>12, <1>14, <1>16, <1>17, <1>18 DEF S

-----------------------------------------------------------------------------
(* The conversation, message by message.                                    *)

\* Messages are numbered by their places, none of them is a summary, and a
\* marker names only what came before it.
NumberedAt(s, i) ==
  /\ s[i].kind # "summary" /\ s[i].id = i
  /\ s[i].covers \in 0 .. i - 1 /\ s[i].kept \in 0 .. i - 1

\* Right behind message j of s are the results of all its calls, in order.
Answered(s, j) ==
  \A k \in 1 .. Len(s[j].calls) :
    j + k \in 1 .. Len(s) /\ s[j + k].kind = "tool" /\ s[j + k].of = s[j].calls[k]

\* A tool result is one of those of an assistant message whose calls are all
\* answered.
ResultAt(s, i) ==
  s[i].kind = "tool" =>
    \E j \in 1 .. i - 1 :
      s[j].kind = "assistant" /\ i - j <= Len(s[j].calls) /\ Answered(s, j)

ResultsInPlace(s) == \A i \in 1 .. Len(s) : ResultAt(s, i)

\* A marker cuts the conversation before it cleanly.
CutAt(s, i) ==
  IsMarker(s[i]) =>
    /\ s[i].covers \in 1 .. s[i].kept - 1 /\ VisibleToModel(s[s[i].covers])
    /\ \A k \in s[i].covers + 1 .. s[i].kept - 1 : ~VisibleToModel(s[k])
    /\ IsTurn(s[s[i].kept])
    /\ Cardinality({k \in s[i].kept .. i : IsTurn(s[k])}) = KeptTurns

SoundAt(s, i) == NumberedAt(s, i) /\ ResultAt(s, i) /\ CutAt(s, i)

Sound(s) == s \in Seq(Msg) /\ \A i \in 1 .. Len(s) : SoundAt(s, i)

\* t starts with the messages of s.
Begins(s, t) == Len(s) <= Len(t) /\ \A i \in 1 .. Len(s) : t[i] = s[i]

\* What is said of a message depends on no later one.
LEMMA LaterMessages ==
  ASSUME NEW s \in Seq(Msg), NEW t \in Seq(Msg), Begins(s, t), NEW i \in 1 .. Len(s),
         SoundAt(s, i)
  PROVE  SoundAt(t, i)
<1>1. PICK n \in Nat : n = Len(s)
  OBVIOUS
<1>2. i \in 1 .. n /\ \A j \in 1 .. n : t[j] = s[j]
  BY <1>1 DEF Begins
<1>3. t[i] = s[i]
  BY <1>2
<1>4. NumberedAt(t, i)
  BY <1>3 DEF SoundAt, NumberedAt
<1>5. ResultAt(t, i)
  <2> SUFFICES ASSUME s[i].kind = "tool" PROVE ResultAt(t, i)
    BY <1>3 DEF ResultAt
  <2>1. PICK j \in 1 .. i - 1 :
          s[j].kind = "assistant" /\ i - j <= Len(s[j].calls) /\ Answered(s, j)
    BY DEF SoundAt, ResultAt
  <2>2. j \in 1 .. n /\ t[j] = s[j]
    BY <1>2, <2>1
  <2>3. n <= Len(t) /\ Len(t) \in Nat
    BY <1>1 DEF Begins
  <2>4. ASSUME NEW k \in 1 .. Len(s[j].calls)
        PROVE  j + k \in 1 .. Len(t) /\ t[j + k].kind = "tool" /\ t[j + k].of = s[j].calls[k]
    <3>1. j + k \in 1 .. n /\ s[j + k].kind = "tool" /\ s[j + k].of = s[j].calls[k]
      BY <1>1, <2>1 DEF Answered
    <3>2. QED
      BY <1>2, <2>3, <3>1
  <2>5. Answered(t, j)
    BY <2>2, <2>4 DEF Answered
  <2>6. QED
    BY <1>3, <2>1, <2>2, <2>5 DEF ResultAt
<1>6. CutAt(t, i)
  <2> SUFFICES ASSUME IsMarker(s[i]) PROVE CutAt(t, i)
    BY <1>3 DEF CutAt
  <2>1. PICK c \in 0 .. i - 1, d \in 0 .. i - 1 : c = s[i].covers /\ d = s[i].kept
    BY DEF SoundAt, NumberedAt
  <2>2. /\ c \in 1 .. d - 1 /\ VisibleToModel(s[c])
        /\ IsTurn(s[d]) /\ \A k \in c + 1 .. d - 1 : ~VisibleToModel(s[k])
        /\ Cardinality({k \in d .. i : IsTurn(s[k])}) = KeptTurns
    BY <2>1 DEF SoundAt, CutAt
  <2>3. /\ c \in 1 .. n /\ d \in 1 .. n /\ \A k \in c + 1 .. d - 1 : k \in 1 .. n
        /\ \A k \in d .. i : k \in 1 .. n
    <3>1. i \in 1 .. n
      BY <1>2
    <3>2. c \in 1 .. d - 1
      BY <2>2
    <3>3. c \in 1 .. n /\ d \in 1 .. n
      BY <3>1, <3>2
    <3>4. \A k \in c + 1 .. d - 1 : k \in 1 .. n
      BY <3>2, <3>3
    <3>5. \A k \in d .. i : k \in 1 .. n
      BY <3>1, <3>3
    <3>6. QED
      BY <3>3, <3>4, <3>5
  <2>4. /\ t[c] = s[c] /\ t[d] = s[d] /\ \A k \in c + 1 .. d - 1 : t[k] = s[k]
        /\ \A k \in d .. i : t[k] = s[k]
    BY <1>2, <2>3
  <2>5. {k \in d .. i : IsTurn(t[k])} = {k \in d .. i : IsTurn(s[k])}
    BY <2>4
  <2>6. QED
    BY <1>3, <2>1, <2>2, <2>4, <2>5 DEF CutAt
<1>7. QED
  BY <1>4, <1>5, <1>6 DEF SoundAt

\* One more message leaves a sound conversation sound if it is sound itself.
LEMMA SoundAppend ==
  ASSUME NEW s, Sound(s), NEW x \in Msg, SoundAt(Append(s, x), Len(s) + 1)
  PROVE  Sound(Append(s, x))
<1>1. s \in Seq(Msg) /\ \A i \in 1 .. Len(s) : SoundAt(s, i)
  BY DEF Sound
<1>2. PICK n \in Nat : n = Len(s)
  BY <1>1
<1>3. PICK t \in Seq(Msg) : t = Append(s, x)
  BY <1>1, AppendProperties
<1>4. Len(t) = n + 1 /\ \A i \in 1 .. n : t[i] = s[i]
  BY <1>1, <1>2, <1>3, AppendProperties
<1>5. Begins(s, t)
  BY <1>2, <1>4 DEF Begins
<1>6. \A i \in 1 .. n : SoundAt(t, i)
  BY <1>1, <1>2, <1>5, LaterMessages
<1>7. SoundAt(t, n + 1)
  BY <1>2, <1>3
<1>8. \A i \in 1 .. n + 1 : i \in 1 .. n \/ i = n + 1
  BY <1>2
<1>9. \A i \in 1 .. Len(t) : SoundAt(t, i)
  BY <1>4, <1>6, <1>7, <1>8
<1>10. QED
  BY <1>3, <1>9 DEF Sound

\* A user or assistant message does so whatever it says.
LEMMA SoundTurn ==
  ASSUME NEW s, Sound(s), NEW x \in Msg, x.kind \in {"user", "assistant"},
         x.id = Len(s) + 1, x.covers = 0, x.kept = 0
  PROVE  Sound(Append(s, x))
<1>1. s \in Seq(Msg)
  BY DEF Sound
<1>2. PICK n \in Nat : n = Len(s)
  BY <1>1
<1>3. PICK t \in Seq(Msg) : t = Append(s, x)
  BY <1>1, AppendProperties
<1>4. t[n + 1] = x
  BY <1>1, <1>2, <1>3, AppendProperties
<1>5. NumberedAt(t, n + 1) /\ ResultAt(t, n + 1) /\ CutAt(t, n + 1)
  BY <1>2, <1>4 DEF NumberedAt, ResultAt, CutAt, IsMarker
<1>6. QED
  BY <1>2, <1>3, <1>5, SoundAppend DEF SoundAt

\* The last message of some kinds ends what is gathered of them.
LEMMA LastOfKinds ==
  ASSUME NEW s \in Seq(Msg), NEW K, \E j \in 1 .. Len(s) : s[j].kind \in K
  PROVE  \E j \in 1 .. Len(s) :
           /\ OfKinds(s, K) # <<>> /\ Last(OfKinds(s, K)) = s[j] /\ s[j].kind \in K
           /\ \A k \in j + 1 .. Len(s) : s[k].kind \notin K
<1> DEFINE I == {j \in 1 .. Len(s) : s[j].kind \in K}
<1>1. PICK n \in Nat : n = Len(s)
  OBVIOUS
<1>2. I \in SUBSET (1 .. n) /\ I # {}
  BY <1>1
<1>3. PICK j \in I : \A i \in I : i <= j
  <2> HIDE DEF I
  <2>1. QED
    BY <1>2, MaxIsMember
<1>4. j \in 1 .. n /\ s[j].kind \in K /\ s[j] \in Msg
  BY <1>1
<1>5. \A k \in j + 1 .. n : k \in 1 .. n /\ ~(k <= j)
  BY <1>4
<1>6. \A k \in j + 1 .. n : s[k].kind \notin K
  BY <1>1, <1>3, <1>5
<1> HIDE DEF I
<1>7. PICK a \in Seq(Msg), b \in Seq(Msg), x \in Msg :
        /\ x = s[j] /\ s = Cat(Append(a, x), b)
        /\ \A i \in 1 .. Len(b) : b[i].kind \notin K
  <2>1. PICK a \in Seq(Msg) : a = SubSeq(s, 1, j - 1)
    BY <1>1, <1>4, Parts
  <2>2. PICK b \in Seq(Msg) : b = SubSeq(s, j + 1, Len(s))
    BY <1>1, <1>4, Parts
  <2>3. PICK x \in Msg : x = s[j]
    BY <1>4
  <2>4. s = (a \o <<x>>) \o b
    BY <1>1, <1>4, <2>1, <2>2, <2>3, Parts
  <2>5. a \o <<x>> = Append(a, x)
    BY AppendIsConcat
  <2>6. Len(b) = n - j /\ \A i \in 1 .. n - j : b[i] = s[j + i]
    BY <1>1, <1>4, <2>2, Parts
  <2>7. \A i \in 1 .. n - j : j + i \in j + 1 .. n
    BY <1>4
  <2>8. \A i \in 1 .. Len(b) : b[i].kind \notin K
    BY <1>6, <2>6, <2>7
  <2>9. QED
    BY <2>3, <2>4, <2>5, <2>8 DEF Cat
<1>8. PICK o \in Seq(Msg) : o = OfKinds(a, K)
  BY OfKindsTyped
<1>9. OfKinds(s, K) = Append(o, x)
  <2>1. PICK c \in Seq(Msg) : c = Append(a, x)
    BY AppendProperties
  <2>2. OfKinds(c, K) = Append(o, x)
    <3>1. x.kind \in K
      BY <1>4, <1>7
    <3>2. OfKinds(Append(a, x), K) =
            IF x.kind \in K THEN Append(OfKinds(a, K), x) ELSE OfKinds(a, K)
      BY OfKindsAppend
    <3>3. QED
      BY <1>8, <2>1, <3>1, <3>2
  <2>3. OfKinds(b, K) = <<>>
    BY <1>7, OfKindsNoneAll
  <2>4. OfKinds(Cat(c, b), K) = Cat(OfKinds(c, K), OfKinds(b, K))
    BY OfKindsConcat
  <2>5. Append(o, x) \in Seq(Msg)
    BY AppendProperties
  <2>6. Cat(Append(o, x), <<>>) = Append(o, x)
    BY <2>5, CatEmpty
  <2>7. QED
    BY <1>7, <2>1, <2>2, <2>3, <2>4, <2>6
<1>10. Append(o, x) # <<>> /\ Last(Append(o, x)) = x
  <2>1. PICK m \in Nat : m = Len(o)
    OBVIOUS
  <2>2. PICK u \in Seq(Msg) : u = Append(o, x)
    BY AppendProperties
  <2>3. Len(u) = m + 1 /\ u[m + 1] = x
    BY <2>1, <2>2, AppendProperties
  <2>4. QED
    BY <2>2, <2>3, EmptySeq DEF Last
<1>11. QED
  BY <1>1, <1>4, <1>6, <1>7, <1>9, <1>10

\* The marker of a cut.
LEMMA SoundMarker ==
  ASSUME NEW s, Sound(s), NEW i \in PickCut(s)
  PROVE  /\ CompactionMarker(s, i, Len(s) + 1) \in Msg
         /\ CompactionMarker(s, i, Len(s) + 1).kind = "marker"
         /\ Sound(Append(s, CompactionMarker(s, i, Len(s) + 1)))
<1>1. s \in Seq(Msg) /\ \A j \in 1 .. Len(s) : SoundAt(s, j)
  BY DEF Sound
<1>2. PICK n \in Nat : n = Len(s)
  BY <1>1
<1>3. /\ i \in 2 .. n /\ IsTurn(s[i])
      /\ Cardinality({k \in i .. n : IsTurn(s[k])}) = KeptTurns
      /\ \E j \in 1 .. i - 1 : VisibleToModel(s[j])
  BY <1>2 DEF PickCut, TurnsFrom
<1>4. PICK a \in Seq(Msg) : /\ a = SubSeq(s, 1, i - 1) /\ Len(a) = i - 1
                           /\ \A k \in 1 .. i - 1 : a[k] = s[k]
  <2>1. i \in 1 .. Len(s)
    BY <1>2, <1>3
  <2>2. /\ SubSeq(s, 1, i - 1) \in Seq(Msg) /\ Len(SubSeq(s, 1, i - 1)) = i - 1
        /\ \A k \in 1 .. i - 1 : SubSeq(s, 1, i - 1)[k] = s[k]
    BY <1>1, <2>1, Parts
  <2>3. QED
    BY <2>2
<1>5. Len(a) = i - 1 /\ \A k \in 1 .. i - 1 : a[k] = s[k]
  BY <1>4
<1>6. PICK K : K = VisibleKinds
  OBVIOUS
<1>7. \E j \in 1 .. Len(a) : a[j].kind \in K
  BY <1>3, <1>5, <1>6 DEF VisibleToModel
<1>8. PICK c \in 1 .. Len(a) :
        /\ Last(OfKinds(a, K)) = a[c] /\ a[c].kind \in K
        /\ \A k \in c + 1 .. Len(a) : a[k].kind \notin K
  BY <1>7, LastOfKinds
<1>9. c \in 1 .. i - 1 /\ c \in 1 .. n /\ i \in 1 .. n
  BY <1>3, <1>5, <1>8
<1>10. s[c].id = c /\ s[i].id = i
  BY <1>1, <1>2, <1>9 DEF SoundAt, NumberedAt
<1>11. \A k \in c + 1 .. i - 1 : s[k].kind \notin K
  <2>1. \A k \in c + 1 .. i - 1 : k \in 1 .. i - 1
    BY <1>9
  <2>2. QED
    BY <1>5, <1>8, <2>1
<1>12. PICK x \in Msg : /\ x = CompactionMarker(s, i, n + 1)
                        /\ x.kind = "marker" /\ x.id = n + 1
                        /\ x.covers = c /\ x.kept = i
  <2>1. Last(SerializeHead(s, i)).id = c
    BY <1>4, <1>5, <1>6, <1>8, <1>9, <1>10 DEF SerializeHead, Visible
  <2>2. CompactionMarker(s, i, n + 1) = Message("marker", n + 1, <<>>, None, c, i)
    BY <1>10, <2>1 DEF CompactionMarker
  <2>3. Message("marker", n + 1, <<>>, None, c, i) \in Msg
    BY <1>9 DEF Message, Msg, Kinds, None
  <2>4. QED
    BY <2>2, <2>3 DEF Message
<1>13. PICK t \in Seq(Msg) : t = Append(s, x)
  BY <1>1, AppendProperties
<1>14. Len(t) = n + 1 /\ t[n + 1] = x /\ \A k \in 1 .. n : t[k] = s[k]
  BY <1>1, <1>2, <1>13, AppendProperties
<1>15. NumberedAt(t, n + 1) /\ ResultAt(t, n + 1)
  BY <1>9, <1>12, <1>14 DEF NumberedAt, ResultAt
<1>16. CutAt(t, n + 1)
  <2>1. c \in 1 .. i - 1 /\ t[i] = s[i] /\ t[c] = s[c] /\ s[c].kind \in K
    BY <1>5, <1>8, <1>9, <1>14
  <2>2. ASSUME NEW k \in c + 1 .. i - 1 PROVE ~VisibleToModel(t[k])
    <3>1. k \in 1 .. n
      BY <1>9
    <3>2. QED
      BY <1>6, <1>11, <1>14, <3>1 DEF VisibleToModel
  <2>3. {k \in i .. n + 1 : IsTurn(t[k])} = {k \in i .. n : IsTurn(s[k])}
    <3>1. ~IsTurn(t[n + 1])
      BY <1>12, <1>14 DEF IsTurn
    <3>2. \A k \in i .. n + 1 : k = n + 1 \/ (k \in i .. n /\ k \in 1 .. n)
      BY <1>9
    <3>3. \A k \in i .. n : k \in i .. n + 1 /\ k \in 1 .. n
      BY <1>9
    <3>4. QED
      BY <1>14, <3>1, <3>2, <3>3
  <2>4. VisibleToModel(t[c])
    BY <1>6, <2>1 DEF VisibleToModel
  <2>5. QED
    BY <1>3, <1>12, <1>14, <2>1, <2>2, <2>3, <2>4 DEF CutAt
<1>17. QED
  BY <1>2, <1>12, <1>13, <1>15, <1>16, SoundAppend DEF SoundAt

\* What dispatch_tools adds to the conversation.
Results(s) ==
  [i \in DOMAIN s[Len(s)].calls |-> ToolResult(Len(s) + 1 + i - 1, s[Len(s)].calls[i])]

\* The results of a whole batch.
LEMMA SoundResults ==
  ASSUME NEW s, Sound(s), Len(s) # 0, s[Len(s)].kind = "assistant"
  PROVE  Sound(Cat(s, Results(s)))
<1>1. s \in Seq(Msg) /\ \A i \in 1 .. Len(s) : SoundAt(s, i)
  BY DEF Sound
<1>2. PICK n \in Nat : n = Len(s)
  BY <1>1
<1>3. n \in 1 .. n /\ s[n] \in Msg
  BY <1>1, <1>2
<1>4. PICK calls \in Seq(Nat) : calls = s[n].calls
  BY <1>3 DEF Msg
<1>5. PICK m \in Nat : m = Len(calls)
  OBVIOUS
<1>6. PICK rs \in Seq(Msg) : /\ rs = Results(s) /\ Len(rs) = m
                             /\ \A i \in 1 .. m : rs[i] = ToolResult(n + i, calls[i])
  <2>1. Results(s) = [i \in 1 .. m |-> ToolResult(n + i, calls[i])]
    <3>1. DOMAIN calls = 1 .. m /\ \A i \in 1 .. m : n + 1 + i - 1 = n + i
      BY <1>5
    <3>2. Results(s) = [i \in 1 .. m |-> ToolResult(n + 1 + i - 1, calls[i])]
      BY <1>2, <1>4, <3>1 DEF Results
    <3>3. QED
      BY <3>1, <3>2
  <2>2. \A i \in 1 .. m : ToolResult(n + i, calls[i]) \in Msg
    <3> SUFFICES ASSUME NEW i \in 1 .. m PROVE ToolResult(n + i, calls[i]) \in Msg
      OBVIOUS
    <3>1. calls[i] \in Nat /\ n + i \in Nat
      BY <1>5
    <3>2. QED
      BY <3>1 DEF ToolResult, Message, Msg, Kinds, None
  <2>3. PICK g \in [1 .. m -> Msg] : g = Results(s)
    BY <2>1, <2>2
  <2>4. g \in Seq(Msg) /\ Len(g) = m
    <3>1. DOMAIN g = 1 .. m
      OBVIOUS
    <3>2. g \in Seq(Msg)
      BY SeqDef
    <3>3. QED
      BY <3>1, <3>2
  <2>5. QED
    BY <2>1, <2>3, <2>4
<1>7. PICK t \in Seq(Msg) : t = Cat(s, rs)
  BY <1>1, CatTyped
<1>8. /\ Len(t) = n + m
      /\ \A i \in 1 .. n + m : t[i] = IF i <= n THEN s[i] ELSE rs[i - n]
  <2>1. t = s \o rs
    BY <1>7 DEF Cat
  <2>2. /\ Len(s \o rs) = Len(s) + Len(rs)
        /\ \A i \in 1 .. Len(s) + Len(rs) :
             (s \o rs)[i] = IF i <= Len(s) THEN s[i] ELSE rs[i - Len(s)]
    BY <1>1, ConcatProperties
  <2>3. QED
    BY <1>2, <1>6, <2>1, <2>2
<1>9. \A i \in 1 .. n : t[i] = s[i]
  BY <1>8
<1>10. Begins(s, t)
  BY <1>2, <1>8, <1>9 DEF Begins
<1>11. \A i \in 1 .. n : SoundAt(t, i)
  BY <1>1, <1>2, <1>10, LaterMessages
<1>12. ASSUME NEW i \in n + 1 .. n + m
       PROVE  t[i] = ToolResult(i, calls[i - n]) /\ t[i].kind = "tool" /\ i - n \in 1 .. m
  <2>1. i - n \in 1 .. m /\ n + (i - n) = i /\ ~(i <= n) /\ i \in 1 .. n + m
    OBVIOUS
  <2>2. t[i] = ToolResult(i, calls[i - n])
    BY <1>6, <1>8, <2>1
  <2>3. QED
    BY <2>1, <2>2 DEF ToolResult, Message
<1>13. ASSUME NEW i \in n + 1 .. n + m PROVE SoundAt(t, i)
  <2>1. /\ t[i].kind = "tool" /\ t[i].id = i /\ t[i].of = calls[i - n]
        /\ t[i].covers = 0 /\ t[i].kept = 0
    <3>1. t[i] = ToolResult(i, calls[i - n])
      BY <1>12
    <3>2. t[i] = [kind |-> "tool", id |-> i, calls |-> <<>>, of |-> calls[i - n],
                  covers |-> 0, kept |-> 0]
      BY <3>1 DEF ToolResult, Message, None
    <3>3. QED
      BY <3>2
  <2>2. NumberedAt(t, i) /\ CutAt(t, i)
    BY <2>1 DEF NumberedAt, CutAt, IsMarker
  <2>3. n \in 1 .. i - 1 /\ t[n] = s[n] /\ i - n <= m
    BY <1>3, <1>9
  <2>4. ASSUME NEW k \in 1 .. m
        PROVE  n + k \in 1 .. n + m /\ t[n + k].kind = "tool" /\ t[n + k].of = calls[k]
    <3>1. n + k \in n + 1 .. n + m /\ (n + k) - n = k
      OBVIOUS
    <3>2. t[n + k] = ToolResult(n + k, calls[k])
      BY <1>12, <3>1
    <3>3. QED
      BY <3>1, <3>2 DEF ToolResult, Message
  <2>5. t[n].kind = "assistant" /\ t[n].calls = calls
    BY <1>2, <1>4, <2>3
  <2>6. ResultAt(t, i)
    BY <1>5, <1>8, <2>3, <2>4, <2>5 DEF ResultAt, Answered
  <2>7. QED
    BY <2>2, <2>6 DEF SoundAt
<1>14. \A i \in 1 .. n + m : i \in 1 .. n \/ i \in n + 1 .. n + m
  OBVIOUS
<1>15. \A i \in 1 .. Len(t) : SoundAt(t, i)
  BY <1>8, <1>11, <1>13, <1>14
<1>16. QED
  BY <1>6, <1>7, <1>15 DEF Sound

-----------------------------------------------------------------------------
(* The inductive invariant.                                                 *)

\* The reply under way: what the decoder and the aggregator hold is something
\* its body can leave behind.
Streaming ==
  /\ reply \in Replies \union {NoReply}
  /\ body \in Seq(Symbols(reply)) /\ pos \in 0 .. Len(body)
  /\ dec.buf \in Seq(Symbols(reply)) /\ dec.pending \in Seq(Symbols(reply))
  /\ st \in StreamStates

Control ==
  /\ pc \in {"idle", "top", "compact", "request", "stream", "commit", "tools"}
  /\ iteration \in 0 .. MaxIterations /\ aborted \in BOOLEAN

\* A batch answers the message that was pushed last.
Batch ==
  pc = "tools" => Len(messages) # 0 /\ messages[Len(messages)].kind = "assistant"

IInv == Sound(messages) /\ Streaming /\ Control /\ Batch

\* One message, or two, pushed at the end.
LEMMA PushOne ==
  ASSUME NEW s \in Seq(Msg), NEW x \in Msg
  PROVE  s \o <<x>> = Append(s, x)
  BY AppendIsConcat

LEMMA PushTwo ==
  ASSUME NEW s \in Seq(Msg), NEW x \in Msg, NEW y \in Msg
  PROVE  s \o <<x, y>> = Append(Append(s, x), y)
<1>1. PICK n \in Nat : n = Len(s)
  OBVIOUS
<1>2. PICK xy \in Seq(Msg) : xy = <<x, y>> /\ Len(xy) = 2 /\ xy[1] = x /\ xy[2] = y
  <2>1. <<x, y>> \in Seq(Msg) /\ Len(<<x, y>>) = 2
    OBVIOUS
  <2>2. QED
    BY <2>1
<1>3. PICK u \in Seq(Msg) : u = Append(s, x)
  BY AppendProperties
<1>4. PICK v \in Seq(Msg) : v = Append(u, y)
  BY AppendProperties
<1>5. PICK w \in Seq(Msg) : w = s \o xy
  BY ConcatProperties
<1>6. Len(u) = n + 1 /\ u[n + 1] = x /\ \A i \in 1 .. n : u[i] = s[i]
  BY <1>1, <1>3, AppendProperties
<1>7. Len(v) = n + 2 /\ v[n + 2] = y /\ \A i \in 1 .. n + 1 : v[i] = u[i]
  <2>1. (n + 1) + 1 = n + 2
    OBVIOUS
  <2>2. QED
    BY <1>4, <1>6, <2>1, AppendProperties
<1>8. Len(w) = n + 2 /\ \A i \in 1 .. n + 2 : w[i] = IF i <= n THEN s[i] ELSE xy[i - n]
  <2>1. /\ Len(w) = Len(s) + Len(xy)
        /\ \A i \in 1 .. Len(s) + Len(xy) : w[i] = IF i <= Len(s) THEN s[i] ELSE xy[i - Len(s)]
    <3>1. /\ Len(s \o xy) = Len(s) + Len(xy)
          /\ \A i \in 1 .. Len(s) + Len(xy) :
               (s \o xy)[i] = IF i <= Len(s) THEN s[i] ELSE xy[i - Len(s)]
      BY ConcatProperties
    <3>2. QED
      BY <1>5, <3>1
  <2>2. QED
    BY <1>1, <1>2, <2>1
<1>9. \A i \in 1 .. n + 2 : w[i] = v[i]
  <2> SUFFICES ASSUME NEW i \in 1 .. n + 2 PROVE w[i] = v[i]
    OBVIOUS
  <2>1. CASE i \in 1 .. n
    BY <1>6, <1>7, <1>8, <2>1
  <2>2. CASE i = n + 1
    <3>1. n + 1 \in 1 .. n + 2 /\ n + 1 \in 1 .. n + 1 /\ ~(n + 1 <= n) /\ (n + 1) - n = 1
      OBVIOUS
    <3>2. w[n + 1] = x
      BY <1>2, <1>8, <3>1
    <3>3. v[n + 1] = x
      BY <1>6, <1>7, <3>1
    <3>4. QED
      BY <2>2, <3>2, <3>3
  <2>3. CASE i = n + 2
    <3>1. n + 2 \in 1 .. n + 2 /\ ~(n + 2 <= n) /\ (n + 2) - n = 2
      OBVIOUS
    <3>2. w[n + 2] = y
      BY <1>2, <1>8, <3>1
    <3>3. QED
      BY <1>7, <2>3, <3>2
  <2>4. QED
    BY <2>1, <2>2, <2>3
<1>10. w = v
  BY <1>7, <1>8, <1>9, SeqEqual
<1>11. QED
  BY <1>2, <1>3, <1>4, <1>5, <1>10

\* The messages the driver makes.
LEMMA UserTyped ==
  ASSUME NEW n \in Nat
  PROVE  /\ User(n) \in Msg /\ User(n).kind = "user" /\ User(n).id = n
         /\ User(n).covers = 0 /\ User(n).kept = 0
  BY DEF User, Message, Msg, Kinds, None

LEMMA AssistantTyped ==
  ASSUME NEW n \in Nat, NEW calls \in Seq(Nat)
  PROVE  /\ Assistant(n, calls) \in Msg /\ Assistant(n, calls).kind = "assistant"
         /\ Assistant(n, calls).id = n
         /\ Assistant(n, calls).covers = 0 /\ Assistant(n, calls).kept = 0
  BY DEF Assistant, Message, Msg, Kinds, None

LEMMA SoundUser ==
  ASSUME NEW s, Sound(s)
  PROVE  Sound(s \o <<User(Len(s) + 1)>>)
<1>1. s \in Seq(Msg)
  BY DEF Sound
<1>2. PICK n \in Nat : n = Len(s) + 1
  BY <1>1
<1>3. PICK x \in Msg : /\ x = User(n) /\ x.kind = "user" /\ x.id = n
                       /\ x.covers = 0 /\ x.kept = 0
  BY UserTyped
<1>4. Sound(Append(s, x))
  BY <1>2, <1>3, SoundTurn
<1>5. QED
  BY <1>1, <1>2, <1>3, <1>4, PushOne

LEMMA NewStreamTyped == NewStream \in StreamStates
<1>1. NewAggregator \in Aggregator
  <2>1. <<>> \in Seq(Slot)
    OBVIOUS
  <2>2. QED
    BY <2>1 DEF NewAggregator, Aggregator
<1>2. NewTurn \in Turn
  <2>1. <<>> \in Seq(Slot) /\ <<>> \in Seq(ChunkNames)
    OBVIOUS
  <2>2. QED
    BY <2>1 DEF NewTurn, Turn, StopReasons
<1>3. QED
  BY <1>1, <1>2 DEF NewStream, StreamStates

LEMMA NothingComes ==
  ASSUME DropStream
  PROVE  Streaming'
<1>1. PICK S : S = Symbols(NoReply)
  OBVIOUS
<1>2. <<>> \in Seq(S) /\ Len(<<>>) = 0
  OBVIOUS
<1>3. NewDecoder.buf = <<>> /\ NewDecoder.pending = <<>>
  BY DEF NewDecoder
<1>4. QED
  BY <1>1, <1>2, <1>3, NewStreamTyped DEF DropStream, Streaming

LEMMA StreamKept ==
  ASSUME Streaming, UNCHANGED net
  PROVE  Streaming'
  BY DEF Streaming, net

\* Each step keeps the invariant; the first state has it.
LEMMA InitIInv ==
  ASSUME Init
  PROVE  IInv
<1>1. Sound(messages)
  <2>1. <<>> \in Seq(Msg) /\ Len(<<>>) = 0
    OBVIOUS
  <2>2. QED
    BY <2>1 DEF Init, Sound
<1>2. Control /\ Batch
  <2>1. MaxIterations \in Nat
    BY TurnAssumption
  <2>2. pc = "idle" /\ iteration = 0 /\ aborted = FALSE
    BY DEF Init
  <2>3. iteration \in 0 .. MaxIterations
    BY <2>1, <2>2
  <2>4. aborted \in BOOLEAN
    BY <2>2, Zenon
  <2>5. Control
    BY <2>2, <2>3, <2>4 DEF Control
  <2>6. QED
    BY <2>2, <2>5 DEF Batch
<1>3. Streaming
  <2>1. PICK S : S = Symbols(reply)
    OBVIOUS
  <2>2. <<>> \in Seq(S) /\ Len(<<>>) = 0
    OBVIOUS
  <2>3. NewDecoder.buf = <<>> /\ NewDecoder.pending = <<>>
    BY DEF NewDecoder
  <2>4. QED
    BY <2>1, <2>2, <2>3, NewStreamTyped DEF Init, Streaming
<1>4. QED
  BY <1>1, <1>2, <1>3 DEF IInv

\* Nothing that was said changes while the conversation does not.
LEMMA SameMessages ==
  ASSUME Sound(messages), messages' = messages
  PROVE  Sound(messages')
  OBVIOUS

LEMMA TopIInv ==
  ASSUME IInv, Top
  PROVE  IInv'
<1>1. Streaming'
  BY StreamKept DEF Top, IInv
<1>2. Control' /\ Batch'
  BY TurnAssumption DEF Top, IInv, Control, Batch
<1>3. messages' = messages \/ messages' = messages \o <<User(Len(messages) + 1)>>
  BY DEF Top, Push, NextId
<1>4. Sound(messages)
  BY DEF IInv
<1>5. Sound(messages')
  BY <1>3, <1>4, SoundUser
<1>6. QED
  BY <1>1, <1>2, <1>5 DEF IInv, Sound

LEMMA CompactIInv ==
  ASSUME IInv, Compact
  PROVE  IInv'
<1>1. Streaming'
  BY StreamKept DEF Compact, IInv
<1>2. Control' /\ Batch'
  BY DEF Compact, IInv, Control, Batch
<1>3. Sound(messages) /\ messages \in Seq(Msg)
  BY DEF IInv, Sound
<1>4. PICK i \in PickCut(messages) :
        messages' = messages \o <<CompactionMarker(messages, i, Len(messages) + 1)>>
  BY DEF Compact, CompactAt, Push, NextId
<1>5. PICK x \in Msg : x = CompactionMarker(messages, i, Len(messages) + 1)
  BY <1>3, SoundMarker
<1>6. Sound(Append(messages, x))
  BY <1>3, <1>5, SoundMarker
<1>7. messages' = Append(messages, x)
  BY <1>3, <1>4, <1>5, PushOne
<1>8. QED
  BY <1>1, <1>2, <1>6, <1>7 DEF IInv, Sound

LEMMA RequestIInv ==
  ASSUME IInv, NEW r \in Replies, Request(r)
  PROVE  IInv'
<1>1. Sound(messages')
  BY SameMessages DEF Request, IInv
<1>2. Control' /\ Batch'
  BY DEF Request, IInv, Control, Batch
<1>3. Streaming'
  <2>1. r.events \in Seq(ChatEvents)
    BY TurnAssumption
  <2>2. PICK S : S = Symbols(r)
    OBVIOUS
  <2>3. Body(r) \in Seq(S)
    BY <2>1, <2>2, BodyTyped
  <2>4. <<>> \in Seq(S) /\ 0 \in 0 .. Len(Body(r))
    BY <2>3
  <2>5. NewDecoder.buf = <<>> /\ NewDecoder.pending = <<>>
    BY DEF NewDecoder
  <2>6. NewStream \in StreamStates
    BY NewStreamTyped
  <2>7. /\ reply' = r /\ body' = Body(r) /\ pos' = 0
        /\ dec' = NewDecoder /\ st' = NewStream
    BY DEF Request
  <2>8. QED
    BY <2>2, <2>3, <2>4, <2>5, <2>6, <2>7 DEF Streaming
<1>4. QED
  BY <1>1, <1>2, <1>3 DEF IInv, Sound

LEMMA ReceiveIInv ==
  ASSUME IInv, NEW n, Receive(n)
  PROVE  IInv'
<1> DEFINE S == Symbols(reply)
           chunk == SubSeq(body, pos + 1, pos + n)
           fed == Feed(dec, chunk)
           next == AdvanceAll(reply, st, fed.out)
<1>1. Sound(messages')
  BY SameMessages DEF Receive, IInv
<1>2. Control' /\ Batch'
  <2>1. pc' \in {"idle", "commit", "stream"} /\ UNCHANGED <<iteration, aborted>>
    BY DEF Receive, DropStream
  <2>2. QED
    BY <2>1 DEF IInv, Control, Batch
<1>3. CASE next.state = "failed"
  <2>1. DropStream
    BY <1>3 DEF Receive
  <2>2. QED
    BY <1>1, <1>2, <2>1, NothingComes DEF IInv, Sound
<1>4. CASE next.state # "failed"
  <2>1. /\ pos' = pos + n /\ dec' = [buf |-> fed.buf, pending |-> fed.pending]
        /\ st' = next /\ reply' = reply /\ body' = body
    BY <1>4 DEF Receive
  <2>2. /\ reply \in Replies \union {NoReply} /\ st \in StreamStates
        /\ body \in Seq(S) /\ pos \in 0 .. Len(body) /\ dec.buf \in Seq(S)
        /\ dec.pending \in Seq(S) /\ n \in 1 .. Len(body) - pos
    BY DEF IInv, Streaming, Receive
  <2>3. reply.events \in Seq(ChatEvents)
    <3>1. <<>> \in Seq(ChatEvents)
      OBVIOUS
    <3>2. NoReply.events = <<>>
      BY DEF NoReply
    <3>3. \A r \in Replies : r.events \in Seq(ChatEvents)
      BY TurnAssumption
    <3>4. QED
      BY <2>2, <3>1, <3>2, <3>3
  <2> HIDE DEF S
  <2>4. PICK c \in Seq(S) : c = chunk
    <3>1. PICK a \in Int, b \in Int : a = pos + 1 /\ b = pos + n
      BY <2>2
    <3>2. \A i \in a .. b : i \in 1 .. Len(body)
      BY <2>2, <3>1
    <3>3. \A i \in a .. b : body[i] \in S
      BY <2>2, <3>2
    <3>4. SubSeq(body, a, b) \in Seq(S)
      BY <3>1, <3>3, SubSeqProperties
    <3>5. QED
      BY <3>1, <3>4
  <2>5. PICK f \in Decoding(S) : f = fed
    BY <2>2, <2>4, FeedTyped
  <2>6. f.buf \in Seq(S) /\ f.pending \in Seq(S) /\ f.out \in Seq(S)
    BY DEF Decoding
  <2>7. next \in StreamStates
    <3>1. AdvanceAll(reply, st, f.out) \in StreamStates
      BY <2>2, <2>3, <2>6, AdvanceAllTyped DEF S
    <3>2. QED
      BY <2>5, <3>1
  <2>8. pos + n \in 0 .. Len(body)
    BY <2>2
  <2>9. dec'.buf = f.buf /\ dec'.pending = f.pending
    BY <2>1, <2>5
  <2> HIDE DEF next, fed
  <2>10. S' = S
    BY <2>1 DEF S
  <2>11. Streaming'
    <3>1. /\ body' \in Seq(S) /\ pos' \in 0 .. Len(body')
          /\ dec'.buf \in Seq(S) /\ dec'.pending \in Seq(S)
          /\ st' \in StreamStates /\ reply' \in Replies \union {NoReply}
      BY <2>1, <2>2, <2>6, <2>7, <2>8, <2>9
    <3>2. Symbols(reply') = S
      BY <2>1 DEF S
    <3>3. QED
      BY <3>1, <3>2 DEF Streaming
  <2>12. QED
    BY <1>1, <1>2, <2>11 DEF IInv, Sound
<1>5. QED
  BY <1>3, <1>4

\* The ids of the calls of a committed turn.
CallIds(n, calls) == [i \in DOMAIN calls |-> CallName(n, calls[i].id)]

LEMMA CallIdsTyped ==
  ASSUME NEW n \in Nat, NEW calls \in Seq(Slot)
  PROVE  CallIds(n, calls) \in Seq(Nat)
<1>1. PICK m \in Nat : m = Len(calls)
  OBVIOUS
<1>2. DOMAIN calls = 1 .. m /\ \A i \in 1 .. m : calls[i] \in Slot
  BY <1>1
<1>3. \A i \in 1 .. m : CallName(n, calls[i].id) \in Nat
  <2> SUFFICES ASSUME NEW i \in 1 .. m PROVE CallName(n, calls[i].id) \in Nat
    OBVIOUS
  <2>1. calls[i].id \in Nat
    BY <1>2 DEF Slot
  <2>2. QED
    BY <2>1 DEF CallName
<1>4. PICK g \in [1 .. m -> Nat] : g = CallIds(n, calls)
  BY <1>2, <1>3 DEF CallIds
<1>5. g \in Seq(Nat)
  BY SeqDef
<1>6. QED
  BY <1>4, <1>5

LEMMA CommitIInv ==
  ASSUME IInv, Commit
  PROVE  IInv'
<1>1. Sound(messages) /\ messages \in Seq(Msg) /\ st.turn.calls \in Seq(Slot)
  BY DEF IInv, Sound, Streaming, StreamStates, Turn
<1>2. PICK n \in Nat : n = NextId
  BY <1>1 DEF NextId
<1>3. n = Len(messages) + 1 /\ Len(messages) \in Nat
  BY <1>1, <1>2 DEF NextId
<1>4. PICK ids \in Seq(Nat) : ids = CallIds(n, st.turn.calls)
  BY <1>1, CallIdsTyped
<1>5. PICK x \in Msg : /\ x = Assistant(n, ids) /\ x.kind = "assistant" /\ x.id = n
                       /\ x.covers = 0 /\ x.kept = 0
  BY AssistantTyped
<1>6. PICK u \in Msg : /\ u = User(n + 1) /\ u.kind = "user" /\ u.id = n + 1
                       /\ u.covers = 0 /\ u.kept = 0
  <2>1. n + 1 \in Nat
    OBVIOUS
  <2>2. QED
    BY <2>1, UserTyped
<1>7. PICK t \in Seq(Msg) : /\ t = Append(messages, x)
                            /\ Len(t) = n /\ t[n] = x
  BY <1>1, <1>3, AppendProperties
<1>8. Sound(t)
  BY <1>1, <1>3, <1>5, <1>7, SoundTurn
<1>9. Sound(Append(t, u))
  BY <1>6, <1>7, <1>8, SoundTurn
<1>10. /\ messages \o <<x>> = t
       /\ messages \o <<x, u>> = Append(t, u)
  BY <1>1, <1>7, PushOne, PushTwo
<1>11. /\ \/ pc' = "idle" /\ messages' = messages \o <<x>>
          \/ pc' = "tools" /\ messages' = messages \o <<x>>
          \/ pc' = "top" /\ messages' = messages \o <<x, u>>
       /\ UNCHANGED <<iteration, aborted>> /\ DropStream
  BY <1>2, <1>4, <1>5, <1>6 DEF Commit, Push, CallIds
<1>12. Sound(messages')
  BY <1>8, <1>9, <1>10, <1>11
<1>13. Control'
  BY <1>11 DEF IInv, Control
<1>14. Batch'
  <2>1. CASE pc' = "tools"
    <3>1. messages' = messages \o <<x>>
      BY <1>11, <2>1
    <3>2. messages' = t
      BY <1>10, <3>1
    <3>3. n # 0
      BY <1>3
    <3>4. QED
      BY <1>5, <1>7, <3>2, <3>3 DEF Batch
  <2>2. CASE pc' # "tools"
    BY <2>2 DEF Batch
  <2>3. QED
    BY <2>1, <2>2
<1>15. Streaming'
  BY <1>11, NothingComes
<1>16. QED
  BY <1>12, <1>13, <1>14, <1>15 DEF IInv, Sound

LEMMA DispatchIInv ==
  ASSUME IInv, Dispatch
  PROVE  IInv'
<1>1. /\ Sound(messages) /\ messages \in Seq(Msg) /\ Len(messages) # 0
      /\ messages[Len(messages)].kind = "assistant"
  BY DEF IInv, Sound, Batch, Dispatch
<1>2. Last(messages) = messages[Len(messages)]
  BY DEF Last
<1>3. messages' = Cat(messages, Results(messages))
  BY <1>2 DEF Dispatch, Push, NextId, Results, Cat
<1>4. Sound(messages')
  BY <1>1, <1>3, SoundResults
<1>5. Streaming'
  BY StreamKept DEF Dispatch, IInv
<1>6. Control' /\ Batch'
  BY DEF Dispatch, IInv, Control, Batch
<1>7. QED
  BY <1>4, <1>5, <1>6 DEF IInv, Sound

\* The steps that change neither the conversation nor the stream, and those
\* that drop the stream.
LEMMA QuietIInv ==
  ASSUME IInv,
         \/ Abort \/ CompactNot \/ CompactFails \/ RequestFails
         \/ EndOfBody \/ StreamFails \/ DispatchStops
         \/ UNCHANGED vars
  PROVE  IInv'
<1>1. messages' = messages /\ iteration' = iteration
  BY DEF Abort, CompactNot, CompactFails, RequestFails, EndOfBody, StreamFails,
         DispatchStops, vars, driver
<1>2. pc' = pc \/ pc' \in {"request", "idle", "commit"}
  BY DEF Abort, CompactNot, CompactFails, RequestFails, EndOfBody, StreamFails,
         DispatchStops, vars, driver
<1>3. aborted' = aborted \/ aborted' = TRUE
  BY DEF Abort, CompactNot, CompactFails, RequestFails, EndOfBody, StreamFails,
         DispatchStops, vars
<1>4. DropStream \/ UNCHANGED net
  BY DEF Abort, CompactNot, CompactFails, RequestFails, EndOfBody, StreamFails,
         DispatchStops, vars
<1>5. Streaming'
  BY <1>4, NothingComes, StreamKept DEF IInv
<1>6. aborted' \in BOOLEAN
  BY <1>3 DEF IInv, Control
<1>7. Control' /\ Batch'
  BY <1>1, <1>2, <1>6 DEF IInv, Control, Batch
<1>8. QED
  BY <1>1, <1>5, <1>7 DEF IInv, Sound

LEMMA BeginIInv ==
  ASSUME IInv, Begin
  PROVE  IInv'
<1>1. messages' = messages \o <<User(Len(messages) + 1)>>
  BY DEF Begin, Push, NextId
<1>2. Sound(messages')
  BY <1>1, SoundUser DEF IInv
<1>3. Streaming'
  BY StreamKept DEF Begin, IInv
<1>4. pc' = "top" /\ iteration' = 0 /\ aborted' = FALSE
  BY DEF Begin
<1>5. iteration' \in 0 .. MaxIterations
  BY <1>4, TurnAssumption
<1>6. aborted' \in BOOLEAN
  BY <1>4, Zenon
<1>7. Control' /\ Batch'
  BY <1>4, <1>5, <1>6 DEF Control, Batch
<1>8. QED
  BY <1>2, <1>3, <1>7 DEF IInv, Sound

\* The invariant holds in every reachable state.
LEMMA Inductive == Spec => []IInv
<1>1. Init => IInv
  BY InitIInv
<1>2. IInv /\ [Next]_vars => IInv'
  <2> SUFFICES ASSUME IInv, [Next]_vars PROVE IInv'
    OBVIOUS
  <2>1. ASSUME NEW r \in Replies, Request(r) PROVE IInv'
    BY <2>1, RequestIInv
  <2>2. ASSUME NEW c \in ChunkSizes, Receive(Least(c, Len(body) - pos)) PROVE IInv'
    BY <2>2, ReceiveIInv
  <2>3. QED
    BY <2>1, <2>2, BeginIInv, TopIInv, CompactIInv, CommitIInv, DispatchIInv, QuietIInv
       DEF Next
<1>3. QED
  BY <1>1, <1>2, PTL DEF Spec

-----------------------------------------------------------------------------
(* What follows from it.                                                    *)

\* Every reachable state is of the declared types: the conversation numbers its
\* messages by their places, and whatever the network does to the bytes of a
\* reply, the turn under way has a stop reason of the driver's.
THEOREM Types == Spec => []TypeOK
<1>1. IInv => TypeOK
  <2> SUFFICES ASSUME IInv PROVE TypeOK
    OBVIOUS
  <2>1. PICK n \in Nat : n = Len(messages) /\ DOMAIN messages = 1 .. n
    BY DEF IInv, Sound
  <2>2. ASSUME NEW i \in DOMAIN messages
        PROVE  /\ messages[i].kind \in Kinds \ {"summary"} /\ messages[i].id = i
               /\ messages[i].covers \in 0 .. i - 1 /\ messages[i].kept \in 0 .. i - 1
    <3>1. messages[i] \in Msg
      BY DEF IInv, Sound
    <3>2. messages[i].kind \in Kinds
      BY <3>1 DEF Msg
    <3>3. NumberedAt(messages, i)
      BY <2>1 DEF IInv, Sound, SoundAt
    <3>4. QED
      BY <3>2, <3>3 DEF NumberedAt
  <2>3. st.turn.stop \in StopReasons /\ st.agg.pending \in StopReasons \union {NoFinish}
    BY DEF IInv, Streaming, StreamStates, Turn, Aggregator
  <2>4. QED
    BY <2>2, <2>3 DEF IInv, Streaming, Control, TypeOK
<1>2. QED
  BY <1>1, Inductive, PTL

\* However often the conversation is compacted, the model is sent every user
\* message of it, in order (transform_outgoing): what it keeps of the one
\* before the newest marker and what stays visible behind it are together all.
THEOREM UsersAreKept == Spec => []UserTurnsKept
<1>1. IInv => UserTurnsKept
  <2> SUFFICES ASSUME IInv, NEW s \in Sources
               PROVE  Users(TransformOutgoing(s)) = Users(s)
    BY DEF UserTurnsKept
  <2>1. messages \in Seq(Msg)
    BY DEF IInv, Sound
  <2>2. Visible(messages) \in Seq(Msg)
    BY <2>1, OfKindsTyped DEF Visible
  <2>3. s \in Seq(Msg)
    BY <2>1, <2>2 DEF Sources
  <2>4. QED
    BY <2>3, UsersReachModel
<1>2. QED
  BY <1>1, Inductive, PTL

-----------------------------------------------------------------------------
(* Calls and their results on the wire.                                     *)

\* c is a, and b behind it.
Joins(c, a, b) ==
  /\ Len(c) = Len(a) + Len(b)
  /\ \A i \in 1 .. Len(a) : c[i] = a[i]
  /\ \A i \in 1 .. Len(b) : c[Len(a) + i] = b[i]

\* Where the messages of two sequences are, one put after the other.
LEMMA CatAt ==
  ASSUME NEW a \in Seq(Msg), NEW b \in Seq(Msg)
  PROVE  Joins(Cat(a, b), a, b)
<1>1. PICK n \in Nat, m \in Nat : n = Len(a) /\ m = Len(b)
  OBVIOUS
<1>2. /\ Len(a \o b) = n + m
      /\ \A i \in 1 .. n + m : (a \o b)[i] = IF i <= n THEN a[i] ELSE b[i - n]
  BY <1>1, ConcatProperties
<1>3. PICK c : c = Cat(a, b)
  OBVIOUS
<1>4. Len(c) = n + m /\ \A i \in 1 .. n + m : c[i] = IF i <= n THEN a[i] ELSE b[i - n]
  BY <1>2, <1>3 DEF Cat
<1>5. \A i \in 1 .. n : i \in 1 .. n + m /\ i <= n
  OBVIOUS
<1>6. \A i \in 1 .. m : n + i \in 1 .. n + m /\ ~(n + i <= n) /\ (n + i) - n = i
  OBVIOUS
<1>7. /\ Len(c) = n + m /\ \A i \in 1 .. n : c[i] = a[i]
      /\ \A i \in 1 .. m : c[n + i] = b[i]
  BY <1>4, <1>5, <1>6
<1>8. Joins(c, a, b)
  BY <1>1, <1>7 DEF Joins
<1>9. QED
  BY <1>3, <1>8

\* a is the first j messages of s, b the others.
InParts(s, j, a, b) ==
  /\ s = Cat(a, b) /\ Len(a) = j /\ Len(b) = Len(s) - j
  /\ \A i \in 1 .. j : a[i] = s[i]
  /\ \A i \in 1 .. Len(s) - j : b[i] = s[j + i]

\* A conversation in two parts, the first of length j.
LEMMA TwoParts ==
  ASSUME NEW s \in Seq(Msg), NEW j \in 0 .. Len(s)
  PROVE  \E a \in Seq(Msg), b \in Seq(Msg) : InParts(s, j, a, b)
<1>1. PICK n \in Nat : n = Len(s)
  OBVIOUS
<1>2. j \in 0 .. n /\ n - j \in Nat /\ j \in Nat
  BY <1>1
<1>3. PICK a \in Seq(Msg) : Len(a) = j /\ \A i \in 1 .. j : a[i] = s[i]
  <2>1. \A i \in 1 .. j : s[i] \in Msg
    BY <1>1, <1>2
  <2>2. PICK g \in [1 .. j -> Msg] : g = [i \in 1 .. j |-> s[i]]
    BY <2>1
  <2>3. g \in Seq(Msg) /\ DOMAIN g = 1 .. j
    BY <1>2, SeqDef
  <2>4. Len(g) = j
    BY <1>2, <2>3
  <2>5. QED
    BY <2>2, <2>3, <2>4
<1>4. PICK b \in Seq(Msg) : Len(b) = n - j /\ \A i \in 1 .. n - j : b[i] = s[j + i]
  <2>1. PICK l \in Nat : l = n - j
    BY <1>2
  <2>2. \A i \in 1 .. l : s[j + i] \in Msg
    BY <1>1, <1>2, <2>1
  <2>3. PICK g \in [1 .. l -> Msg] : g = [i \in 1 .. l |-> s[j + i]]
    BY <2>2
  <2>4. g \in Seq(Msg) /\ DOMAIN g = 1 .. l
    BY <2>1, SeqDef
  <2>5. Len(g) = l
    <3>1. Len(g) \in Nat /\ DOMAIN g = 1 .. Len(g)
      BY <2>4
    <3>2. \A x, y \in Nat : 1 .. x = 1 .. y => x = y
      OBVIOUS
    <3>3. QED
      BY <2>1, <2>4, <3>1, <3>2
  <2>6. QED
    BY <2>1, <2>3, <2>4, <2>5
<1>5. PICK c \in Seq(Msg) : c = Cat(a, b)
  BY CatTyped
<1>6. /\ Len(c) = n /\ \A i \in 1 .. j : c[i] = s[i]
      /\ \A i \in 1 .. n - j : c[j + i] = s[j + i]
  <2>1. Joins(c, a, b)
    BY <1>5, CatAt
  <2>2. /\ Len(c) = j + (n - j) /\ \A i \in 1 .. j : c[i] = a[i]
        /\ \A i \in 1 .. n - j : c[j + i] = b[i]
    BY <1>3, <1>4, <2>1 DEF Joins
  <2>3. j + (n - j) = n
    BY <1>2
  <2>4. QED
    BY <1>3, <1>4, <2>2, <2>3
<1>7. ASSUME NEW i \in 1 .. n PROVE c[i] = s[i]
  <2>1. CASE i <= j
    BY <1>2, <1>6, <2>1
  <2>2. CASE i > j
    <3>1. i - j \in 1 .. n - j /\ j + (i - j) = i
      BY <1>2, <2>2
    <3>2. QED
      BY <1>6, <3>1
  <2>3. QED
    BY <1>2, <2>1, <2>2
<1>8. c = s
  BY <1>1, <1>6, <1>7, SeqEqual
<1>9. InParts(s, j, a, b)
  BY <1>1, <1>3, <1>4, <1>5, <1>8 DEF InParts
<1>10. QED
  BY <1>9

\* Message x of s is number p of those of the kinds K.
IsPlace(s, K, p) ==
  \E a \in Seq(Msg), b \in Seq(Msg), x \in Msg :
    /\ s = Cat(Append(a, x), b) /\ x.kind \in K
    /\ OfKinds(s, K)[p] = x /\ Len(OfKinds(a, K)) = p - 1

\* Whatever is gathered has its place.
LEMMA OfKindsPlace ==
  ASSUME NEW s \in Seq(Msg), NEW K
  PROVE  \A p \in 1 .. Len(OfKinds(s, K)) : IsPlace(s, K, p)
<1> DEFINE C == {u \in Seq(Msg) : \A p \in 1 .. Len(OfKinds(u, K)) : IsPlace(u, K, p)}
<1>1. <<>> \in C
  <2>1. OfKinds(<<>>, K) = <<>> /\ <<>> \in Seq(Msg) /\ Len(<<>>) = 0
    BY OfKindsNothing
  <2>2. QED
    BY <2>1
<1>2. ASSUME NEW u \in Seq(Msg), NEW x \in Msg, u \in C PROVE Append(u, x) \in C
  <2>1. PICK t \in Seq(Msg) : t = Append(u, x)
    BY AppendProperties
  <2>2. PICK v \in Seq(Msg) : v = OfKinds(u, K)
    BY OfKindsTyped
  <2>3. PICK w \in Seq(Msg) : w = Append(v, x)
    BY AppendProperties
  <2>4. OfKinds(t, K) = IF x.kind \in K THEN w ELSE v
    BY <2>1, <2>2, <2>3, OfKindsAppend
  <2>5. PICK m \in Nat : m = Len(v)
    OBVIOUS
  <2>6. Len(w) = m + 1 /\ w[m + 1] = x /\ \A i \in 1 .. m : w[i] = v[i]
    BY <2>3, <2>5, AppendProperties
  <2>7. ASSUME NEW p \in 1 .. m PROVE IsPlace(t, K, p)
    <3>1. IsPlace(u, K, p)
      BY <1>2, <2>2, <2>5
    <3>2. PICK a \in Seq(Msg), b \in Seq(Msg), y \in Msg :
            /\ u = Cat(Append(a, y), b) /\ y.kind \in K
            /\ v[p] = y /\ Len(OfKinds(a, K)) = p - 1
      BY <2>2, <3>1 DEF IsPlace
    <3>3. PICK ay \in Seq(Msg), bx \in Seq(Msg) : ay = Append(a, y) /\ bx = Append(b, x)
      BY AppendProperties
    <3>4. t = Cat(ay, bx)
      <4>1. Cat(ay, Append(b, x)) = Append(Cat(ay, b), x)
        BY CatAppend
      <4>2. QED
        BY <2>1, <3>2, <3>3, <4>1
    <3>5. OfKinds(t, K)[p] = y
      BY <2>4, <2>6, <3>2
    <3>6. QED
      BY <3>2, <3>3, <3>4, <3>5 DEF IsPlace
  <2>8. ASSUME x.kind \in K PROVE IsPlace(t, K, m + 1)
    <3>1. <<>> \in Seq(Msg)
      OBVIOUS
    <3>2. t = Cat(t, <<>>)
      BY CatEmpty
    <3>3. OfKinds(t, K)[m + 1] = x
      BY <2>4, <2>6, <2>8
    <3>4. Len(OfKinds(u, K)) = (m + 1) - 1
      BY <2>2, <2>5
    <3>5. t = Cat(Append(u, x), <<>>)
      BY <2>1, <3>2
    <3>6. QED
      BY <2>8, <3>1, <3>3, <3>4, <3>5 DEF IsPlace
  <2>9. \A p \in 1 .. Len(OfKinds(t, K)) : IsPlace(t, K, p)
    <3>1. CASE x.kind \in K
      <4>1. \A p \in 1 .. m + 1 : p \in 1 .. m \/ p = m + 1
        OBVIOUS
      <4>2. QED
        BY <2>4, <2>6, <2>7, <2>8, <3>1, <4>1
    <3>2. CASE x.kind \notin K
      BY <2>4, <2>5, <2>7, <3>2
    <3>3. QED
      BY <3>1, <3>2
  <2>10. QED
    BY <2>1, <2>9
<1>3. s \in C
  <2> HIDE DEF C
  <2>1. QED
    BY <1>1, <1>2, SeqGrows
<1>4. QED
  BY <1>3

\* What becomes of results when everything invisible is left out: they stay in
\* place, since nothing invisible stands between a call and its result.
LEMMA ResultsStayVisible ==
  ASSUME NEW s \in Seq(Msg), ResultsInPlace(s)
  PROVE  ResultsInPlace(Visible(s))
<1>0. PICK K : K = VisibleKinds
  OBVIOUS
<1>1. "tool" \in K /\ "assistant" \in K
  BY <1>0 DEF VisibleKinds, Kinds
<1>2. PICK v \in Seq(Msg) : v = OfKinds(s, K) /\ v = Visible(s)
  BY <1>0, OfKindsTyped DEF Visible
<1>3. PICK n \in Nat : n = Len(s)
  OBVIOUS
<1>4. ASSUME NEW p \in 1 .. Len(v), v[p].kind = "tool" PROVE ResultAt(v, p)
  <2>1. IsPlace(s, K, p)
    BY <1>2, OfKindsPlace
  <2>2. PICK a \in Seq(Msg), b \in Seq(Msg), x \in Msg :
          /\ s = Cat(Append(a, x), b) /\ v[p] = x /\ Len(OfKinds(a, K)) = p - 1
    BY <1>2, <2>1 DEF IsPlace
  <2>3. PICK e \in Nat : e = Len(a) + 1
    OBVIOUS
  <2>4. e \in 1 .. n /\ s[e] = x /\ \A i \in 1 .. e - 1 : s[i] = a[i]
    <3>1. PICK ax \in Seq(Msg) : ax = Append(a, x)
      BY AppendProperties
    <3>2. Len(ax) = e /\ ax[e] = x /\ \A i \in 1 .. e - 1 : ax[i] = a[i]
      BY <2>3, <3>1, AppendProperties
    <3>3. s = Cat(ax, b) /\ e \in 1 .. e /\ \A i \in 1 .. e - 1 : i \in 1 .. e
      BY <2>2, <2>3, <3>1
    <3>4. Joins(s, ax, b)
      BY <3>3, CatAt
    <3>5. Len(b) \in Nat
      OBVIOUS
    <3>6. n = e + Len(b) /\ \A i \in 1 .. e : s[i] = ax[i]
      BY <1>3, <3>2, <3>4 DEF Joins
    <3>7. QED
      BY <2>3, <3>2, <3>3, <3>5, <3>6
  <2>5. PICK j \in 1 .. e - 1 :
          s[j].kind = "assistant" /\ e - j <= Len(s[j].calls) /\ Answered(s, j)
    <3>1. ResultAt(s, e)
      BY <1>3, <2>4 DEF ResultsInPlace
    <3>2. QED
      BY <1>4, <2>2, <2>4, <3>1 DEF ResultAt
  <2>6. j \in 1 .. n /\ j \in Nat /\ j >= 1 /\ j <= e - 1 /\ s[j] \in Msg
    BY <1>3, <2>4, <2>5
  <2>0. PICK calls \in Seq(Nat) : calls = s[j].calls
    BY <2>6 DEF Msg
  <2>7. PICK m \in Nat : calls = s[j].calls /\ m = Len(calls)
    BY <2>0
  <2>8. m >= 1 /\ e - j \in 1 .. m
    BY <2>5, <2>6, <2>7
  <2>9. \A k \in 1 .. m : j + k \in 1 .. n /\ s[j + k].kind = "tool" /\ s[j + k].of = calls[k]
    BY <1>3, <2>5, <2>7 DEF Answered
  <2>10. j + m \in 1 .. n
    BY <2>8, <2>9
  <2>11. PICK a1 \in Seq(Msg), b1 \in Seq(Msg) :
           /\ s = Cat(a1, b1) /\ Len(a1) = j - 1 /\ Len(b1) = n - (j - 1)
           /\ \A i \in 1 .. j - 1 : a1[i] = s[i]
           /\ \A i \in 1 .. n - (j - 1) : b1[i] = s[(j - 1) + i]
    <3>1. j - 1 \in 0 .. Len(s)
      BY <1>3, <2>6
    <3>2. PICK a1 \in Seq(Msg), b1 \in Seq(Msg) : InParts(s, j - 1, a1, b1)
      BY <3>1, TwoParts
    <3>3. QED
      BY <1>3, <3>2 DEF InParts
  <2>12. PICK h \in Seq(Msg), c \in Seq(Msg) :
           /\ b1 = Cat(h, c) /\ Len(h) = m + 1
           /\ \A i \in 1 .. m + 1 : h[i] = b1[i]
    <3>1. m + 1 \in 0 .. Len(b1)
      BY <2>6, <2>10, <2>11
    <3>2. PICK h \in Seq(Msg), c \in Seq(Msg) : InParts(b1, m + 1, h, c)
      BY <3>1, TwoParts
    <3>3. QED
      BY <3>2 DEF InParts
  <2>13. \A i \in 1 .. m + 1 : h[i] = s[(j - 1) + i]
    <3>1. \A i \in 1 .. m + 1 : i \in 1 .. n - (j - 1)
      BY <2>6, <2>10
    <3>2. QED
      BY <2>11, <2>12, <3>1
  <2>14. /\ h[1] = s[j]
         /\ \A k \in 1 .. m : h[k + 1] = s[j + k]
    <3>1. 1 \in 1 .. m + 1 /\ (j - 1) + 1 = j
      BY <2>6
    <3>2. \A k \in 1 .. m : k + 1 \in 1 .. m + 1 /\ (j - 1) + (k + 1) = j + k
      BY <2>6
    <3>3. QED
      BY <2>13, <3>1, <3>2
  <2>15. \A i \in 1 .. m + 1 : h[i].kind \in K
    <3> SUFFICES ASSUME NEW i \in 1 .. m + 1 PROVE h[i].kind \in K
      OBVIOUS
    <3>1. CASE i = 1
      BY <1>1, <2>5, <2>14, <3>1
    <3>2. CASE i # 1
      <4>1. PICK k \in 1 .. m : i = k + 1
        <5>1. i - 1 \in 1 .. m /\ i = (i - 1) + 1
          BY <3>2
        <5>2. QED
          BY <5>1
      <4>2. QED
        BY <1>1, <2>9, <2>14, <4>1
    <3>3. QED
      BY <3>1, <3>2
  <2>16. OfKinds(h, K) = h
    BY <2>12, <2>15, OfKindsNoneAll
  <2>17. PICK o \in Seq(Msg), oc \in Seq(Msg), hc \in Seq(Msg) :
           o = OfKinds(a1, K) /\ oc = OfKinds(c, K) /\ hc = Cat(h, oc)
    BY OfKindsTyped, CatTyped
  <2>18. v = Cat(o, hc)
    <3>1. OfKinds(Cat(a1, b1), K) = Cat(OfKinds(a1, K), OfKinds(b1, K))
      BY OfKindsConcat
    <3>2. OfKinds(Cat(h, c), K) = Cat(OfKinds(h, K), OfKinds(c, K))
      BY OfKindsConcat
    <3>3. QED
      BY <1>2, <2>11, <2>12, <2>16, <2>17, <3>1, <3>2
  <2>19. PICK q \in Nat : q = Len(o)
    OBVIOUS
  <2>20. /\ \A i \in 1 .. m + 1 : q + i \in 1 .. Len(v) /\ v[q + i] = h[i]
    <3>1. Joins(v, o, hc) /\ Joins(hc, h, oc)
      BY <2>17, <2>18, CatAt
    <3>2. PICK y \in Nat : y = Len(oc)
      OBVIOUS
    <3>3. Len(hc) = (m + 1) + y /\ \A i \in 1 .. m + 1 : hc[i] = h[i]
      BY <2>12, <3>1, <3>2 DEF Joins
    <3>4. Len(v) = q + ((m + 1) + y) /\ \A i \in 1 .. (m + 1) + y : v[q + i] = hc[i]
      BY <2>19, <3>1, <3>3 DEF Joins
    <3>5. \A i \in 1 .. m + 1 : i \in 1 .. (m + 1) + y /\ q + i \in 1 .. q + ((m + 1) + y)
      OBVIOUS
    <3>6. QED
      BY <3>3, <3>4, <3>5
  <2>21. p - 1 = q + (e - j)
    <3>1. PICK f \in Seq(Msg), g \in Seq(Msg) :
            Len(f) = e - j /\ \A i \in 1 .. e - j : f[i] = h[i]
      <4>1. e - j \in 0 .. Len(h)
        <5>1. Len(h) = m + 1
          BY <2>12
        <5>2. e - j \in 0 .. m + 1
          BY <2>8
        <5>3. QED
          BY <5>1, <5>2
      <4>2. PICK f \in Seq(Msg), g \in Seq(Msg) : InParts(h, e - j, f, g)
        BY <4>1, TwoParts
      <4>3. QED
        BY <4>2 DEF InParts
    <3>2. PICK d \in Seq(Msg) : d = Cat(a1, f)
      BY CatTyped
    <3>3. /\ Len(d) = e - 1 /\ \A i \in 1 .. j - 1 : d[i] = s[i]
          /\ \A i \in 1 .. e - j : d[(j - 1) + i] = s[(j - 1) + i]
      <4>1. Joins(d, a1, f)
        BY <3>2, CatAt
      <4>2. /\ Len(d) = (j - 1) + (e - j) /\ \A i \in 1 .. j - 1 : d[i] = a1[i]
            /\ \A i \in 1 .. e - j : d[(j - 1) + i] = f[i]
        BY <2>11, <3>1, <4>1 DEF Joins
      <4>3. (j - 1) + (e - j) = e - 1
        BY <2>6
      <4>4. \A i \in 1 .. e - j : i \in 1 .. m + 1
        BY <2>8
      <4>5. QED
        BY <2>11, <2>13, <3>1, <4>2, <4>3, <4>4
    <3>4. \A i \in 1 .. e - 1 : d[i] = a[i]
      <4> SUFFICES ASSUME NEW i \in 1 .. e - 1 PROVE d[i] = a[i]
        OBVIOUS
      <4>1. CASE i <= j - 1
        BY <2>4, <2>5, <3>3, <4>1
      <4>2. CASE ~(i <= j - 1)
        <5>1. i - (j - 1) \in 1 .. e - j /\ (j - 1) + (i - (j - 1)) = i
          BY <2>4, <2>5, <4>2
        <5>2. d[i] = s[i]
          BY <3>3, <5>1
        <5>3. QED
          BY <2>4, <5>2
      <4>3. QED
        BY <4>1, <4>2
    <3>5. d = a
      <4>1. Len(a) = e - 1
        BY <2>3
      <4>2. QED
        BY <3>3, <3>4, <4>1, SeqEqual
    <3>6. OfKinds(f, K) = f
      <4>1. \A i \in 1 .. e - j : i \in 1 .. m + 1
        BY <2>8
      <4>2. \A i \in 1 .. Len(f) : f[i].kind \in K
        BY <2>15, <3>1, <4>1
      <4>3. QED
        BY <4>2, OfKindsNoneAll
    <3>7. OfKinds(Cat(a1, f), K) = Cat(OfKinds(a1, K), OfKinds(f, K))
      BY OfKindsConcat
    <3>8. Len(Cat(o, f)) = q + (e - j)
      <4>1. Joins(Cat(o, f), o, f)
        BY CatAt
      <4>2. QED
        BY <2>19, <3>1, <4>1 DEF Joins
    <3>9. QED
      BY <2>2, <2>17, <3>2, <3>5, <3>6, <3>7, <3>8
  <2>22. q + 1 \in 1 .. p - 1 /\ p - (q + 1) = e - j
    BY <2>8, <2>21
  <2>23. v[q + 1] = s[j]
    <3>1. 1 \in 1 .. m + 1
      OBVIOUS
    <3>2. QED
      BY <2>14, <2>20, <3>1
  <2>24. ASSUME NEW k \in 1 .. m
         PROVE  /\ (q + 1) + k \in 1 .. Len(v)
                /\ v[(q + 1) + k].kind = "tool" /\ v[(q + 1) + k].of = calls[k]
    <3>1. k + 1 \in 1 .. m + 1 /\ (q + 1) + k = q + (k + 1)
      OBVIOUS
    <3>2. QED
      BY <2>9, <2>14, <2>20, <3>1
  <2>25. Answered(v, q + 1)
    BY <2>7, <2>23, <2>24 DEF Answered
  <2>26. QED
    BY <2>5, <2>22, <2>23, <2>25 DEF ResultAt
<1>5. ASSUME NEW p \in 1 .. Len(v) PROVE ResultAt(v, p)
  BY <1>4 DEF ResultAt
<1>6. QED
  BY <1>2, <1>5 DEF ResultsInPlace

\* What is gathered is of the kinds asked for.
LEMMA OfKindsHave ==
  ASSUME NEW s \in Seq(Msg), NEW K
  PROVE  \A i \in 1 .. Len(OfKinds(s, K)) : OfKinds(s, K)[i].kind \in K
<1> DEFINE C == {u \in Seq(Msg) : \A i \in 1 .. Len(OfKinds(u, K)) : OfKinds(u, K)[i].kind \in K}
<1>1. <<>> \in C
  <2>1. OfKinds(<<>>, K) = <<>>
    BY OfKindsNothing
  <2>2. QED
    BY <2>1
<1>2. ASSUME NEW u \in Seq(Msg), NEW x \in Msg, u \in C
      PROVE  Append(u, x) \in C
  <2>1. PICK t \in Seq(Msg) : t = Append(u, x)
    BY AppendProperties
  <2>2. PICK v \in Seq(Msg) : v = OfKinds(u, K)
    BY OfKindsTyped
  <2>3. PICK w \in Seq(Msg) : w = Append(v, x)
    BY AppendProperties
  <2>4. OfKinds(t, K) = IF x.kind \in K THEN w ELSE v
    BY <2>1, <2>2, <2>3, OfKindsAppend
  <2>5. PICK m \in Nat : m = Len(v)
    OBVIOUS
  <2>6. Len(w) = m + 1 /\ w[m + 1] = x /\ \A i \in 1 .. m : w[i] = v[i]
    BY <2>3, <2>5, AppendProperties
  <2>7. \A i \in 1 .. m : v[i].kind \in K
    BY <1>2, <2>2, <2>5
  <2>8. \A i \in 1 .. m + 1 : i \in 1 .. m \/ i = m + 1
    OBVIOUS
  <2>9. \A i \in 1 .. Len(OfKinds(t, K)) : OfKinds(t, K)[i].kind \in K
    <3>1. CASE x.kind \in K
      BY <2>4, <2>6, <2>7, <2>8, <3>1
    <3>2. CASE x.kind \notin K
      BY <2>4, <2>5, <2>7, <3>2
    <3>3. QED
      BY <3>1, <3>2
  <2>10. QED
    BY <2>1, <2>9
<1>3. s \in C
  <2> HIDE DEF C
  <2>1. QED
    BY <1>1, <1>2, SeqGrows
<1>4. QED
  BY <1>3

\* The results behind the newest marker are all there are in what the model is
\* sent, and they are in place: their calls are behind that marker too.
LEMMA ResultsReachModel ==
  ASSUME NEW s \in Seq(Msg), ResultsInPlace(s)
  PROVE  /\ TransformOutgoing(s) \in Seq(Msg) /\ ResultsInPlace(TransformOutgoing(s))
         /\ Visible(TransformOutgoing(s)) = TransformOutgoing(s)
<1> DEFINE k == LastMarker(s)
           a == SubSeq(s, 1, k - 1)
           b == SubSeq(s, k + 1, Len(s))
<1>1. TransformOutgoing(s) =
        IF k = 0 THEN Visible(s) ELSE Cat(Cat(Users(a), <<Summary(s[k])>>), Visible(b))
  BY DEF TransformOutgoing, LastMarker, Cat
<1>2. PICK K, U : K = VisibleKinds /\ U = {"user"}
  OBVIOUS
<1>3. K \intersect K = K /\ U \intersect K = U /\ "summary" \in K /\ "tool" \notin U
  BY <1>2 DEF VisibleKinds, Kinds
<1>4. \A t : Users(t) = OfKinds(t, U) /\ Visible(t) = OfKinds(t, K)
  BY <1>2 DEF Users, Visible
<1>5. CASE k = 0
  <2>1. TransformOutgoing(s) = OfKinds(s, K)
    BY <1>1, <1>4, <1>5
  <2>2. OfKinds(s, K) \in Seq(Msg) /\ OfKinds(OfKinds(s, K), K) = OfKinds(s, K)
    BY <1>3, OfKindsTyped, OfKindsTwice
  <2>3. ResultsInPlace(OfKinds(s, K))
    BY <1>4, ResultsStayVisible
  <2>4. QED
    BY <1>4, <2>1, <2>2, <2>3
<1>6. CASE k # 0
  <2>1. /\ k \in 1 .. Len(s) /\ s[k].kind = "marker"
        /\ \A i \in k + 1 .. Len(s) : s[i].kind # "marker"
    BY <1>6, LastMarkerIs
  <2>2. /\ a \in Seq(Msg) /\ b \in Seq(Msg) /\ s[k] \in Msg
        /\ Len(b) = Len(s) - k /\ \A i \in 1 .. Len(s) - k : b[i] = s[k + i]
    BY <2>1, Parts
  <2>3. PICK x \in Msg : x = Summary(s[k]) /\ x.kind = "summary"
    BY <2>2, SummaryTyped
  <2> HIDE DEF a, b, k
  <2>4. PICK n \in Nat, m \in Nat : n = Len(s) /\ m = Len(b) /\ m = n - k
    BY <2>2
  <2>5. k \in 1 .. n /\ \A i \in 1 .. m : i + k \in k + 1 .. n /\ k + i = i + k
    BY <2>1, <2>4
  <2>6. \A i \in 1 .. m : b[i] \in Msg /\ b[i].kind # "marker"
    <3>1. \A i \in 1 .. m : b[i] \in Msg
      BY <2>2, <2>4
    <3>2. ASSUME NEW i \in 1 .. m PROVE b[i].kind # "marker"
      <4>1. b[i] = s[k + i] /\ k + i \in k + 1 .. Len(s)
        BY <2>2, <2>4, <2>5
      <4>2. QED
        BY <2>1, <4>1
    <3>3. QED
      BY <3>1, <3>2
  <2>7. \A i \in 1 .. Len(b) : b[i].kind \in K
    BY <1>2, <2>4, <2>6 DEF Msg, VisibleKinds
  <2>8. OfKinds(b, K) = b
    BY <2>2, <2>7, OfKindsNoneAll
  <2>9. PICK ua \in Seq(Msg) : ua = OfKinds(a, U)
    BY <2>2, OfKindsTyped
  <2>10. PICK xx \in Seq(Msg) : xx = <<x>> /\ OfKinds(xx, K) = xx /\ Len(xx) = 1 /\ xx[1] = x
    <3>1. <<x>> \in Seq(Msg) /\ OfKinds(<<x>>, K) = <<x>>
      BY <1>3, <2>3, OfKindsOne
    <3>2. QED
      BY <3>1
  <2>11. PICK h \in Seq(Msg) : h = Cat(ua, xx)
    BY CatTyped
  <2>12. PICK w \in Seq(Msg) : w = Cat(h, b)
    BY <2>2, CatTyped
  <2>13. TransformOutgoing(s) = w
    BY <1>1, <1>4, <1>6, <2>3, <2>8, <2>9, <2>10, <2>11, <2>12
  <2>14. OfKinds(w, K) = w
    <3>1. OfKinds(ua, K) = ua
      BY <1>3, <2>2, <2>9, OfKindsTwice
    <3>2. OfKinds(Cat(ua, xx), K) = Cat(OfKinds(ua, K), OfKinds(xx, K))
      BY OfKindsConcat
    <3>3. OfKinds(h, K) = h
      BY <2>10, <2>11, <3>1, <3>2
    <3>4. OfKinds(Cat(h, b), K) = Cat(OfKinds(h, K), OfKinds(b, K))
      BY <2>2, OfKindsConcat
    <3>5. QED
      BY <2>8, <2>12, <3>3, <3>4
  <2>15. PICK q \in Nat : q = Len(h)
    OBVIOUS
  <2>16. \A i \in 1 .. q : h[i].kind # "tool"
    <3>1. \A i \in 1 .. Len(ua) : ua[i].kind # "tool"
      BY <1>3, <2>2, <2>9, OfKindsHave
    <3>2. PICK p \in Nat : p = Len(ua)
      OBVIOUS
    <3>3. /\ Len(ua \o xx) = Len(ua) + Len(xx)
          /\ \A i \in 1 .. Len(ua) + Len(xx) :
               (ua \o xx)[i] = IF i <= Len(ua) THEN ua[i] ELSE xx[i - Len(ua)]
      BY ConcatProperties
    <3>4. q = p + 1 /\ \A i \in 1 .. p + 1 : h[i] = IF i <= p THEN ua[i] ELSE xx[i - p]
      BY <2>10, <2>11, <2>15, <3>2, <3>3 DEF Cat
    <3>5. \A i \in 1 .. p + 1 : i \in 1 .. p \/ (~(i <= p) /\ i - p = 1)
      OBVIOUS
    <3>6. QED
      BY <2>3, <2>10, <3>1, <3>2, <3>4, <3>5
  <2>17. Len(w) = q + m /\ \A i \in 1 .. q + m : w[i] = IF i <= q THEN h[i] ELSE b[i - q]
    <3>1. /\ Len(h \o b) = Len(h) + Len(b)
          /\ \A i \in 1 .. Len(h) + Len(b) :
               (h \o b)[i] = IF i <= Len(h) THEN h[i] ELSE b[i - Len(h)]
      BY <2>2, ConcatProperties
    <3>2. QED
      BY <2>4, <2>12, <2>15, <3>1 DEF Cat
  <2>18. ASSUME NEW i \in q + 1 .. q + m PROVE w[i] = s[i - q + k]
    <3>1. i \in 1 .. q + m /\ ~(i <= q) /\ i - q \in 1 .. m /\ k + (i - q) = i - q + k
      BY <2>5
    <3>2. QED
      BY <2>2, <2>4, <2>17, <3>1
  <2>19. ASSUME NEW i \in 1 .. q + m, w[i].kind = "tool" PROVE ResultAt(w, i)
    <3>1. i \in q + 1 .. q + m
      BY <2>16, <2>17, <2>19
    <3>2. PICK e \in 1 .. n : e = i - q + k
      BY <2>4, <2>5, <3>1
    <3>3. w[i] = s[e]
      BY <2>18, <3>1, <3>2
    <3>4. ResultAt(s, e)
      BY <2>4 DEF ResultsInPlace
    <3>5. PICK j \in 1 .. e - 1 :
            s[j].kind = "assistant" /\ e - j <= Len(s[j].calls) /\ Answered(s, j)
      BY <2>19, <3>3, <3>4 DEF ResultAt
    <3>6. PICK calls \in Seq(Nat), l \in Nat : calls = s[j].calls /\ l = Len(calls)
      <4>0. j \in 1 .. n
        BY <3>2, <3>5
      <4>1. s[j] \in Msg
        BY <2>4, <4>0
      <4>2. PICK calls \in Seq(Nat) : calls = s[j].calls
        BY <4>1 DEF Msg
      <4>3. QED
        BY <4>2
    <3>7. \A c \in 1 .. l : j + c \in 1 .. n /\ s[j + c].kind = "tool" /\ s[j + c].of = calls[c]
      BY <2>4, <3>5, <3>6 DEF Answered
    <3>8. j > k
      <4>1. j # k
        BY <2>1, <3>5
      <4>2. ~(j < k)
        <5>0. /\ k \in Nat /\ j \in Nat /\ e \in Nat /\ k < e /\ e - j <= l
          <6>1. k \in Nat /\ e \in Nat
            BY <2>5, <3>2
          <6>2. PICK u \in 1 .. m : u = i - q
            BY <3>1
          <6>3. e = u + k
            BY <3>2, <6>2
          <6>4. k < e
            BY <6>1, <6>2, <6>3
          <6>5. j \in Nat
            BY <3>2, <3>5
          <6>6. e - j <= l
            BY <3>5, <3>6
          <6>7. QED
            BY <6>1, <6>4, <6>5, <6>6
        <5>1. j < k => k - j \in 1 .. l /\ j + (k - j) = k
          BY <5>0
        <5>2. j < k => s[k].kind = "tool"
          BY <3>7, <5>1
        <5>3. QED
          BY <2>1, <5>2
      <4>3. QED
        BY <2>5, <3>5, <4>1, <4>2
    <3>9. PICK d \in Int : d = j - k + q
      BY <2>5, <3>5
    <3>10. /\ d \in 1 .. i - 1 /\ d \in q + 1 .. q + m /\ d - q + k = j
           /\ i - d = e - j
      BY <2>4, <2>5, <3>1, <3>2, <3>5, <3>8, <3>9
    <3>11. w[d] = s[j]
      BY <2>18, <3>10
    <3>12. ASSUME NEW c \in 1 .. l
           PROVE  d + c \in 1 .. Len(w) /\ w[d + c].kind = "tool" /\ w[d + c].of = calls[c]
      <4>1. j + c \in 1 .. n
        BY <3>7
      <4>2. d + c \in q + 1 .. q + m /\ (d + c) - q + k = j + c
        BY <2>4, <2>5, <3>9, <3>10, <4>1
      <4>3. w[d + c] = s[j + c]
        BY <2>18, <4>2
      <4>4. QED
        BY <2>17, <3>7, <4>2, <4>3
    <3>13. Answered(w, d)
      BY <3>6, <3>11, <3>12 DEF Answered
    <3>14. QED
      BY <3>5, <3>10, <3>11, <3>13 DEF ResultAt
  <2>20. ResultsInPlace(w)
    BY <2>17, <2>19 DEF ResultsInPlace, ResultAt
  <2>21. QED
    BY <1>4, <2>13, <2>14, <2>20
<1>7. QED
  BY <1>5, <1>6

\* A batch is answered whole in every request, or not at all: each tool result
\* is one of those of all the calls of an assistant message, right behind it and
\* in order.  Compaction never parts a call from its result, and a batch is
\* stored whole or not at all (transform_outgoing, dispatch_tools,
\* build_request).
THEOREM WireAnswers == Spec => []WireAnswersCalls
<1>1. IInv => WireAnswersCalls
  <2> SUFFICES ASSUME IInv, NEW s \in Sources,
                      NEW i \in DOMAIN BuildRequest(TransformOutgoing(s)),
                      BuildRequest(TransformOutgoing(s))[i].role = "tool"
               PROVE  LET w == BuildRequest(TransformOutgoing(s))
                      IN  \E j \in 1 .. i - 1 :
                            /\ w[j].role = "assistant" /\ i - j <= Len(w[j].calls)
                            /\ \A k \in 1 .. Len(w[j].calls) :
                                 /\ j + k \in DOMAIN w /\ w[j + k].role = "tool"
                                 /\ w[j + k].of = w[j].calls[k]
    BY DEF WireAnswersCalls
  <2>1. messages \in Seq(Msg) /\ ResultsInPlace(messages)
    BY DEF IInv, Sound, SoundAt, ResultsInPlace
  <2>2. Visible(messages) \in Seq(Msg) /\ ResultsInPlace(Visible(messages))
    BY <2>1, OfKindsTyped, ResultsStayVisible DEF Visible
  <2>3. s \in Seq(Msg) /\ ResultsInPlace(s)
    BY <2>1, <2>2 DEF Sources
  <2>4. PICK t \in Seq(Msg) : /\ t = TransformOutgoing(s) /\ ResultsInPlace(t)
                              /\ Visible(t) = t
    BY <2>3, ResultsReachModel
  <2>5. PICK n \in Nat : n = Len(t) /\ DOMAIN t = 1 .. n
    OBVIOUS
  <2>6. PICK w : w = BuildRequest(t)
    OBVIOUS
  <2>7. w = [j \in 1 .. n |-> MessageToWire(t[j])]
    BY <2>4, <2>5, <2>6 DEF BuildRequest
  <2>8. i \in 1 .. n /\ w[i].role = "tool"
    BY <2>4, <2>6, <2>7
  <2>9. ASSUME NEW j \in 1 .. n
        PROVE  /\ w[j].role = (IF t[j].kind = "summary" THEN "assistant" ELSE t[j].kind)
               /\ w[j].calls = t[j].calls /\ w[j].of = t[j].of
    BY <2>7 DEF MessageToWire
  <2>10. t[i].kind = "tool"
    BY <2>8, <2>9
  <2>11. ResultAt(t, i)
    BY <2>4, <2>5, <2>8 DEF ResultsInPlace
  <2>12. PICK j \in 1 .. i - 1 :
           t[j].kind = "assistant" /\ i - j <= Len(t[j].calls) /\ Answered(t, j)
    BY <2>10, <2>11 DEF ResultAt
  <2>13. j \in 1 .. n
    BY <2>8, <2>12
  <2>14. w[j].role = "assistant" /\ w[j].calls = t[j].calls
    BY <2>9, <2>12, <2>13
  <2>15. ASSUME NEW k \in 1 .. Len(w[j].calls)
         PROVE  /\ j + k \in DOMAIN w /\ w[j + k].role = "tool"
                /\ w[j + k].of = w[j].calls[k]
    <3>1. j + k \in 1 .. n /\ t[j + k].kind = "tool" /\ t[j + k].of = t[j].calls[k]
      BY <2>5, <2>12, <2>14 DEF Answered
    <3>2. QED
      BY <2>7, <2>9, <2>14, <3>1
  <2>16. QED
    BY <2>4, <2>6, <2>12, <2>14, <2>15
<1>2. QED
  BY <1>1, Inductive, PTL

-----------------------------------------------------------------------------
(* What compaction loses.                                                   *)

\* A later marker's summary covers what an earlier one's does: its cut is no
\* earlier, as no fewer turns were to be kept from there on.
LEMMA CutsGrow ==
  ASSUME NEW s, Sound(s), NEW k \in 1 .. Len(s), NEW i \in 1 .. k - 1,
         IsMarker(s[k]), IsMarker(s[i])
  PROVE  s[i].covers <= s[k].covers
<1>1. PICK n \in Nat : n = Len(s)
  BY DEF Sound
<1>2. k \in 1 .. n /\ i \in 1 .. n
  BY <1>1
<1>3. /\ NumberedAt(s, i) /\ CutAt(s, i)
      /\ NumberedAt(s, k) /\ CutAt(s, k)
  BY <1>1, <1>2 DEF Sound, SoundAt
<1>4. PICK c \in 0 .. i - 1, d \in 0 .. i - 1 : c = s[i].covers /\ d = s[i].kept
  BY <1>3 DEF NumberedAt
<1>5. PICK e \in 0 .. k - 1, f \in 0 .. k - 1 : e = s[k].covers /\ f = s[k].kept
  BY <1>3 DEF NumberedAt
<1>6. /\ c \in 1 .. d - 1 /\ VisibleToModel(s[c])
      /\ Cardinality({j \in d .. i : IsTurn(s[j])}) = KeptTurns
  BY <1>3, <1>4 DEF CutAt
<1>7. /\ e \in 1 .. f - 1 /\ IsTurn(s[f])
      /\ \A j \in e + 1 .. f - 1 : ~VisibleToModel(s[j])
      /\ Cardinality({j \in f .. k : IsTurn(s[j])}) = KeptTurns
  BY <1>3, <1>5 DEF CutAt
<1>8. d <= f
  <2> SUFFICES ASSUME f < d PROVE FALSE
    BY <1>4, <1>5
  <2> DEFINE S == {j \in d .. i : IsTurn(s[j])}
             T == {j \in f .. k : IsTurn(s[j])}
  <2>1. IsFiniteSet(T) /\ IsFiniteSet(S)
    <3>1. d \in Int /\ i \in Int /\ f \in Int /\ k \in Int
      BY <1>2, <1>4, <1>5
    <3>2. IsFiniteSet(d .. i) /\ IsFiniteSet(f .. k)
      BY <3>1, FS_Interval
    <3>3. S \subseteq d .. i /\ T \subseteq f .. k
      OBVIOUS
    <3> HIDE DEF S, T
    <3>4. QED
      BY <3>2, <3>3, FS_Subset
  <2>2. f \notin S /\ f \in T /\ S \subseteq T
    <3>1. f \notin d .. i /\ f \in f .. k
      BY <1>2, <1>4, <1>5
    <3>2. \A j \in d .. i : j \in f .. k
      BY <1>2, <1>4, <1>5
    <3>3. QED
      BY <1>7, <3>1, <3>2
  <2>3. Cardinality(S) = KeptTurns /\ Cardinality(T) = KeptTurns
    BY <1>6, <1>7
  <2> HIDE DEF S, T
  <2>4. Cardinality(S \union {f}) = Cardinality(S) + 1
    BY <2>1, <2>2, FS_AddElement
  <2>5. Cardinality(S \union {f}) <= Cardinality(T)
    <3>1. S \union {f} \subseteq T
      BY <2>2
    <3>2. QED
      BY <2>1, <3>1, FS_Subset
  <2>6. KeptTurns \in Nat
    BY <2>1, <2>3, FS_CardinalityType
  <2>7. QED
    BY <2>3, <2>4, <2>5, <2>6
<1>9. ~(e < c)
  <2> SUFFICES ASSUME e < c PROVE FALSE
    OBVIOUS
  <2>1. c \in e + 1 .. f - 1
    <3>1. c \in Nat /\ d \in Nat /\ e \in Nat /\ f \in Nat /\ c <= d - 1
      BY <1>4, <1>5, <1>6
    <3>2. QED
      BY <1>8, <3>1
  <2>2. QED
    BY <1>6, <1>7, <2>1
<1>10. QED
  BY <1>4, <1>5, <1>9

\* The ids of two sequences, one put after the other.
LEMMA IdsBoth ==
  ASSUME NEW a \in Seq(Msg), NEW b \in Seq(Msg)
  PROVE  Ids(Cat(a, b)) = Ids(a) \union Ids(b)
<1>1. PICK n \in Nat, m \in Nat : n = Len(a) /\ m = Len(b) /\ DOMAIN a = 1 .. n /\ DOMAIN b = 1 .. m
  OBVIOUS
<1>2. PICK c \in Seq(Msg) : c = Cat(a, b)
  BY CatTyped
<1>3. /\ Len(c) = n + m
      /\ \A i \in 1 .. n : c[i] = a[i]
      /\ \A i \in 1 .. m : c[n + i] = b[i]
  <2>1. Joins(c, a, b)
    BY <1>2, CatAt
  <2>2. QED
    BY <1>1, <2>1 DEF Joins
<1>4. DOMAIN c = 1 .. n + m
  BY <1>3
<1>5. ASSUME NEW z PROVE z \in Ids(c) <=> z \in Ids(a) \union Ids(b)
  <2>1. ASSUME z \in Ids(c) PROVE z \in Ids(a) \union Ids(b)
    <3>1. PICK i \in 1 .. n + m : z = c[i].id
      BY <1>4, <2>1 DEF Ids
    <3>2. CASE i <= n
      <4>1. i \in 1 .. n
        BY <3>2
      <4>2. QED
        BY <1>1, <1>3, <3>1, <4>1 DEF Ids
    <3>3. CASE ~(i <= n)
      <4>1. i - n \in 1 .. m /\ n + (i - n) = i
        BY <3>3
      <4>2. QED
        BY <1>1, <1>3, <3>1, <4>1 DEF Ids
    <3>4. QED
      BY <3>2, <3>3
  <2>2. ASSUME z \in Ids(a) PROVE z \in Ids(c)
    <3>1. PICK i \in 1 .. n : z = a[i].id
      BY <1>1, <2>2 DEF Ids
    <3>2. i \in 1 .. n + m /\ z = c[i].id
      BY <1>3, <3>1
    <3>3. QED
      BY <1>4, <3>2 DEF Ids
  <2>3. ASSUME z \in Ids(b) PROVE z \in Ids(c)
    <3>1. PICK i \in 1 .. m : z = b[i].id
      BY <1>1, <2>3 DEF Ids
    <3>2. n + i \in 1 .. n + m /\ z = c[n + i].id
      BY <1>3, <3>1
    <3>3. QED
      BY <1>4, <3>2 DEF Ids
  <2>4. QED
    BY <2>1, <2>2, <2>3
<1>6. QED
  BY <1>2, <1>5

\* The ids of one message.
LEMMA IdsOne == \A x : Ids(<<x>>) = {x.id}
<1> SUFFICES ASSUME NEW x PROVE Ids(<<x>>) = {x.id}
  OBVIOUS
<1>1. DOMAIN <<x>> = {1} /\ <<x>>[1] = x
  OBVIOUS
<1>2. QED
  BY <1>1 DEF Ids

\* The ids of what is gathered.
LEMMA IdsOfKinds ==
  ASSUME NEW s \in Seq(Msg), NEW K
  PROVE  \A z : z \in Ids(OfKinds(s, K)) <=> \E i \in 1 .. Len(s) : s[i].kind \in K /\ s[i].id = z
<1> DEFINE C == {u \in Seq(Msg) : \A z : z \in Ids(OfKinds(u, K)) <=>
                   \E i \in 1 .. Len(u) : u[i].kind \in K /\ u[i].id = z}
<1>1. <<>> \in C
  <2>1. <<>> \in Seq(Msg) /\ Len(<<>>) = 0 /\ OfKinds(<<>>, K) = <<>>
    BY OfKindsNothing
  <2>2. Ids(<<>>) = {}
    BY DEF Ids
  <2>3. QED
    BY <2>1, <2>2
<1>2. ASSUME NEW u \in Seq(Msg), NEW x \in Msg, u \in C PROVE Append(u, x) \in C
  <2>1. PICK t \in Seq(Msg) : t = Append(u, x)
    BY AppendProperties
  <2>2. PICK n \in Nat : n = Len(u)
    OBVIOUS
  <2>3. Len(t) = n + 1 /\ t[n + 1] = x /\ \A i \in 1 .. n : t[i] = u[i]
    BY <2>1, <2>2, AppendProperties
  <2>4. PICK v \in Seq(Msg), xx \in Seq(Msg) : v = OfKinds(u, K) /\ xx = <<x>>
    <3>1. <<x>> \in Seq(Msg)
      OBVIOUS
    <3>2. QED
      BY <3>1, OfKindsTyped
  <2>5. OfKinds(t, K) = IF x.kind \in K THEN Cat(v, xx) ELSE v
    <3>1. OfKinds(t, K) = IF x.kind \in K THEN Append(v, x) ELSE v
      BY <2>1, <2>4, OfKindsAppend
    <3>2. Append(v, x) = v \o <<x>>
      BY AppendIsConcat
    <3>3. Append(v, x) = Cat(v, xx)
      BY <2>4, <3>2 DEF Cat
    <3>4. QED
      BY <3>1, <3>3
  <2>6. Ids(Cat(v, xx)) = Ids(v) \union {x.id}
    <3>1. Ids(Cat(v, xx)) = Ids(v) \union Ids(xx)
      BY IdsBoth
    <3>2. Ids(xx) = {x.id}
      BY <2>4, IdsOne, Zenon
    <3>3. QED
      BY <3>1, <3>2
  <2>7. \A z : z \in Ids(v) <=> \E i \in 1 .. n : u[i].kind \in K /\ u[i].id = z
    BY <1>2, <2>2, <2>4
  <2>8. /\ \A i \in 1 .. n + 1 : i \in 1 .. n \/ i = n + 1
        /\ \A i \in 1 .. n : i \in 1 .. n + 1
        /\ n + 1 \in 1 .. n + 1
    OBVIOUS
  <2>9. \A z : z \in Ids(OfKinds(t, K)) <=> z \in Ids(v) \/ (x.kind \in K /\ x.id = z)
    BY <2>5, <2>6
  <2>10. \A z : (\E i \in 1 .. n + 1 : t[i].kind \in K /\ t[i].id = z)
                <=> (\E i \in 1 .. n : u[i].kind \in K /\ u[i].id = z) \/ (x.kind \in K /\ x.id = z)
    BY <2>3, <2>8
  <2>11. \A z : z \in Ids(OfKinds(t, K)) <=> \E i \in 1 .. Len(t) : t[i].kind \in K /\ t[i].id = z
    BY <2>3, <2>7, <2>9, <2>10
  <2>12. QED
    BY <2>1, <2>11
<1>3. s \in C
  <2> HIDE DEF C
  <2>1. QED
    BY <1>1, <1>2, SeqGrows
<1>4. QED
  BY <1>3

\* Which messages of a compacted conversation are sent: the user messages before
\* the newest marker k, its summary, and what is visible behind it.
Reaches(s, k, z) ==
  \/ z \in 1 .. k - 1 /\ s[z].kind = "user"
  \/ z = k
  \/ z \in k + 1 .. Len(s) /\ VisibleToModel(s[z])

LEMMA IdsSent ==
  ASSUME NEW s \in Seq(Msg), \A i \in 1 .. Len(s) : s[i].id = i, LastMarker(s) # 0
  PROVE  \A z : z \in Ids(TransformOutgoing(s)) <=> Reaches(s, LastMarker(s), z)
<1>1. PICK k \in 1 .. Len(s) : k = LastMarker(s)
  BY LastMarkerIs
<1>2. PICK n \in Nat : n = Len(s)
  OBVIOUS
<1>3. PICK a \in Seq(Msg) : /\ a = SubSeq(s, 1, k - 1) /\ Len(a) = k - 1
                            /\ \A i \in 1 .. k - 1 : a[i] = s[i]
  BY Parts
<1>4. PICK b \in Seq(Msg) : /\ b = SubSeq(s, k + 1, Len(s)) /\ Len(b) = n - k
                            /\ \A i \in 1 .. n - k : b[i] = s[k + i]
  <2>1. /\ SubSeq(s, k + 1, Len(s)) \in Seq(Msg) /\ Len(SubSeq(s, k + 1, Len(s))) = Len(s) - k
        /\ \A i \in 1 .. Len(s) - k : SubSeq(s, k + 1, Len(s))[i] = s[k + i]
    BY Parts
  <2>2. QED
    BY <1>2, <2>1
<1>5. PICK x \in Msg : x = Summary(s[k]) /\ x.id = k
  <2>1. s[k] \in Msg /\ s[k].id = k
    BY Parts
  <2>2. Summary(s[k]) \in Msg
    BY <2>1, SummaryTyped
  <2>3. Summary(s[k]).id = s[k].id
    BY <2>1 DEF Summary, Msg
  <2>4. QED
    BY <2>1, <2>2, <2>3
<1>6. PICK ua \in Seq(Msg), vb \in Seq(Msg) : ua = Users(a) /\ vb = Visible(b)
  BY OfKindsTyped DEF Users, Visible
<1>7. PICK xx \in Seq(Msg) : xx = <<x>>
  <2>1. <<x>> \in Seq(Msg)
    OBVIOUS
  <2>2. QED
    BY <2>1
<1>8. PICK h \in Seq(Msg) : h = Cat(ua, xx)
  BY CatTyped
<1>9. TransformOutgoing(s) = Cat(h, vb)
  <2>1. TransformOutgoing(s) =
          IF LastMarker(s) = 0 THEN Visible(s)
          ELSE Cat(Cat(Users(SubSeq(s, 1, LastMarker(s) - 1)), <<Summary(s[LastMarker(s)])>>),
                   Visible(SubSeq(s, LastMarker(s) + 1, Len(s))))
    BY DEF TransformOutgoing, LastMarker, Cat
  <2>2. QED
    BY <1>1, <1>3, <1>4, <1>5, <1>6, <1>7, <1>8, <2>1
<1>10. Ids(TransformOutgoing(s)) = (Ids(ua) \union {k}) \union Ids(vb)
  <2>1. Ids(xx) = {x.id}
    BY <1>7, IdsOne, Zenon
  <2>2. Ids(Cat(ua, xx)) = Ids(ua) \union Ids(xx)
    BY IdsBoth
  <2>3. Ids(Cat(h, vb)) = Ids(h) \union Ids(vb)
    BY IdsBoth
  <2>4. QED
    BY <1>5, <1>8, <1>9, <2>1, <2>2, <2>3
<1>11. \A z : z \in Ids(ua) <=> z \in 1 .. k - 1 /\ s[z].kind = "user"
  <2>1. PICK U : U = {"user"}
    OBVIOUS
  <2>2. \A z : z \in Ids(ua) <=> \E i \in 1 .. Len(a) : a[i].kind \in U /\ a[i].id = z
    <3>1. ua = OfKinds(a, U)
      BY <1>6, <2>1 DEF Users
    <3>2. QED
      BY <3>1, IdsOfKinds
  <2>3. \A i \in 1 .. k - 1 : i \in 1 .. Len(s) /\ a[i] = s[i] /\ s[i].id = i
    BY <1>1, <1>2, <1>3
  <2>4. \A z : z \in Ids(ua) <=> \E i \in 1 .. k - 1 : s[i].kind \in U /\ i = z
    BY <1>3, <2>2, <2>3
  <2>5. QED
    BY <2>1, <2>4
<1>12. \A z : z \in Ids(vb) <=> z \in k + 1 .. Len(s) /\ VisibleToModel(s[z])
  <2>1. PICK K : K = VisibleKinds
    OBVIOUS
  <2>2. \A z : z \in Ids(vb) <=> \E i \in 1 .. Len(b) : b[i].kind \in K /\ b[i].id = z
    <3>1. vb = OfKinds(b, K)
      BY <1>6, <2>1 DEF Visible
    <3>2. QED
      BY <3>1, IdsOfKinds
  <2>3. \A i \in 1 .. n - k : k + i \in k + 1 .. n /\ b[i] = s[k + i] /\ s[k + i].id = k + i
    <3>1. \A i \in 1 .. n - k : k + i \in k + 1 .. n /\ k + i \in 1 .. n
      BY <1>1, <1>2
    <3>2. QED
      BY <1>2, <1>4, <3>1
  <2>4. \A z \in k + 1 .. n : z - k \in 1 .. n - k /\ k + (z - k) = z
    OBVIOUS
  <2>5. ASSUME NEW z, z \in Ids(vb) PROVE z \in k + 1 .. Len(s) /\ VisibleToModel(s[z])
    <3>1. PICK i \in 1 .. n - k : b[i].kind \in K /\ b[i].id = z
      BY <1>4, <2>2, <2>5
    <3>2. z = k + i /\ s[z].kind \in K /\ z \in k + 1 .. n
      BY <2>3, <3>1
    <3>3. QED
      BY <1>2, <2>1, <3>2 DEF VisibleToModel
  <2>6. ASSUME NEW z \in k + 1 .. n, VisibleToModel(s[z]) PROVE z \in Ids(vb)
    <3>1. b[z - k] = s[z] /\ s[z].id = z /\ z - k \in 1 .. Len(b)
      BY <1>4, <2>3, <2>4
    <3>2. QED
      BY <2>1, <2>2, <2>6, <3>1 DEF VisibleToModel
  <2>7. QED
    BY <1>2, <2>5, <2>6
<1>13. QED
  BY <1>1, <1>10, <1>11, <1>12 DEF Reaches

\* Of what the newest summary does not cover, the transform drops the replies and
\* results of the turns it was to keep, of which there were the configured
\* number, and nothing else; and however many markers are stacked, the newest
\* summary covers what the earlier ones do (pick_cut, transform_outgoing).
THEOREM KeptTurnsAreMissing == Spec => []OnlyKeptTurnsMissing
<1>1. IInv => OnlyKeptTurnsMissing
  <2> SUFFICES ASSUME IInv PROVE OnlyKeptTurnsMissing
    OBVIOUS
  <2>1. messages \in Seq(Msg) /\ Sound(messages)
    BY DEF IInv, Sound
  <2>2. PICK s \in Seq(Msg) : s = messages /\ Sound(s)
    BY <2>1
  <2>3. PICK n \in Nat : n = Len(s) /\ DOMAIN s = 1 .. n
    OBVIOUS
  <2>4. \A i \in 1 .. n : NumberedAt(s, i) /\ CutAt(s, i)
    BY <2>2, <2>3 DEF Sound, SoundAt
  <2>5. PICK k : k = LastMarker(s)
    OBVIOUS
  <2>6. ASSUME k # 0
        PROVE  /\ {i \in DOMAIN s : VisibleToModel(s[i]) /\ i > s[k].covers}
                    \ Ids(TransformOutgoing(s))
                    = {i \in s[k].kept .. k - 1 : s[i].kind \in {"assistant", "tool"}}
               /\ Cardinality({i \in s[k].kept .. k : IsTurn(s[i])}) = KeptTurns
               /\ \A i \in 1 .. k - 1 : IsMarker(s[i]) => s[i].covers <= s[k].covers
    <3>1. k \in 1 .. n /\ IsMarker(s[k])
      BY <2>3, <2>5, <2>6, LastMarkerIs DEF IsMarker
    <3>2. PICK c \in 0 .. k - 1, d \in 0 .. k - 1 : c = s[k].covers /\ d = s[k].kept
      BY <2>4, <3>1 DEF NumberedAt
    <3>3. /\ c \in 1 .. d - 1 /\ \A i \in c + 1 .. d - 1 : ~VisibleToModel(s[i])
          /\ Cardinality({i \in d .. k : IsTurn(s[i])}) = KeptTurns
      BY <2>4, <3>1, <3>2 DEF CutAt
    <3>4. \A z : z \in Ids(TransformOutgoing(s)) <=> Reaches(s, k, z)
      <4>1. \A i \in 1 .. Len(s) : s[i].id = i
        BY <2>3, <2>4 DEF NumberedAt
      <4>2. QED
        BY <2>5, <2>6, <4>1, IdsSent
    <3>5. ASSUME NEW i \in 1 .. n, VisibleToModel(s[i]), i > c, ~Reaches(s, k, i)
          PROVE  i \in d .. k - 1 /\ s[i].kind \in {"assistant", "tool"}
      <4>1. i < k
        BY <2>3, <3>1, <3>5 DEF Reaches
      <4>2. s[i].kind # "user" /\ s[i].kind # "summary"
        BY <2>4, <3>1, <3>5, <4>1 DEF Reaches, NumberedAt
      <4>3. s[i].kind \in {"assistant", "tool"}
        BY <3>5, <4>2 DEF VisibleToModel, VisibleKinds, Kinds
      <4>4. ~(i < d)
        BY <3>2, <3>3, <3>5
      <4>5. i \in d .. k - 1
        BY <3>1, <3>2, <4>1, <4>4
      <4>6. QED
        BY <4>3, <4>5
    <3>6. ASSUME NEW i \in d .. k - 1, s[i].kind \in {"assistant", "tool"}
          PROVE  i \in 1 .. n /\ VisibleToModel(s[i]) /\ i > c /\ ~Reaches(s, k, i)
      <4>1. i \in 1 .. n /\ i > c /\ i < k
        BY <3>1, <3>2, <3>3
      <4>2. VisibleToModel(s[i])
        BY <3>6 DEF VisibleToModel, VisibleKinds, Kinds
      <4>3. ~Reaches(s, k, i)
        BY <3>1, <3>6, <4>1 DEF Reaches
      <4>4. QED
        BY <4>1, <4>2, <4>3
    <3>7. {i \in DOMAIN s : VisibleToModel(s[i]) /\ i > c} \ Ids(TransformOutgoing(s))
            = {i \in d .. k - 1 : s[i].kind \in {"assistant", "tool"}}
      BY <2>3, <3>4, <3>5, <3>6
    <3>8. \A i \in 1 .. k - 1 : IsMarker(s[i]) => s[i].covers <= s[k].covers
      BY <2>2, <2>3, <3>1, CutsGrow
    <3>9. QED
      BY <3>2, <3>3, <3>7, <3>8
  <2>7. QED
    BY <2>2, <2>5, <2>6 DEF OnlyKeptTurnsMissing, LastMarker
<1>2. QED
  BY <1>1, Inductive, PTL

-----------------------------------------------------------------------------
(* The cut of the bytes.                                                    *)

\* The decoder and the stream are what the first p symbols b of reply r's body
\* make of them, taken as one chunk.
DecodedAs(r, b, p, d, s) ==
  LET whole == Feed(NewDecoder, SubSeq(b, 1, p))
  IN  d = [buf |-> whole.buf, pending |-> whole.pending] /\ s = AdvanceAll(r, NewStream, whole.out)

Decoded == DecodedAs(reply, body, pos, dec, st)

\* Before the first byte nothing is decoded.
LEMMA NoneDecoded ==
  ASSUME NEW r, r.events \in Seq(ChatEvents), NEW S, NEW b \in Seq(S)
  PROVE  DecodedAs(r, b, 0, NewDecoder, NewStream)
<1>1. SubSeq(b, 1, 0) = <<>>
  BY SubSeqEmpty
<1>2. <<>> \in Seq(S)
  OBVIOUS
<1>3. NewDecoder = [buf |-> <<>>, pending |-> <<>>]
  BY DEF NewDecoder
<1>4. NewDecoder.buf = <<>> /\ NewDecoder.pending = <<>>
  BY <1>3
<1>5. NewDecoder.buf \in Seq(S) /\ NewDecoder.pending \in Seq(S)
  BY <1>2, <1>4
<1>6. Feed(NewDecoder, <<>>) = Fresh(NewDecoder)
  BY <1>5, FeedEmpty
<1>7. PICK w : w = Feed(NewDecoder, SubSeq(b, 1, 0)) /\ w = Fresh(NewDecoder)
  BY <1>1, <1>6
<1>8. w.buf = <<>> /\ w.pending = <<>> /\ w.out = <<>>
  BY <1>4, <1>7 DEF Fresh
<1>9. AdvanceAll(r, NewStream, <<>>) = NewStream
  BY AdvanceAllEmpty, NewStreamTyped
<1>10. NewDecoder = [buf |-> w.buf, pending |-> w.pending]
  BY <1>3, <1>8
<1>11. NewStream = AdvanceAll(r, NewStream, w.out)
  BY <1>8, <1>9
<1>12. QED
  BY <1>7, <1>10, <1>11 DEF DecodedAs

LEMMA DropDecoded ==
  ASSUME DropStream
  PROVE  Decoded'
<1>1. <<>> \in Seq(ChatEvents) /\ NoReply.events = <<>>
  BY DEF NoReply
<1>2. <<>> \in Seq({})
  OBVIOUS
<1>3. DecodedAs(NoReply, <<>>, 0, NewDecoder, NewStream)
  BY <1>1, <1>2, NoneDecoded
<1>4. QED
  BY <1>3 DEF Decoded, DropStream

\* What has been decoded depends on the bytes, not on how they were cut.
LEMMA ReceiveDecoded ==
  ASSUME IInv, Decoded, NEW n, Receive(n)
  PROVE  Decoded'
<1> DEFINE S == Symbols(reply)
           chunk == SubSeq(body, pos + 1, pos + n)
           fed == Feed(dec, chunk)
           next == AdvanceAll(reply, st, fed.out)
<1>1. CASE next.state = "failed"
  <2>1. DropStream
    BY <1>1 DEF Receive
  <2>2. QED
    BY <2>1, DropDecoded
<1>2. CASE next.state # "failed"
  <2>1. /\ pos' = pos + n /\ dec' = [buf |-> fed.buf, pending |-> fed.pending]
        /\ st' = next /\ reply' = reply /\ body' = body
    BY <1>2 DEF Receive
  <2>2. /\ reply \in Replies \union {NoReply} /\ st \in StreamStates
        /\ body \in Seq(S) /\ pos \in 0 .. Len(body) /\ n \in 1 .. Len(body) - pos
    BY DEF IInv, Streaming, Receive
  <2>3. reply.events \in Seq(ChatEvents)
    <3>1. <<>> \in Seq(ChatEvents)
      OBVIOUS
    <3>2. NoReply.events = <<>>
      BY DEF NoReply
    <3>3. \A r \in Replies : r.events \in Seq(ChatEvents)
      BY TurnAssumption
    <3>4. QED
      BY <2>2, <3>1, <3>2, <3>3
  <2> HIDE DEF S
  <2>4. PICK a \in Seq(S), c \in Seq(S), w \in Seq(S) :
          /\ a = SubSeq(body, 1, pos) /\ c = SubSeq(body, pos + 1, pos + n)
          /\ w = SubSeq(body, 1, pos + n) /\ w = Cat(a, c)
    <3>1. PICK l \in Nat : l = Len(body)
      BY <2>2
    <3>2. PICK q \in Nat : q = pos + n /\ q <= l /\ pos \in Nat /\ pos <= q
      BY <2>2, <3>1
    <3>3. \A i \in 1 .. l : body[i] \in S
      BY <2>2, <3>1
    <3>4. SubSeq(body, 1, pos) \in Seq(S)
      BY <3>2, <3>3, SubSeqProperties
    <3>5. SubSeq(body, pos + 1, q) \in Seq(S)
      BY <3>2, <3>3, SubSeqProperties
    <3>6. SubSeq(body, 1, q) \in Seq(S)
      BY <3>2, <3>3, SubSeqProperties
    <3>7. SubSeq(body, 1, pos) \o SubSeq(body, pos + 1, q) = SubSeq(body, 1, q)
      <4>1. 1 \in 1 .. Len(body) + 1 /\ pos \in 1 - 1 .. Len(body) /\ q \in pos .. Len(body)
        BY <3>1, <3>2
      <4>2. QED
        BY <2>2, <4>1, ConcatAdjacentSubSeq
    <3>8. QED
      BY <3>2, <3>4, <3>5, <3>6, <3>7 DEF Cat
  <2>5. NewDecoder.buf \in Seq(S) /\ NewDecoder.pending \in Seq(S)
    <3>1. <<>> \in Seq(S)
      OBVIOUS
    <3>2. QED
      BY <3>1 DEF NewDecoder
  <2>6. PICK f \in Decoding(S) : f = Feed(NewDecoder, a)
    BY <2>5, FeedTyped
  <2>7. f.buf \in Seq(S) /\ f.pending \in Seq(S) /\ f.out \in Seq(S)
    BY DEF Decoding
  <2>8. dec = [buf |-> f.buf, pending |-> f.pending] /\ st = AdvanceAll(reply, NewStream, f.out)
    BY <2>4, <2>6 DEF Decoded, DecodedAs
  <2>9. PICK g \in Decoding(S) : g = Feed(f, c)
    BY <2>7, FeedTyped
  <2>10. g.out \in Seq(S)
    BY DEF Decoding
  <2>11. fed = g
    <3>1. dec.buf = f.buf /\ dec.pending = f.pending
      BY <2>8
    <3>2. Feed(dec, c) = Feed(f, c)
      BY <3>1, FeedFromHeld
    <3>3. QED
      BY <2>4, <2>9, <3>2
  <2>12. Feed(NewDecoder, Cat(a, c)) = Joined(f.out, Feed(f, c))
    <3>1. FedInTwo(NewDecoder, a, c, f)
      BY <2>5, <2>6, FeedInTwo DEF Holds
    <3>2. QED
      BY <3>1 DEF FedInTwo
  <2>13. PICK v : v = Feed(NewDecoder, w) /\ v = Joined(f.out, g)
    BY <2>4, <2>9, <2>12
  <2>14. v.buf = g.buf /\ v.pending = g.pending /\ v.out = Cat(f.out, g.out)
    BY <2>13 DEF Joined
  <2>15. AdvanceAll(reply, NewStream, Cat(f.out, g.out)) =
           AdvanceAll(reply, AdvanceAll(reply, NewStream, f.out), g.out)
    BY <2>3, <2>7, <2>10, AdvanceInTwo, NewStreamTyped DEF S
  <2>16. next = AdvanceAll(reply, NewStream, v.out)
    BY <2>8, <2>11, <2>14, <2>15
  <2> HIDE DEF next
  <2>17. dec' = [buf |-> v.buf, pending |-> v.pending]
    BY <2>1, <2>11, <2>14
  <2> HIDE DEF fed
  <2>18. DecodedAs(reply, body, pos + n, dec', st')
    BY <2>1, <2>4, <2>13, <2>16, <2>17 DEF DecodedAs
  <2>19. QED
    BY <2>1, <2>18 DEF Decoded
<1>3. QED
  BY <1>1, <1>2

\* The cut of the bytes makes no difference: what the decoder holds, and the
\* turn and the calls assembled so far, are what all the bytes that came make
\* of them when they come as one chunk, wherever the network parted them -
\* inside a line, between CR and LF, or between two events (SseDecoder::feed,
\* stream_chat).
THEOREM CutsMakeNoDifference == Spec => []Decoded
<1>1. Init => Decoded
  <2> SUFFICES ASSUME Init PROVE Decoded
    OBVIOUS
  <2>1. <<>> \in Seq(ChatEvents) /\ NoReply.events = <<>> /\ <<>> \in Seq({})
    BY DEF NoReply
  <2>2. DecodedAs(NoReply, <<>>, 0, NewDecoder, NewStream)
    BY <2>1, NoneDecoded
  <2>3. QED
    BY <2>2 DEF Init, Decoded
<1>2. IInv /\ Decoded /\ [Next]_vars => Decoded'
  <2> SUFFICES ASSUME IInv, Decoded, [Next]_vars PROVE Decoded'
    OBVIOUS
  <2>1. ASSUME NEW r \in Replies, Request(r) PROVE Decoded'
    <3>1. r.events \in Seq(ChatEvents)
      BY TurnAssumption
    <3>2. DecodedAs(r, Body(r), 0, NewDecoder, NewStream)
      BY <3>1, BodyTyped, NoneDecoded
    <3>3. QED
      BY <2>1, <3>2 DEF Request, Decoded
  <2>2. ASSUME NEW c \in ChunkSizes, Receive(Least(c, Len(body) - pos)) PROVE Decoded'
    BY <2>2, ReceiveDecoded
  <2>3. ASSUME UNCHANGED net PROVE Decoded'
    BY <2>3 DEF net, Decoded
  <2>4. CASE DropStream
    BY <2>4, DropDecoded
  <2>5. Begin \/ Top \/ Compact \/ Dispatch => UNCHANGED net
    BY DEF Begin, Top, Compact, Dispatch
  <2>6. Abort \/ CompactNot \/ CompactFails \/ RequestFails \/ EndOfBody \/ DispatchStops
          \/ UNCHANGED vars => UNCHANGED net
    BY DEF Abort, CompactNot, CompactFails, RequestFails, EndOfBody, DispatchStops, vars
  <2>7. StreamFails \/ Commit => DropStream
    BY DEF StreamFails, Commit
  <2>8. QED
    BY <2>1, <2>2, <2>3, <2>4, <2>5, <2>6, <2>7 DEF Next
<1>3. QED
  BY <1>1, <1>2, Inductive, PTL DEF Spec

WholeBody == body = Body(reply)

LEMMA NoBody == Body(NoReply) = <<>>
<1>1. NoReply.events = <<>> /\ ~NoReply.ping /\ ~NoReply.done
  BY DEF NoReply
<1>2. [i \in DOMAIN <<>> |-> <<DataPrefix, Sym("event", i)>> \o Break(NoReply) \o Break(NoReply)] = <<>>
  OBVIOUS
<1>3. FlattenSeq(<<>>) = <<>>
  BY DEF FlattenSeq
<1>4. <<>> \o <<>> \o <<>> = <<>>
  OBVIOUS
<1>5. QED
  BY <1>1, <1>2, <1>3, <1>4 DEF Body

LEMMA BodyIsWhole == Spec => []WholeBody
<1>1. Init => WholeBody
  BY NoBody DEF Init, WholeBody
<1>2. WholeBody /\ [Next]_vars => WholeBody'
  <2> SUFFICES ASSUME WholeBody, [Next]_vars PROVE WholeBody'
    OBVIOUS
  <2>1. ASSUME UNCHANGED <<reply, body>> PROVE WholeBody'
    BY <2>1 DEF WholeBody
  <2>2. ASSUME DropStream PROVE WholeBody'
    BY <2>2, NoBody DEF DropStream, WholeBody
  <2>3. ASSUME NEW r \in Replies, Request(r) PROVE WholeBody'
    BY <2>3 DEF Request, WholeBody
  <2>4. ASSUME NEW n, Receive(n) PROVE WholeBody'
    <3>1. DropStream \/ UNCHANGED <<reply, body>>
      BY <2>4 DEF Receive
    <3>2. QED
      BY <2>1, <2>2, <3>1
  <2>5. Begin \/ Top \/ Compact \/ Dispatch => UNCHANGED <<reply, body>>
    BY DEF Begin, Top, Compact, Dispatch, net
  <2>6. Abort \/ CompactNot \/ CompactFails \/ RequestFails \/ EndOfBody \/ DispatchStops
          \/ UNCHANGED vars => UNCHANGED <<reply, body>>
    BY DEF Abort, CompactNot, CompactFails, RequestFails, EndOfBody, DispatchStops, vars, net
  <2>7. StreamFails \/ Commit => DropStream
    BY DEF StreamFails, Commit
  <2>8. QED
    BY <2>1, <2>2, <2>3, <2>4, <2>5, <2>6, <2>7 DEF Next
<1>3. QED
  BY <1>1, <1>2, PTL DEF Spec

\* The turn is what the first k events of the reply, and its [DONE], make of it;
\* all of them once the body has come.
Assembled ==
  LET all == Decodable(reply)
  IN  \E k \in 0 .. Len(all) :
        /\ st = AdvanceAll(reply, NewStream, SubSeq(all, 1, k))
        /\ pos = Len(body) => k = Len(all)

\* However the bytes of a reply are cut, the turn is assembled from its events,
\* each once and in order: none is lost, repeated or split by the decoder, and
\* none is left when the last byte has come (SseDecoder, stream_chat).
THEOREM EventsInOrder == Spec => []Assembled
<1>1. IInv /\ Decoded /\ WholeBody => Assembled
  <2> SUFFICES ASSUME IInv, Decoded, WholeBody PROVE Assembled
    OBVIOUS
  <2> DEFINE S == Symbols(reply)
  <2>1. /\ reply \in Replies \union {NoReply} /\ st \in StreamStates
        /\ body \in Seq(S) /\ pos \in 0 .. Len(body)
    BY DEF IInv, Streaming
  <2>2. reply.events \in Seq(ChatEvents)
    <3>1. <<>> \in Seq(ChatEvents)
      OBVIOUS
    <3>2. NoReply.events = <<>>
      BY DEF NoReply
    <3>3. \A r \in Replies : r.events \in Seq(ChatEvents)
      BY TurnAssumption
    <3>4. QED
      BY <2>1, <3>1, <3>2, <3>3
  <2>3. PICK D \in Seq(S) : D = Decodable(reply) /\ Gives(body, D)
    BY <2>2, BodyGives DEF WholeBody
  <2> HIDE DEF S
  <2>4. PICK a \in Seq(S), c \in Seq(S) :
          /\ a = SubSeq(body, 1, pos) /\ c = SubSeq(body, pos + 1, Len(body))
          /\ body = Cat(a, c)
    <3>1. PICK l \in Nat : l = Len(body)
      BY <2>1
    <3>2. \A i \in 1 .. l : body[i] \in S
      BY <2>1, <3>1
    <3>3. SubSeq(body, 1, pos) \in Seq(S)
      BY <2>1, <3>1, <3>2, SubSeqProperties
    <3>4. SubSeq(body, pos + 1, l) \in Seq(S)
      BY <2>1, <3>1, <3>2, SubSeqProperties
    <3>5. SubSeq(body, 1, pos) \o SubSeq(body, pos + 1, l) = SubSeq(body, 1, l)
      <4>1. 1 \in 1 .. Len(body) + 1 /\ pos \in 1 - 1 .. Len(body) /\ l \in pos .. Len(body)
        BY <2>1, <3>1
      <4>2. QED
        BY <2>1, <4>1, ConcatAdjacentSubSeq
    <3>6. SubSeq(body, 1, l) = body
      BY <2>1, <3>1, SubSeqFull
    <3>7. QED
      BY <3>1, <3>3, <3>4, <3>5, <3>6 DEF Cat
  <2>5. PICK f \in Decoding(S) : f = Feed(NewDecoder, a)
    BY NewHolds, FeedTyped DEF Holds
  <2>6. f.buf \in Seq(S) /\ f.pending \in Seq(S) /\ f.out \in Seq(S)
    BY DEF Decoding
  <2>7. st = AdvanceAll(reply, NewStream, f.out)
    BY <2>4, <2>5 DEF Decoded, DecodedAs
  <2>8. PICK g \in Decoding(S) : g = Feed(f, c)
    BY <2>6, FeedTyped
  <2>9. g.out \in Seq(S)
    BY DEF Decoding
  <2>10. Cat(f.out, g.out) = D
    <3>1. FedInTwo(NewDecoder, a, c, f)
      BY <2>5, NewHolds, FeedInTwo
    <3>2. Feed(NewDecoder, body) = Joined(f.out, g)
      BY <2>4, <2>8, <3>1 DEF FedInTwo
    <3>3. PICK h : h = Feed(NewDecoder, body)
      OBVIOUS
    <3>4. h.out = Cat(f.out, g.out)
      BY <3>2, <3>3 DEF Joined
    <3>5. h.out = D
      BY <2>3, <3>3 DEF Gives, Gone
    <3>6. QED
      BY <3>4, <3>5
  <2>11. PICK u \in Seq(S), v \in Seq(S) : u = f.out /\ v = g.out
    BY <2>6, <2>9
  <2>12. PICK k \in Nat : k = Len(u)
    OBVIOUS
  <2>13. k <= Len(D) /\ SubSeq(D, 1, k) = u
    <3>1. /\ Len(u \o v) = Len(u) + Len(v)
          /\ \A i \in 1 .. Len(u) + Len(v) :
               (u \o v)[i] = IF i <= Len(u) THEN u[i] ELSE v[i - Len(u)]
      BY ConcatProperties
    <3>2. PICK m \in Nat : m = Len(v)
      OBVIOUS
    <3>3. Len(D) = k + m /\ \A i \in 1 .. k + m : D[i] = IF i <= k THEN u[i] ELSE v[i - k]
      BY <2>10, <2>11, <2>12, <3>1, <3>2 DEF Cat
    <3>4. \A i \in 1 .. k : i \in 1 .. k + m /\ D[i] = u[i] /\ D[i] \in S
      BY <2>12, <3>3
    <3>5. PICK w \in Seq(S) : w = SubSeq(D, 1, k)
      <4>1. \A i \in 1 .. k : D[i] \in S
        BY <3>4
      <4>2. SubSeq(D, 1, k) \in Seq(S)
        BY <4>1, SubSeqProperties
      <4>3. QED
        BY <4>2
    <3>6. Len(w) = k /\ \A i \in 1 .. k : w[i] = D[i]
      <4>1. k <= Len(D)
        BY <3>3
      <4>2. QED
        BY <3>4, <3>5, <4>1, SubSeqProperties
    <3>7. w = u
      BY <2>12, <3>4, <3>6, SeqEqual
    <3>8. QED
      BY <3>3, <3>5, <3>7
  <2>14. st = AdvanceAll(reply, NewStream, SubSeq(D, 1, k))
    BY <2>7, <2>11, <2>13
  <2>15. ASSUME pos = Len(body) PROVE k = Len(D)
    <3>1. a = body
      BY <2>1, <2>4, <2>15, SubSeqFull
    <3>2. f = Gone(D)
      BY <2>3, <2>5, <3>1 DEF Gives
    <3>3. f.out = D
      BY <3>2 DEF Gone
    <3>4. QED
      BY <2>11, <2>12, <3>3
  <2>16. QED
    BY <2>3, <2>12, <2>13, <2>14, <2>15 DEF Assembled
<1>2. QED
  BY <1>1, Inductive, CutsMakeNoDifference, BodyIsWhole, PTL

-----------------------------------------------------------------------------
(* What the sinks see.                                                      *)

\* A message that has started and not ended, and one that has.
Running(e) == e # <<>> /\ e[1] = "start" /\ \A i \in 2 .. Len(e) : e[i] \notin {"start", "end"}

Over(e)    == \E q \in Seq(ChunkNames) : Running(q) /\ e = Append(q, "end")

OnceOf(e) ==
  \A i, j \in DOMAIN e : /\ e[i] = "start" <=> i = 1
                         /\ e[i] = "end" /\ i <= j => i = j

LEMMA StartRuns == Running(Append(<<>>, "start"))
<1>1. Append(<<>>, "start") = <<"start">>
  OBVIOUS
<1>2. Running(<<"start">>)
  BY DEF Running
<1>3. QED
  BY <1>1, <1>2

LEMMA RunningGoesOn ==
  ASSUME NEW e \in Seq(ChunkNames), Running(e), NEW x \in ChunkNames \ {"start", "end"}
  PROVE  Running(Append(e, x))
<1>1. PICK n \in Nat : n = Len(e)
  OBVIOUS
<1>2. PICK f \in Seq(ChunkNames) : f = Append(e, x)
  BY AppendProperties
<1>3. Len(f) = n + 1 /\ f[n + 1] = x /\ \A i \in 1 .. n : f[i] = e[i]
  BY <1>1, <1>2
<1>4. n # 0
  BY <1>1 DEF Running
<1>5. 1 \in 1 .. n /\ \A i \in 2 .. n + 1 : (i \in 2 .. n /\ i \in 1 .. n) \/ i = n + 1
  BY <1>4
<1>6. e[1] = "start" /\ \A i \in 2 .. n : e[i] \notin {"start", "end"}
  BY <1>1 DEF Running
<1>7. f[1] = "start"
  BY <1>3, <1>5, <1>6
<1>8. \A i \in 2 .. n + 1 : f[i] \notin {"start", "end"}
  BY <1>3, <1>5, <1>6
<1>9. f # <<>>
  BY <1>3
<1>10. QED
  BY <1>2, <1>3, <1>7, <1>8, <1>9 DEF Running

\* A message under way has one start and no end, one that is over has one of each.
LEMMA RunningIsOnce ==
  ASSUME NEW e \in Seq(ChunkNames), Running(e)
  PROVE  OnceOf(e)
<1>1. PICK n \in Nat : n = Len(e) /\ DOMAIN e = 1 .. n
  OBVIOUS
<1>2. e[1] = "start" /\ \A i \in 2 .. n : e[i] # "start" /\ e[i] # "end"
  BY <1>1 DEF Running
<1>3. \A i \in 1 .. n : i = 1 \/ i \in 2 .. n
  OBVIOUS
<1>4. \A i \in 1 .. n : (e[i] = "start" <=> i = 1) /\ e[i] # "end"
  BY <1>2, <1>3
<1>5. QED
  BY <1>1, <1>4 DEF OnceOf

LEMMA OverIsOnce ==
  ASSUME NEW e, Over(e)
  PROVE  OnceOf(e)
<1>1. PICK q \in Seq(ChunkNames) : Running(q) /\ e = Append(q, "end")
  BY DEF Over
<1>2. PICK n \in Nat : n = Len(q)
  OBVIOUS
<1>3. "end" \in ChunkNames
  BY DEF ChunkNames
<1>4. PICK f \in Seq(ChunkNames) : f = Append(q, "end")
  BY <1>3, AppendProperties
<1>5. Len(f) = n + 1 /\ f[n + 1] = "end" /\ \A i \in 1 .. n : f[i] = q[i]
  BY <1>2, <1>3, <1>4, AppendProperties
<1>6. DOMAIN f = 1 .. n + 1
  BY <1>5
<1>7. n # 0
  BY <1>1, <1>2 DEF Running
<1>8. q[1] = "start" /\ \A i \in 2 .. n : q[i] # "start" /\ q[i] # "end"
  BY <1>1, <1>2 DEF Running
<1>9. \A i \in 1 .. n + 1 : (i = 1 /\ i \in 1 .. n) \/ (i \in 2 .. n /\ i \in 1 .. n) \/ i = n + 1
  BY <1>7
<1>10. \A i \in 1 .. n + 1 : (f[i] = "start" <=> i = 1) /\ (f[i] = "end" => i = n + 1)
  BY <1>5, <1>7, <1>8, <1>9
<1>11. \A i, j \in 1 .. n + 1 : f[i] = "end" /\ i <= j => i = j
  BY <1>10
<1>12. QED
  BY <1>1, <1>4, <1>6, <1>10, <1>11 DEF OnceOf

LEMMA NothingIsOnce == OnceOf(<<>>)
  BY DEF OnceOf

LEMMA MiddleGoesOn ==
  ASSUME NEW turn \in Turn, Running(turn.emitted), NEW cs \in Seq(MiddleChunks)
  PROVE  ConsumeAll(turn, cs) \in Turn /\ Running(ConsumeAll(turn, cs).emitted)
<1> DEFINE C == {u \in Seq(MiddleChunks) : Running(ConsumeAll(turn, u).emitted)}
<1>0. MiddleChunks \subseteq Chunks
  BY DEF MiddleChunks
<1>1. <<>> \in C
  <2>1. <<>> \in Seq(MiddleChunks)
    OBVIOUS
  <2>2. ConsumeAll(turn, <<>>) = turn
    BY ConsumeAllEmpty
  <2>3. QED
    BY <2>1, <2>2
<1>2. ASSUME NEW u \in Seq(MiddleChunks), NEW x \in MiddleChunks, u \in C
      PROVE  Append(u, x) \in C
  <2>1. u \in Seq(Chunks) /\ x \in Chunks
    BY <1>0, SeqWider
  <2>2. PICK t \in Turn : t = ConsumeAll(turn, u)
    BY <2>1, ConsumeAllTyped
  <2>3. ConsumeAll(turn, Append(u, x)) = Consume(t, x)
    BY <2>1, <2>2, ConsumeAllAppend
  <2>4. PICK e \in Seq(ChunkNames) : e = t.emitted
    BY DEF Turn
  <2>5. Running(e)
    BY <1>2, <2>2, <2>4
  <2>6. x.c \in ChunkNames \ {"start", "end"}
    BY DEF MiddleChunks, Chunks
  <2>7. Running(Append(e, x.c))
    BY <2>5, <2>6, RunningGoesOn
  <2>8. Consume(t, x).emitted = Append(e, x.c)
    BY <2>4 DEF Consume
  <2>9. Append(u, x) \in Seq(MiddleChunks)
    BY AppendProperties
  <2>10. QED
    BY <2>3, <2>7, <2>8, <2>9
<1>3. cs \in C
  <2> HIDE DEF C
  <2>1. QED
    BY <1>1, <1>2, SeqGrows
<1>4. ConsumeAll(turn, cs) \in Turn
  <2>1. cs \in Seq(Chunks)
    BY <1>0, SeqWider
  <2>2. QED
    BY <2>1, ConsumeAllTyped
<1>5. QED
  BY <1>3, <1>4

\* What the first k events of r leave behind while the stream is open: nothing
\* yet, a message under way, or one that has ended.
Phase(r, k, agg, e) ==
  \/ ~agg.started /\ e = <<>> /\ agg.pending = NoFinish
  \/ agg.started /\ Running(e) /\ (agg.pending # NoFinish => FinishBy(r, k))
  \/ agg.started /\ Over(e) /\ agg.pending = NoFinish /\ ClosedBy(r, k)

\* The end of a message under way.
LEMMA EndsRunning ==
  ASSUME NEW turn \in Turn, Running(turn.emitted), NEW stop \in StopReasons
  PROVE  ConsumeAll(turn, EndOf(stop)) \in Turn /\ Over(ConsumeAll(turn, EndOf(stop)).emitted)
<1>1. PICK x \in Chunks : x = Chunk("end", EmptySlot, stop)
  <2>1. EmptySlot \in Slot
    BY DEF EmptySlot, Slot
  <2>2. Chunk("end", EmptySlot, stop) \in Chunks
    BY <2>1 DEF Chunk, Chunks, ChunkNames
  <2>3. QED
    BY <2>2
<1>2. x.c = "end" /\ EndOf(stop) = <<x>>
  BY <1>1 DEF EndOf, Chunk
<1>3. ConsumeAll(turn, <<x>>) = Consume(turn, x)
  BY ConsumeOne
<1>4. Consume(turn, x) \in Turn
  BY ConsumeTyped
<1>5. Consume(turn, x).emitted = Append(turn.emitted, "end")
  BY <1>2 DEF Consume
<1>6. turn.emitted \in Seq(ChunkNames)
  BY DEF Turn
<1>7. Over(Append(turn.emitted, "end"))
  BY <1>6 DEF Over
<1>8. QED
  BY <1>2, <1>3, <1>4, <1>5, <1>7

\* One event more.
LEMMA EventPhase ==
  ASSUME NEW r, r.events \in Seq(ChatEvents), SilentAfterUsage(r),
         NEW k \in Nat, k + 1 \in DOMAIN r.events,
         NEW agg \in Aggregator, NEW turn \in Turn, Phase(r, k, agg, turn.emitted)
  PROVE  Phase(r, k + 1, Ingest(agg, r.events[k + 1]).agg,
               ConsumeAll(turn, Ingest(agg, r.events[k + 1]).out).emitted)
<1>1. PICK ev \in ChatEvents : ev = r.events[k + 1]
  OBVIOUS
<1>2. PICK a \in Seq(Chunks), b \in Seq(MiddleChunks), c \in Seq(MiddleChunks),
           d \in Seq(Chunks), fin \in StopReasons \union {NoFinish} :
        Adds(agg, ev, a, b, c, d, fin)
  BY IngestOut
<1>3. PICK x \in Aggregator, o \in Seq(Chunks) :
        x = Ingest(agg, ev).agg /\ o = Ingest(agg, ev).out
  BY IngestTyped
<1>4. /\ a = IF agg.started THEN <<>> ELSE <<Chunk("start", EmptySlot, NoFinish)>>
      /\ ev.text = "none" => b = <<>>
      /\ ev.finish = NoFinish => c = <<>>
      /\ fin = IF ev.finish = NoFinish THEN agg.pending ELSE StopReasonFrom(ev.finish)
      /\ d = IF fin # NoFinish /\ ev.usage THEN EndOf(fin) ELSE <<>>
      /\ o = Cat(Cat(Cat(a, b), c), d)
  BY <1>2, <1>3 DEF Adds
<1>5. x.started /\ x.pending = IF fin # NoFinish /\ ev.usage THEN NoFinish ELSE fin
  BY <1>2, <1>3 DEF Adds
<1>6. PICK t \in Turn : t = ConsumeAll(turn, o)
  BY ConsumeAllTyped
<1>7. \A n \in 1 .. k : n \in 1 .. k + 1
  OBVIOUS
<1>8. k + 1 \in 1 .. k + 1 /\ (k + 1) - 1 = k
  OBVIOUS
<1>9. ClosedBy(r, k) => ClosedBy(r, k + 1)
  BY <1>7 DEF ClosedBy
<1>10. FinishBy(r, k) => FinishBy(r, k + 1)
  BY <1>7 DEF FinishBy
<1>11. CASE Over(turn.emitted) /\ agg.started /\ agg.pending = NoFinish /\ ClosedBy(r, k)
  <2>1. ev.finish = NoFinish /\ ev.text = "none"
    BY <1>1, <1>8, <1>11 DEF SilentAfterUsage
  <2>2. a = <<>> /\ b = <<>> /\ c = <<>> /\ d = <<>> /\ fin = NoFinish
    BY <1>4, <1>11, <2>1
  <2>3. o = <<>>
    <3>1. <<>> \in Seq(Chunks)
      OBVIOUS
    <3>2. Cat(<<>>, <<>>) = <<>>
      BY <3>1, NothingBefore
    <3>3. QED
      BY <1>4, <2>2, <3>2
  <2>4. t = turn
    BY <1>6, <2>3, ConsumeAllEmpty
  <2>5. x.pending = NoFinish
    BY <1>5, <2>2
  <2>6. Phase(r, k + 1, x, t.emitted)
    BY <1>5, <1>9, <1>11, <2>4, <2>5 DEF Phase
  <2>7. QED
    BY <1>1, <1>3, <1>6, <2>6
<1>12. CASE \/ turn.emitted = <<>> /\ ~agg.started /\ agg.pending = NoFinish
            \/ Running(turn.emitted) /\ agg.started /\ (agg.pending # NoFinish => FinishBy(r, k))
  <2>1. PICK ta \in Turn : ta = ConsumeAll(turn, a)
    BY ConsumeAllTyped
  <2>2. Running(ta.emitted)
    <3>1. CASE agg.started
      BY <1>4, <1>12, <2>1, <3>1, ConsumeAllEmpty
    <3>2. CASE ~agg.started
      <4>1. PICK y \in Chunks : y = Chunk("start", EmptySlot, NoFinish)
        <5>1. EmptySlot \in Slot
          BY DEF EmptySlot, Slot
        <5>2. Chunk("start", EmptySlot, NoFinish) \in Chunks
          BY <5>1 DEF Chunk, Chunks, ChunkNames
        <5>3. QED
          BY <5>2
      <4>2. ta = Consume(turn, y)
        BY <1>4, <2>1, <3>2, <4>1, ConsumeOne
      <4>3. ta.emitted = Append(<<>>, "start")
        BY <1>12, <3>2, <4>1, <4>2 DEF Consume, Chunk
      <4>4. QED
        BY <4>3, StartRuns
    <3>3. QED
      BY <3>1, <3>2
  <2>3. b \in Seq(Chunks) /\ c \in Seq(Chunks)
    <3>1. MiddleChunks \subseteq Chunks
      BY DEF MiddleChunks
    <3>2. QED
      BY <3>1, SeqWider
  <2>4. PICK tb \in Turn : tb = ConsumeAll(ta, b)
    BY <2>3, ConsumeAllTyped
  <2>5. Running(tb.emitted)
    BY <2>2, <2>4, MiddleGoesOn
  <2>6. PICK tc \in Turn : tc = ConsumeAll(tb, c)
    BY <2>3, ConsumeAllTyped
  <2>7. Running(tc.emitted)
    BY <2>5, <2>6, MiddleGoesOn
  <2>8. t = ConsumeAll(tc, d)
    <3>1. PICK ab \in Seq(Chunks) : ab = Cat(a, b)
      BY <2>3, CatTyped
    <3>2. PICK abc \in Seq(Chunks) : abc = Cat(ab, c)
      BY <2>3, CatTyped
    <3>3. ConsumeAll(turn, Cat(a, b)) = ConsumeAll(ConsumeAll(turn, a), b)
      BY <2>3, ConsumeInTwo
    <3>4. ConsumeAll(turn, Cat(ab, c)) = ConsumeAll(ConsumeAll(turn, ab), c)
      BY <2>3, ConsumeInTwo
    <3>5. ConsumeAll(turn, Cat(abc, d)) = ConsumeAll(ConsumeAll(turn, abc), d)
      BY ConsumeInTwo
    <3>6. QED
      BY <1>4, <1>6, <2>1, <2>4, <2>6, <3>1, <3>2, <3>3, <3>4, <3>5
  <2>9. fin # NoFinish => FinishBy(r, k + 1)
    <3>1. CASE ev.finish = NoFinish
      BY <1>4, <1>10, <1>12, <3>1
    <3>2. CASE ev.finish # NoFinish
      BY <1>1, <1>8, <3>2 DEF FinishBy
    <3>3. QED
      BY <3>1, <3>2
  <2>10. CASE fin # NoFinish /\ ev.usage
    <3>1. fin \in StopReasons /\ d = EndOf(fin) /\ x.pending = NoFinish
      BY <1>4, <1>5, <2>10
    <3>2. Over(t.emitted)
      BY <2>7, <2>8, <3>1, EndsRunning
    <3>3. ClosedBy(r, k + 1)
      BY <1>1, <1>8, <2>9, <2>10 DEF ClosedBy
    <3>4. Phase(r, k + 1, x, t.emitted)
      BY <1>5, <3>1, <3>2, <3>3 DEF Phase
    <3>5. QED
      BY <1>1, <1>3, <1>6, <3>4
  <2>11. CASE ~(fin # NoFinish /\ ev.usage)
    <3>1. d = <<>> /\ x.pending = fin
      BY <1>4, <1>5, <2>11
    <3>2. t = tc
      BY <2>8, <3>1, ConsumeAllEmpty
    <3>3. Phase(r, k + 1, x, t.emitted)
      BY <1>5, <2>7, <2>9, <3>1, <3>2 DEF Phase
    <3>4. QED
      BY <1>1, <1>3, <1>6, <3>3
  <2>12. QED
    BY <2>10, <2>11
<1>13. QED
  BY <1>11, <1>12 DEF Phase

\* The stream after the first k symbols of what there is to decode.
After(r, k) == AdvanceAll(r, NewStream, SubSeq(Decodable(r), 1, k))

\* The data of a body are its events in order, then the end mark.
LEMMA DecodableIs ==
  ASSUME NEW r, r.events \in Seq(ChatEvents)
  PROVE  /\ Len(Decodable(r)) = Len(r.events) + (IF r.done THEN 1 ELSE 0)
         /\ \A i \in 1 .. Len(Decodable(r)) :
              Decodable(r)[i] = IF i <= Len(r.events) THEN Sym("event", i) ELSE Sym("done", 0)
<1>1. PICK n \in Nat : n = Len(r.events)
  OBVIOUS
<1>2. PICK S : S = Symbols(r)
  OBVIOUS
<1>3. PICK es \in Seq(S) : es = EventSyms(n)
  <2>1. n \in 0 .. Len(r.events)
    BY <1>1
  <2>2. QED
    BY <1>1, <1>2, <2>1, EventSymsTyped
<1>4. Len(es) = n /\ \A i \in 1 .. n : es[i] = Sym("event", i)
  BY <1>3 DEF EventSyms
<1>5. PICK y \in Seq(S) : y = IF r.done THEN <<Sym("done", 0)>> ELSE <<>>
  <2>1. PICK x \in S : x = Sym("done", 0)
    BY <1>2 DEF Symbols
  <2>2. <<x>> \in Seq(S) /\ <<>> \in Seq(S)
    OBVIOUS
  <2>3. QED
    BY <2>1, <2>2
<1>6. PICK D \in Seq(S) : D = Cat(es, y)
  BY CatTyped
<1>7. D = Decodable(r)
  BY <1>1, <1>3, <1>5, <1>6 DEF Decodable
<1>8. /\ Len(es \o y) = Len(es) + Len(y)
      /\ \A i \in 1 .. Len(es) + Len(y) :
           (es \o y)[i] = IF i <= Len(es) THEN es[i] ELSE y[i - Len(es)]
  BY ConcatProperties
<1>9. PICK m \in Nat : m = Len(y)
  OBVIOUS
<1>10. Len(D) = n + m /\ \A i \in 1 .. n + m : D[i] = IF i <= n THEN es[i] ELSE y[i - n]
  BY <1>4, <1>6, <1>8, <1>9 DEF Cat
<1>11. m = (IF r.done THEN 1 ELSE 0) /\ (r.done => y[1] = Sym("done", 0))
  BY <1>5, <1>9
<1>12. ASSUME NEW i \in 1 .. n + m PROVE D[i] = IF i <= n THEN Sym("event", i) ELSE Sym("done", 0)
  <2>1. CASE i <= n
    BY <1>4, <1>10, <2>1
  <2>2. CASE ~(i <= n)
    <3>1. r.done /\ i - n = 1
      BY <1>11, <2>2
    <3>2. QED
      BY <1>10, <1>11, <2>2, <3>1
  <2>3. QED
    BY <2>1, <2>2
<1>13. QED
  BY <1>1, <1>7, <1>10, <1>11, <1>12

\* The first symbols but one, and the next.
LEMMA NextAfter ==
  ASSUME NEW r, r.events \in Seq(ChatEvents), NEW k \in Nat, k < Len(Decodable(r))
  PROVE  /\ After(r, k) \in StreamStates
         /\ After(r, k + 1) = Advance(r, After(r, k), Decodable(r)[k + 1])
<1>1. PICK D \in Seq(Symbols(r)) : D = Decodable(r)
  BY BodyGives
<1>2. /\ SubSeq(D, 1, k) \in Seq(Symbols(r)) /\ D[k + 1] \in Symbols(r)
      /\ SubSeq(D, 1, k + 1) = Append(SubSeq(D, 1, k), D[k + 1])
  BY <1>1, FirstAndNext
<1>3. PICK u \in Seq(Symbols(r)), x \in Symbols(r) : u = SubSeq(D, 1, k) /\ x = D[k + 1]
  BY <1>2
<1>4. SubSeq(D, 1, k + 1) = Append(u, x)
  BY <1>2, <1>3
<1>5. AdvanceAll(r, NewStream, u) \in StreamStates
  BY NewStreamTyped, AdvanceAllTyped
<1>6. AdvanceAll(r, NewStream, Append(u, x)) = Advance(r, AdvanceAll(r, NewStream, u), x)
  BY NewStreamTyped, AdvanceAllAppend
<1>7. QED
  BY <1>1, <1>3, <1>4, <1>5, <1>6 DEF After

LEMMA NoneAfter ==
  ASSUME NEW r, r.events \in Seq(ChatEvents)
  PROVE  After(r, 0) = NewStream
<1>1. SubSeq(Decodable(r), 1, 0) = <<>>
  BY SubSeqEmpty
<1>2. QED
  BY <1>1, NewStreamTyped, AdvanceAllEmpty DEF After

\* What an event and the [DONE] do to an open stream.
Ingests(r, s, i) ==
  Advance(r, s, Sym("event", i)) =
    [s EXCEPT !.agg = Ingest(s.agg, r.events[i]).agg,
              !.turn = ConsumeAll(s.turn, Ingest(s.agg, r.events[i]).out)]

\* What each kind of datum does to an open stream.
LEMMA AdvanceEvent ==
  ASSUME NEW r, NEW s, s.state = "open", NEW i, r.events[i].valid
  PROVE  Ingests(r, s, i)
<1>1. PICK x : x = Sym("event", i)
  OBVIOUS
<1>2. x.s = "event" /\ x.e = i
  BY <1>1 DEF Sym
<1>3. QED
  BY <1>1, <1>2 DEF Advance, Ingests

LEMMA AdvanceGarbage ==
  ASSUME NEW r, NEW s, s.state = "open", NEW i, ~r.events[i].valid
  PROVE  Advance(r, s, Sym("event", i)) = [s EXCEPT !.state = "failed"]
<1>1. PICK x : x = Sym("event", i)
  OBVIOUS
<1>2. x.s = "event" /\ x.e = i
  BY <1>1 DEF Sym
<1>3. QED
  BY <1>1, <1>2 DEF Advance

LEMMA AdvanceDone ==
  ASSUME NEW r, NEW s, s.state = "open"
  PROVE  Advance(r, s, Sym("done", 0)) =
           [s EXCEPT !.turn = ConsumeAll(s.turn, Finalize(s.agg)), !.state = "done"]
<1>1. PICK x : x = Sym("done", 0)
  OBVIOUS
<1>2. x.s = "done"
  BY <1>1 DEF Sym
<1>3. QED
  BY <1>1, <1>2 DEF Advance

\* While the stream is open its message is in a phase of the events so far;
\* whatever becomes of it, the message has one start and at most one end.
InPhase(r, k) ==
  /\ After(r, k) \in StreamStates
  /\ After(r, k).state = "open" =>
       k <= Len(r.events) /\ Phase(r, k, After(r, k).agg, After(r, k).turn.emitted)
  /\ \/ After(r, k).turn.emitted = <<>>
     \/ Running(After(r, k).turn.emitted)
     \/ Over(After(r, k).turn.emitted)

\* One datum more keeps the message in a phase.
LEMMA NextInPhase ==
  ASSUME NEW r, r.events \in Seq(ChatEvents), SilentAfterUsage(r),
         NEW k \in Nat, k < Len(Decodable(r)), InPhase(r, k)
  PROVE  InPhase(r, k + 1)
<1>1. PICK s \in StreamStates : s = After(r, k)
  BY NextAfter
<1>2. PICK x : x = Decodable(r)[k + 1]
  OBVIOUS
<1>3. After(r, k + 1) = Advance(r, s, x)
  BY <1>1, <1>2, NextAfter
<1>4. /\ s.agg \in Aggregator /\ s.turn \in Turn /\ s.state \in {"open", "done", "failed"}
      /\ s = [agg |-> s.agg, turn |-> s.turn, state |-> s.state]
  BY DEF StreamStates
<1>5. /\ s.state = "open" =>
           k <= Len(r.events) /\ Phase(r, k, s.agg, s.turn.emitted)
      /\ s.turn.emitted = <<>> \/ Running(s.turn.emitted) \/ Over(s.turn.emitted)
  BY <1>1 DEF InPhase
<1>6. PICK n \in Nat : n = Len(r.events) /\ DOMAIN r.events = 1 .. n
  <2>1. Len(r.events) \in Nat /\ DOMAIN r.events = 1 .. Len(r.events)
    OBVIOUS
  <2>2. QED
    BY <2>1
<1>7. Len(Decodable(r)) \in Nat
  BY BodyGives
<1>8. k + 1 \in 1 .. Len(Decodable(r))
  BY <1>7
<1>9. x = IF k + 1 <= n THEN Sym("event", k + 1) ELSE Sym("done", 0)
  BY <1>2, <1>6, <1>8, DecodableIs
<1>10. CASE s.state # "open"
  <2>1. After(r, k + 1) = s
    BY <1>3, <1>10 DEF Advance
  <2>2. QED
    BY <1>5, <1>10, <2>1 DEF InPhase
<1>11. CASE s.state = "open" /\ k + 1 <= n /\ r.events[k + 1].valid
  <2>1. k + 1 \in DOMAIN r.events
    BY <1>6, <1>8, <1>11
  <2>2. PICK ev \in ChatEvents : ev = r.events[k + 1]
    BY <2>1
  <2>3. PICK a \in Aggregator, o \in Seq(Chunks) :
          a = Ingest(s.agg, ev).agg /\ o = Ingest(s.agg, ev).out
    BY <1>4, IngestTyped
  <2>4. PICK t \in Turn : t = ConsumeAll(s.turn, o)
    BY <1>4, ConsumeAllTyped
  <2>5. After(r, k + 1) = [s EXCEPT !.agg = a, !.turn = t]
    <3>1. PICK i \in DOMAIN r.events : i = k + 1
      BY <2>1
    <3>2. r.events[i].valid /\ s.state = "open"
      BY <1>11, <3>1
    <3>3. Ingests(r, s, i)
      BY <3>2, AdvanceEvent
    <3>4. Advance(r, s, Sym("event", i)) = [s EXCEPT !.agg = a, !.turn = t]
      BY <2>2, <2>3, <2>4, <3>1, <3>3 DEF Ingests
    <3>5. QED
      BY <1>3, <1>9, <1>11, <3>1, <3>4
  <2>6. PICK z \in StreamStates : z = After(r, k + 1) /\ z.agg = a /\ z.turn = t
    <3>1. [s EXCEPT !.agg = a, !.turn = t] \in StreamStates
      BY <1>4 DEF StreamStates
    <3>2. QED
      BY <1>4, <2>5, <3>1
  <2>7. Phase(r, k + 1, a, t.emitted)
    <3>1. Phase(r, k + 1, Ingest(s.agg, r.events[k + 1]).agg,
                ConsumeAll(s.turn, Ingest(s.agg, r.events[k + 1]).out).emitted)
      BY <1>4, <1>5, <1>11, <2>1, EventPhase
    <3>2. QED
      BY <2>2, <2>3, <2>4, <3>1
  <2>8. t.emitted = <<>> \/ Running(t.emitted) \/ Over(t.emitted)
    BY <2>7 DEF Phase
  <2>9. k + 1 <= Len(r.events)
    BY <1>6, <1>11
  <2>10. QED
    BY <2>6, <2>7, <2>8, <2>9 DEF InPhase
<1>12. CASE s.state = "open" /\ k + 1 <= n /\ ~r.events[k + 1].valid
  <2>1. After(r, k + 1) = [s EXCEPT !.state = "failed"]
    BY <1>3, <1>9, <1>12, AdvanceGarbage
  <2>2. PICK z \in StreamStates : z = After(r, k + 1) /\ z.state = "failed" /\ z.turn = s.turn
    <3>1. [s EXCEPT !.state = "failed"] \in StreamStates
      BY <1>4 DEF StreamStates
    <3>2. QED
      BY <1>4, <2>1, <3>1
  <2>3. QED
    BY <1>5, <2>2 DEF InPhase
<1>13. CASE s.state = "open" /\ ~(k + 1 <= n)
  <2>1. PICK t \in Turn : t = ConsumeAll(s.turn, Finalize(s.agg))
    BY <1>4, FinalizeTyped, ConsumeAllTyped
  <2>2. After(r, k + 1) = [s EXCEPT !.turn = t, !.state = "done"]
    <3>1. Advance(r, s, Sym("done", 0)) =
            [s EXCEPT !.turn = ConsumeAll(s.turn, Finalize(s.agg)), !.state = "done"]
      BY <1>13, AdvanceDone
    <3>2. QED
      BY <1>3, <1>9, <1>13, <2>1, <3>1
  <2>3. PICK z \in StreamStates : z = After(r, k + 1) /\ z.state = "done" /\ z.turn = t
    <3>1. [s EXCEPT !.turn = t, !.state = "done"] \in StreamStates
      BY <1>4 DEF StreamStates
    <3>2. QED
      BY <1>4, <2>2, <3>1
  <2>4. t.emitted = <<>> \/ Running(t.emitted) \/ Over(t.emitted)
    <3>1. CASE s.agg.pending = NoFinish
      <4>1. t = s.turn
        BY <1>4, <2>1, <3>1, ConsumeAllEmpty DEF Finalize
      <4>2. QED
        BY <1>5, <4>1
    <3>2. CASE s.agg.pending # NoFinish
      <4>1. Running(s.turn.emitted)
        BY <1>5, <1>13, <3>2 DEF Phase
      <4>2. s.agg.pending \in StopReasons
        BY <1>4, <3>2 DEF Aggregator
      <4>3. t = ConsumeAll(s.turn, EndOf(s.agg.pending))
        BY <2>1, <3>2 DEF Finalize
      <4>4. QED
        BY <1>4, <4>1, <4>2, <4>3, EndsRunning
    <3>3. QED
      BY <3>1, <3>2
  <2>5. QED
    BY <2>3, <2>4 DEF InPhase
<1>14. QED
  BY <1>10, <1>11, <1>12, <1>13

\* So the message is in a phase after any number of data.
LEMMA AllInPhase ==
  ASSUME NEW r, r.events \in Seq(ChatEvents), SilentAfterUsage(r), NEW k \in 0 .. Len(Decodable(r))
  PROVE  InPhase(r, k)
<1>1. PICK n \in Nat : n = Len(Decodable(r))
  BY BodyGives
<1> DEFINE B == {i \in 0 .. n : ~InPhase(r, i)}
<1>2. B = {}
  <2> SUFFICES ASSUME B # {} PROVE FALSE
    OBVIOUS
  <2>1. B \subseteq Nat
    OBVIOUS
  <2>2. PICK i \in B : \A j \in B : i <= j
    <3> HIDE DEF B
    <3>1. QED
      BY <2>1, LeastNumber
  <2>3. i \in 0 .. n /\ ~InPhase(r, i)
    OBVIOUS
  <2>4. i # 0
    <3>1. InPhase(r, 0)
      <4>1. After(r, 0) = NewStream
        BY NoneAfter
      <4>2. /\ NewStream.state = "open" /\ ~NewStream.agg.started
            /\ NewStream.agg.pending = NoFinish /\ NewStream.turn.emitted = <<>>
        BY DEF NewStream, NewAggregator, NewTurn
      <4>3. Phase(r, 0, NewStream.agg, NewStream.turn.emitted)
        BY <4>2 DEF Phase
      <4>4. 0 <= Len(r.events)
        OBVIOUS
      <4>5. QED
        BY <4>1, <4>2, <4>3, <4>4, NewStreamTyped DEF InPhase
    <3>2. QED
      BY <2>3, <3>1
  <2>5. i - 1 \in 0 .. n /\ i - 1 \in Nat /\ i - 1 < n /\ (i - 1) + 1 = i /\ ~(i <= i - 1)
    BY <2>3, <2>4
  <2>6. InPhase(r, i - 1)
    BY <2>2, <2>5
  <2> HIDE DEF B
  <2>7. PICK j \in Nat : j = i - 1 /\ j < n /\ j + 1 = i
    BY <2>5
  <2>8. InPhase(r, j + 1)
    BY <1>1, <2>6, <2>7, NextInPhase
  <2>9. QED
    BY <2>3, <2>7, <2>8
<1>3. QED
  BY <1>1, <1>2

\* The sinks see one message per request: its start first, nothing after its
\* end, whatever is cut where and whether the usage comes with the finish
\* reason, later or not at all - of a server that says nothing more once it has
\* given both (StreamAggregator::ingest, finalize, DefaultConsumer).
THEOREM EndsOnce ==
  ASSUME \A r \in Replies : SilentAfterUsage(r)
  PROVE  Spec => []EndOnce
<1>1. IInv /\ Assembled => EndOnce
  <2> SUFFICES ASSUME IInv, Assembled PROVE EndOnce
    OBVIOUS
  <2>1. reply \in Replies \union {NoReply}
    BY DEF IInv, Streaming
  <2>2. reply.events \in Seq(ChatEvents) /\ SilentAfterUsage(reply)
    <3>1. <<>> \in Seq(ChatEvents) /\ DOMAIN <<>> = {}
      OBVIOUS
    <3>2. NoReply.events = <<>>
      BY DEF NoReply
    <3>3. SilentAfterUsage(NoReply)
      BY <3>1, <3>2 DEF SilentAfterUsage
    <3>4. \A r \in Replies : r.events \in Seq(ChatEvents)
      BY TurnAssumption
    <3>5. QED
      BY <2>1, <3>1, <3>2, <3>3, <3>4
  <2>3. PICK k \in 0 .. Len(Decodable(reply)) : st = After(reply, k)
    BY DEF Assembled, After
  <2>4. InPhase(reply, k)
    BY <2>2, AllInPhase
  <2>5. st.turn.emitted = <<>> \/ Running(st.turn.emitted) \/ Over(st.turn.emitted)
    BY <2>3, <2>4 DEF InPhase
  <2>6. PICK e \in Seq(ChunkNames) : e = st.turn.emitted
    BY DEF IInv, Streaming, StreamStates, Turn
  <2>7. OnceOf(e)
    BY <2>5, <2>6, NothingIsOnce, RunningIsOnce, OverIsOnce
  <2>8. QED
    BY <2>6, <2>7 DEF OnceOf, EndOnce
<1>2. QED
  BY <1>1, Inductive, EventsInOrder, PTL

-----------------------------------------------------------------------------
\* The arguments of slot k, piece by piece.
AddPiece(args, d, k) == IF d.index = k /\ d.arg # 0 THEN Append(args, d.arg) ELSE args
AddsPieces(deltas, k) ==
  [n \in 1 .. Len(deltas) |-> [a \in Seq(Nat) |-> AddPiece(a, deltas[n], k)]]

LEMMA AddPieceTyped ==
  ASSUME NEW args \in Seq(Nat), NEW d \in ToolDeltas, NEW k
  PROVE  AddPiece(args, d, k) \in Seq(Nat)
<1>1. d.arg \in Nat
  BY DEF ToolDeltas
<1>2. Append(args, d.arg) \in Seq(Nat)
  BY <1>1, AppendProperties
<1>3. QED
  BY <1>2 DEF AddPiece

\* The pieces are read off one delta after another.
LEMMA PiecesRuns ==
  ASSUME NEW k, NEW deltas \in Seq(ToolDeltas)
  PROVE  \E A : Runs(A, Len(deltas), Seq(Nat), <<>>, AddsPieces(deltas, k), Pieces(deltas, k))
<1>1. PICK N \in Nat : N = Len(deltas)
  OBVIOUS
<1>2. DOMAIN deltas = 1 .. N /\ \A n \in 1 .. N : deltas[n] \in ToolDeltas
  BY <1>1
<1>3. PICK V, b : V = Seq(Nat) /\ b = <<>>
  OBVIOUS
<1> DEFINE P(f) == f = [T \in SUBSET (DOMAIN deltas) |->
                          IF T = {} THEN b ELSE AddPiece(f[T \ {Max(T)}], deltas[Max(T)], k)]
           F == CHOOSE f : P(f)
           G == [n \in 1 .. N |-> [a \in V |-> AddPiece(a, deltas[n], k)]]
<1>4. b \in V /\ \A a \in V, n \in 1 .. N : AddPiece(a, deltas[n], k) \in V
  BY <1>2, <1>3, AddPieceTyped
<1>5. Steps(G, N, V)
  BY <1>4 DEF Steps
<1>6. PICK it : Solves(it, N, V, b, G)
  <2> HIDE DEF G
  <2>1. QED
    BY <1>4, <1>5, FoldSolution
<1>7. P(it)
  BY <1>2, <1>6 DEF Solves
<1>8. P(F)
  <2> HIDE DEF P
  <2>1. QED
    BY <1>7
<1>9. Pieces(deltas, k) = F[1 .. N]
  BY <1>2, <1>3 DEF Pieces, AddPiece, FoldLeft, MapThenFoldSet
<1>10. Unfolds(F, N, V, b, G)
  <2>1. \A T \in SUBSET (1 .. N) : T # {} => Max(T) \in 1 .. N
    BY <1>6 DEF Solves
  <2> HIDE DEF F
  <2>2. QED
    BY <1>2, <1>8, <2>1 DEF Unfolds
<1>11. PICK A : Runs(A, N, V, b, G, F[1 .. N])
  <2> HIDE DEF F, G
  <2>1. QED
    BY <1>4, <1>5, <1>10, FoldRuns
<1>12. G = AddsPieces(deltas, k)
  BY <1>1, <1>3 DEF AddsPieces
<1>13. QED
  <2> HIDE DEF F, G
  <2>1. QED
    BY <1>1, <1>3, <1>9, <1>11, <1>12

LEMMA PiecesEmpty ==
  ASSUME NEW k
  PROVE  Pieces(<<>>, k) = <<>>
<1>1. <<>> \in Seq(ToolDeltas) /\ Len(<<>>) = 0
  OBVIOUS
<1>2. PICK A : Runs(A, Len(<<>>), Seq(Nat), <<>>, AddsPieces(<<>>, k), Pieces(<<>>, k))
  BY <1>1, PiecesRuns
<1>3. QED
  BY <1>1, <1>2 DEF Runs

LEMMA PiecesAppend ==
  ASSUME NEW k, NEW t \in Seq(ToolDeltas), NEW x \in ToolDeltas
  PROVE  Pieces(t, k) \in Seq(Nat) /\ Pieces(Append(t, x), k) = AddPiece(Pieces(t, k), x, k)
<1>1. PICK N \in Nat : N = Len(t)
  OBVIOUS
<1>2. PICK u \in Seq(ToolDeltas) : u = Append(t, x)
  BY AppendProperties
<1>3. Len(u) = N + 1 /\ u[N + 1] = x /\ \A i \in 1 .. N : u[i] = t[i]
  BY <1>1, <1>2
<1>4. PICK A : Runs(A, N, Seq(Nat), <<>>, AddsPieces(t, k), Pieces(t, k))
  BY <1>1, PiecesRuns
<1>5. PICK B : Runs(B, N + 1, Seq(Nat), <<>>, AddsPieces(u, k), Pieces(u, k))
  BY <1>3, PiecesRuns
<1>6. \A i \in 1 .. N : AddsPieces(u, k)[i] = AddsPieces(t, k)[i]
  BY <1>1, <1>3 DEF AddsPieces
<1>7. Pieces(t, k) \in Seq(Nat) /\ Pieces(u, k) = AddsPieces(u, k)[N + 1][Pieces(t, k)]
  BY <1>4, <1>5, <1>6, RunsAppend
<1>8. AddsPieces(u, k)[N + 1][Pieces(t, k)] = AddPiece(Pieces(t, k), x, k)
  BY <1>3, <1>7 DEF AddsPieces
<1>9. QED
  BY <1>2, <1>7, <1>8

\* Slot k, which is empty before any delta is about it.
SlotAt(slots, k) == IF k <= Len(slots) THEN slots[k] ELSE EmptySlot

\* Slot k with the delta d, and the slots g that d makes of slots: it is about
\* one of them.
WithDelta(slot, d) == [id   |-> IF d.id = 0 THEN slot.id ELSE d.id,
                       args |-> IF d.arg = 0 THEN slot.args ELSE Append(slot.args, d.arg)]
Absorbed(slots, d, g) ==
  /\ Len(g) = IF d.index > Len(slots) THEN d.index ELSE Len(slots)
  /\ \A k \in 1 .. Len(g) :
       g[k] = IF k # d.index THEN SlotAt(slots, k) ELSE WithDelta(SlotAt(slots, k), d)

\* A delta changes its own slot only, and makes the empty ones before it.
LEMMA AbsorbIs ==
  ASSUME NEW slots \in Seq(Slot), NEW d \in ToolDeltas
  PROVE  Absorbed(slots, d, AbsorbDelta(slots, d))
<1>0. PICK g : g = AbsorbDelta(slots, d)
  OBVIOUS
<1>1. d.index \in Nat \ {0} /\ d.id \in Nat /\ d.arg \in Nat
  BY DEF ToolDeltas
<1>2. PICK m \in Nat : m = Len(slots)
  OBVIOUS
<1>3. PICK n \in Nat : n = IF d.index > m THEN d.index ELSE m
  BY <1>1
<1>4. PICK grown \in [1 .. n -> Slot] : \A k \in 1 .. n : grown[k] = SlotAt(slots, k)
  <2>1. EmptySlot \in Slot
    BY DEF EmptySlot, Slot
  <2>2. \A k \in 1 .. n : SlotAt(slots, k) \in Slot
    BY <1>2, <1>3, <2>1 DEF SlotAt
  <2>3. [k \in 1 .. n |-> SlotAt(slots, k)] \in [1 .. n -> Slot]
    BY <2>2
  <2>4. QED
    BY <2>3
<1>5. d.index \in 1 .. n
  BY <1>1, <1>3
<1>6. PICK old \in Slot : old = grown[d.index]
  BY <1>5
<1>7. g = [grown EXCEPT ![d.index] = WithDelta(old, d)]
  <2>1. grown = [i \in 1 .. n |-> IF i <= Len(slots) THEN slots[i] ELSE EmptySlot]
    BY <1>4 DEF SlotAt
  <2>2. QED
    BY <1>0, <1>2, <1>3, <1>6, <2>1 DEF AbsorbDelta, WithDelta
<1>8. g \in Seq(Slot)
  BY <1>0, AbsorbTyped
<1>9. DOMAIN g = 1 .. n
  BY <1>4, <1>7
<1>10. Len(g) = n
  BY <1>8, <1>9
<1>11. ASSUME NEW k \in 1 .. n
       PROVE  g[k] = IF k # d.index THEN SlotAt(slots, k) ELSE WithDelta(SlotAt(slots, k), d)
  BY <1>4, <1>6, <1>7
<1>12. QED
  BY <1>0, <1>2, <1>3, <1>10, <1>11 DEF Absorbed

\* What one delta more is about and gives.
OneMore(D, d, E) ==
  /\ SlotsOf(E) = SlotsOf(D) \union {d.index}
  /\ \A k : Named(E, k) = Named(D, k) \union (IF d.index = k /\ d.id # 0 THEN {d.id} ELSE {})

\* A delta more adds its slot and its id.
LEMMA DeltaAppend ==
  ASSUME NEW D \in Seq(ToolDeltas), NEW d \in ToolDeltas
  PROVE  OneMore(D, d, Append(D, d))
<1>0. PICK E : E = Append(D, d)
  OBVIOUS
<1>1. PICK n \in Nat : n = Len(D)
  OBVIOUS
<1>2. E \in Seq(ToolDeltas)
  BY <1>0, AppendProperties
<1>3. Len(E) = n + 1 /\ E[n + 1] = d /\ \A i \in 1 .. n : E[i] = D[i]
  BY <1>0, <1>1
<1>4. DOMAIN D = 1 .. n /\ DOMAIN E = 1 .. n + 1
  BY <1>1, <1>2, <1>3
<1>5. \A i : i \in 1 .. n + 1 <=> i \in 1 .. n \/ i = n + 1
  OBVIOUS
<1>6. n + 1 \in 1 .. n + 1
  OBVIOUS
<1>7. \A z : z \in SlotsOf(E) <=> z \in SlotsOf(D) \/ z = d.index
  <2>1. \A z : z \in SlotsOf(E) <=> \E i \in 1 .. n + 1 : E[i].index = z
    BY <1>4 DEF SlotsOf
  <2>2. \A z : z \in SlotsOf(D) <=> \E i \in 1 .. n : D[i].index = z
    BY <1>4 DEF SlotsOf
  <2>3. QED
    BY <1>3, <1>5, <1>6, <2>1, <2>2
<1>8. SlotsOf(E) = SlotsOf(D) \union {d.index}
  BY <1>7
<1>9. ASSUME NEW k
      PROVE  Named(E, k) = Named(D, k) \union (IF d.index = k /\ d.id # 0 THEN {d.id} ELSE {})
  <2>1. \A z : z \in Named(E, k) <=> z # 0 /\ \E i \in 1 .. n + 1 : E[i].index = k /\ E[i].id = z
    BY <1>4 DEF Named
  <2>2. \A z : z \in Named(D, k) <=> z # 0 /\ \E i \in 1 .. n : D[i].index = k /\ D[i].id = z
    BY <1>4 DEF Named
  <2>3. \A z : z \in Named(E, k) <=> z \in Named(D, k) \/ (z # 0 /\ d.index = k /\ d.id = z)
    BY <1>3, <1>5, <1>6, <2>1, <2>2
  <2>4. QED
    BY <2>3
<1>10. QED
  BY <1>0, <1>8, <1>9 DEF OneMore

\* The slots hold what the deltas D have given so far.
Collects(D, slots) ==
  /\ \A k \in SlotsOf(D) : k <= Len(slots)
  /\ Len(slots) # 0 => Len(slots) \in SlotsOf(D)
  /\ \A k \in 1 .. Len(slots) :
       /\ slots[k].args = Pieces(D, k)
       /\ slots[k].id # 0 => slots[k].id \in Named(D, k)
       /\ slots[k].id = 0 => Named(D, k) = {}
  /\ \A k \in Nat : k > Len(slots) => Pieces(D, k) = <<>> /\ Named(D, k) = {}

LEMMA NothingCollected == Collects(<<>>, <<>>)
<1>1. SlotsOf(<<>>) = {} /\ \A k : Named(<<>>, k) = {}
  BY DEF SlotsOf, Named
<1>2. \A k : Pieces(<<>>, k) = <<>>
  BY PiecesEmpty
<1>3. QED
  BY <1>1, <1>2 DEF Collects

\* The slots go on holding what the deltas have given.
LEMMA CollectsAppend ==
  ASSUME NEW D \in Seq(ToolDeltas), NEW d \in ToolDeltas,
         NEW slots \in Seq(Slot), Collects(D, slots)
  PROVE  Collects(Append(D, d), AbsorbDelta(slots, d))
<1>1. d.index \in Nat \ {0} /\ d.id \in Nat /\ d.arg \in Nat
  BY DEF ToolDeltas
<1>2. PICK E \in Seq(ToolDeltas) : E = Append(D, d)
  BY AppendProperties
<1>3. PICK g \in Seq(Slot) : g = AbsorbDelta(slots, d)
  BY AbsorbTyped
<1>4. PICK m \in Nat, n \in Nat : m = Len(slots) /\ n = Len(g)
  OBVIOUS
<1>5. Absorbed(slots, d, g) /\ OneMore(D, d, E)
  BY <1>2, <1>3, AbsorbIs, DeltaAppend
<1>6. /\ n = IF d.index > m THEN d.index ELSE m
      /\ \A k \in 1 .. n :
           g[k] = IF k # d.index THEN SlotAt(slots, k) ELSE WithDelta(SlotAt(slots, k), d)
  BY <1>4, <1>5 DEF Absorbed
<1>7. SlotsOf(E) = SlotsOf(D) \union {d.index}
  BY <1>5 DEF OneMore
<1>8. \A k : Named(E, k) = Named(D, k) \union (IF d.index = k /\ d.id # 0 THEN {d.id} ELSE {})
  BY <1>5 DEF OneMore
<1>9. \A k : Pieces(E, k) = IF d.index = k /\ d.arg # 0 THEN Append(Pieces(D, k), d.arg)
                            ELSE Pieces(D, k)
  <2>1. \A k : Pieces(E, k) = AddPiece(Pieces(D, k), d, k)
    BY <1>2, PiecesAppend
  <2>2. QED
    BY <2>1 DEF AddPiece
<1>10. /\ \A k \in SlotsOf(D) : k <= m
       /\ m # 0 => m \in SlotsOf(D)
       /\ \A k \in 1 .. m : /\ slots[k].args = Pieces(D, k)
                            /\ slots[k].id # 0 => slots[k].id \in Named(D, k)
                            /\ slots[k].id = 0 => Named(D, k) = {}
       /\ \A k \in Nat : k > m => Pieces(D, k) = <<>> /\ Named(D, k) = {}
  BY <1>4 DEF Collects
<1>11. \A k \in Nat \ {0} : /\ SlotAt(slots, k).args = Pieces(D, k)
                            /\ SlotAt(slots, k).id # 0 => SlotAt(slots, k).id \in Named(D, k)
                            /\ SlotAt(slots, k).id = 0 => Named(D, k) = {}
  <2> SUFFICES ASSUME NEW k \in Nat \ {0}
               PROVE  /\ SlotAt(slots, k).args = Pieces(D, k)
                      /\ SlotAt(slots, k).id # 0 => SlotAt(slots, k).id \in Named(D, k)
                      /\ SlotAt(slots, k).id = 0 => Named(D, k) = {}
    OBVIOUS
  <2>1. CASE k <= m
    <3>1. SlotAt(slots, k) = slots[k] /\ k \in 1 .. m
      BY <1>4, <2>1 DEF SlotAt
    <3>2. QED
      BY <1>10, <3>1
  <2>2. CASE ~(k <= m)
    <3>1. SlotAt(slots, k) = EmptySlot /\ k > m
      BY <1>4, <2>2 DEF SlotAt
    <3>2. EmptySlot.id = 0 /\ EmptySlot.args = <<>>
      BY DEF EmptySlot
    <3>3. QED
      BY <1>10, <3>1, <3>2
  <2>3. QED
    BY <2>1, <2>2
<1>12. \A k \in SlotsOf(E) : k <= n
  <2> SUFFICES ASSUME NEW k \in SlotsOf(E) PROVE k <= n
    OBVIOUS
  <2>1. CASE k = d.index
    BY <1>1, <1>6, <2>1
  <2>2. CASE k \in SlotsOf(D)
    <3>1. k <= m /\ m <= n /\ k \in Nat
      <4>1. PICK i \in DOMAIN D : k = D[i].index
        BY <2>2 DEF SlotsOf
      <4>2. D[i] \in ToolDeltas
        OBVIOUS
      <4>3. k \in Nat
        BY <4>1, <4>2 DEF ToolDeltas
      <4>4. QED
        BY <1>1, <1>6, <1>10, <2>2, <4>3
    <3>2. QED
      BY <3>1
  <2>3. QED
    BY <1>7, <2>1, <2>2
<1>13. n # 0 => n \in SlotsOf(E)
  BY <1>1, <1>6, <1>7, <1>10
<1>14. ASSUME NEW k \in 1 .. n
       PROVE  /\ g[k].args = Pieces(E, k)
              /\ g[k].id # 0 => g[k].id \in Named(E, k)
              /\ g[k].id = 0 => Named(E, k) = {}
  <2>1. CASE k # d.index
    <3>1. g[k] = SlotAt(slots, k)
      BY <1>6, <2>1
    <3>2. Pieces(E, k) = Pieces(D, k) /\ Named(E, k) = Named(D, k)
      BY <1>8, <1>9, <2>1
    <3>3. QED
      BY <1>11, <3>1, <3>2
  <2>2. CASE k = d.index
    <3>1. PICK slot : slot = SlotAt(slots, k) /\ g[k] = WithDelta(slot, d)
      BY <1>6, <2>2
    <3>2. /\ slot.args = Pieces(D, k)
          /\ slot.id # 0 => slot.id \in Named(D, k)
          /\ slot.id = 0 => Named(D, k) = {}
      BY <1>1, <1>11, <2>2, <3>1
    <3>3. PICK i, a : /\ i = IF d.id = 0 THEN slot.id ELSE d.id
                     /\ a = IF d.arg = 0 THEN slot.args ELSE Append(slot.args, d.arg)
      OBVIOUS
    <3>4. g[k] = [id |-> i, args |-> a]
      BY <3>1, <3>3 DEF WithDelta
    <3>5. g[k].id = i /\ g[k].args = a
      BY <3>4
    <3>6. a = Pieces(E, k)
      BY <1>9, <2>2, <3>2, <3>3
    <3>7. (i # 0 => i \in Named(E, k)) /\ (i = 0 => Named(E, k) = {})
      BY <1>8, <2>2, <3>2, <3>3
    <3>8. QED
      BY <3>5, <3>6, <3>7
  <2>3. QED
    BY <2>1, <2>2
<1>15. ASSUME NEW k \in Nat, k > n PROVE Pieces(E, k) = <<>> /\ Named(E, k) = {}
  <2>1. k > m /\ k # d.index
    BY <1>1, <1>6, <1>15
  <2>2. QED
    BY <1>8, <1>9, <1>10, <2>1
<1>16. Collects(E, g)
  BY <1>4, <1>12, <1>13, <1>14, <1>15 DEF Collects
<1>17. QED
  BY <1>2, <1>3, <1>16

\* So they hold it after any deltas.
LEMMA AllCollected ==
  ASSUME NEW D \in Seq(ToolDeltas)
  PROVE  Collects(D, AbsorbDeltas(<<>>, D))
<1> DEFINE C == {u \in Seq(ToolDeltas) : Collects(u, AbsorbDeltas(<<>>, u))}
<1>1. PICK e \in Seq(Slot) : e = <<>>
  <2>1. <<>> \in Seq(Slot)
    OBVIOUS
  <2>2. QED
    BY <2>1
<1>2. <<>> \in C
  <2>1. AbsorbDeltas(e, <<>>) = e
    BY AbsorbEmpty
  <2>2. <<>> \in Seq(ToolDeltas)
    OBVIOUS
  <2>3. QED
    BY <1>1, <2>1, <2>2, NothingCollected
<1>3. ASSUME NEW u \in Seq(ToolDeltas), NEW x \in ToolDeltas, u \in C PROVE Append(u, x) \in C
  <2>1. PICK g \in Seq(Slot) : g = AbsorbDeltas(e, u)
    BY AbsorbAllTyped
  <2>2. AbsorbDeltas(e, Append(u, x)) = AbsorbDelta(g, x)
    BY <2>1, AbsorbAppend
  <2>3. Collects(u, g)
    BY <1>1, <1>3, <2>1
  <2>4. Collects(Append(u, x), AbsorbDelta(g, x))
    BY <2>3, CollectsAppend
  <2>5. Append(u, x) \in Seq(ToolDeltas)
    BY AppendProperties
  <2>6. QED
    BY <1>1, <2>2, <2>4, <2>5
<1>4. D \in C
  <2> HIDE DEF C
  <2>1. QED
    BY <1>2, <1>3, SeqGrows
<1>5. QED
  BY <1>4

\* Of a server that keeps to the protocol, the slots are the calls of the reply.
LEMMA SlotsAreCalls ==
  ASSUME NEW r, Deltas(r) \in Seq(ToolDeltas), WellFormedCalls(r),
         NEW slots \in Seq(Slot), slots = AbsorbDeltas(<<>>, Deltas(r))
  PROVE  slots = WholeCalls(r) /\ \A k \in 1 .. Len(slots) : slots[k].id # 0
<1>1. PICK D \in Seq(ToolDeltas) : D = Deltas(r)
  OBVIOUS
<1>2. PICK m \in Nat : m = Len(slots) /\ DOMAIN slots = 1 .. m
  OBVIOUS
<1>3. /\ \A k \in SlotsOf(D) : k <= m
      /\ m # 0 => m \in SlotsOf(D)
      /\ \A k \in 1 .. m : /\ slots[k].args = Pieces(D, k)
                           /\ slots[k].id # 0 => slots[k].id \in Named(D, k)
                           /\ slots[k].id = 0 => Named(D, k) = {}
  BY <1>1, <1>2, AllCollected DEF Collects
<1>4. PICK n \in Nat : SlotsOf(D) = 1 .. n
  BY <1>1 DEF WellFormedCalls
<1>5. m = n
  <2>1. n # 0 => n \in SlotsOf(D)
    BY <1>4
  <2>2. m # 0 => m <= n
    BY <1>3, <1>4
  <2>3. n # 0 => n <= m
    BY <1>3, <2>1
  <2>4. QED
    BY <2>2, <2>3
<1>6. ASSUME NEW k \in 1 .. m
      PROVE  /\ slots[k].id # 0
             /\ slots[k] = [id |-> CHOOSE id \in Named(D, k) : TRUE, args |-> Pieces(D, k)]
  <2>1. PICK id \in Named(D, k) : Named(D, k) = {id}
    BY <1>1, <1>4, <1>5 DEF WellFormedCalls
  <2>2. slots[k].id = id
    BY <1>3, <2>1
  <2>3. id # 0
    BY DEF Named
  <2>4. (CHOOSE z \in {id} : TRUE) = id
    OBVIOUS
  <2>5. slots[k] \in Slot
    BY <1>2
  <2>6. slots[k] = [id |-> slots[k].id, args |-> slots[k].args]
    BY <2>5 DEF Slot
  <2>7. QED
    BY <1>3, <2>1, <2>2, <2>3, <2>4, <2>6
<1>7. WholeCalls(r) = [k \in 1 .. m |->
                        [id |-> CHOOSE id \in Named(D, k) : TRUE, args |-> Pieces(D, k)]]
  BY <1>1, <1>4, <1>5 DEF WholeCalls
<1>8. slots = [k \in 1 .. m |-> slots[k]]
  BY <1>2
<1>9. QED
  BY <1>2, <1>6, <1>7, <1>8

\* The calls of named slots go into the turn, and nothing else does.
NamedSlots == {c \in Slot : c.id # 0}
TakesCalls(turn, slots) ==
  LET t == ConsumeAll(turn, FlushToolCalls(slots))
  IN  t.calls = Cat(turn.calls, slots) /\ t.stop = turn.stop

\* By induction over the slots.
LEMMA CallsAreTaken ==
  ASSUME NEW turn \in Turn, NEW slots \in Seq(NamedSlots)
  PROVE  TakesCalls(turn, slots)
<1> DEFINE C == {u \in Seq(NamedSlots) : TakesCalls(turn, u)}
<1>0. NamedSlots \subseteq Slot /\ CallChunks \subseteq Chunks
  BY DEF NamedSlots, CallChunks
<1>1. turn.calls \in Seq(Slot)
  BY DEF Turn
<1>2. <<>> \in C
  <2>1. ConsumeAll(turn, FlushToolCalls(<<>>)) = turn
    BY FlushEmpty, ConsumeAllEmpty
  <2>2. Cat(turn.calls, <<>>) = turn.calls
    BY <1>1, CatEmpty
  <2>3. <<>> \in Seq(NamedSlots)
    OBVIOUS
  <2>4. QED
    BY <2>1, <2>2, <2>3 DEF TakesCalls
<1>3. ASSUME NEW u \in Seq(NamedSlots), NEW x \in NamedSlots, u \in C PROVE Append(u, x) \in C
  <2>1. u \in Seq(Slot) /\ x \in Slot /\ x.id # 0
    BY <1>0, SeqWider DEF NamedSlots
  <2>2. PICK f \in Seq(CallChunks) : f = FlushToolCalls(u)
    BY <2>1, FlushAppend
  <2>3. PICK c \in CallChunks : c = Chunk("call", x, NoFinish) /\ c.c = "call" /\ c.call = x
    <3>1. Chunk("call", x, NoFinish) \in CallChunks
      BY <2>1 DEF Chunk, Chunks, CallChunks, ChunkNames, NoFinish
    <3>2. PICK c \in CallChunks : c = Chunk("call", x, NoFinish)
      BY <3>1
    <3>3. c.c = "call" /\ c.call = x
      BY <3>2 DEF Chunk
    <3>4. QED
      BY <3>2, <3>3
  <2>4. FlushToolCalls(Append(u, x)) = Append(f, c)
    <3>1. FlushToolCalls(Append(u, x)) = FlushCall(FlushToolCalls(u), x)
      BY <2>1, FlushAppend
    <3>2. QED
      BY <2>1, <2>2, <2>3, <3>1 DEF FlushCall
  <2>5. f \in Seq(Chunks) /\ c \in Chunks
    BY <1>0, SeqWider
  <2>6. PICK t \in Turn : t = ConsumeAll(turn, f)
    BY <2>5, ConsumeAllTyped
  <2>7. ConsumeAll(turn, Append(f, c)) = Consume(t, c)
    BY <2>5, <2>6, ConsumeAllAppend
  <2>8. t.calls = Cat(turn.calls, u) /\ t.stop = turn.stop
    BY <1>3, <2>2, <2>6 DEF TakesCalls
  <2>9. Consume(t, c).calls = Append(t.calls, x) /\ Consume(t, c).stop = t.stop
    <3>1. PICK d, e : d = Append(t.calls, x) /\ e = Append(t.emitted, c.c)
      OBVIOUS
    <3>2. Consume(t, c) = [calls |-> d, stop |-> t.stop, emitted |-> e]
      BY <2>3, <3>1 DEF Consume
    <3>3. QED
      BY <3>1, <3>2
  <2>10. Cat(turn.calls, Append(u, x)) = Append(Cat(turn.calls, u), x)
    <3>1. PICK cs \in Seq(Slot) : cs = turn.calls
      BY <1>1
    <3>2. Cat(cs, Append(u, x)) = Append(Cat(cs, u), x)
      BY <2>1, CatAppend
    <3>3. QED
      BY <3>1, <3>2
  <2>11. Append(u, x) \in Seq(NamedSlots)
    BY AppendProperties
  <2>12. TakesCalls(turn, Append(u, x))
    BY <2>4, <2>7, <2>8, <2>9, <2>10 DEF TakesCalls
  <2>13. QED
    BY <2>11, <2>12
<1>4. slots \in C
  <2> HIDE DEF C
  <2>1. QED
    BY <1>2, <1>3, SeqGrows
<1>5. QED
  BY <1>4

\* The start and the text of a message touch neither, its end gives the stop
\* reason.
LEMMA TextLeaves ==
  ASSUME NEW turn \in Turn, NEW c \in ChunkNames \ {"call", "end"}, NEW t,
         t = ConsumeAll(turn, <<Chunk(c, EmptySlot, NoFinish)>>)
  PROVE  t \in Turn /\ t.calls = turn.calls /\ t.stop = turn.stop
<1>1. EmptySlot \in Slot
  BY DEF EmptySlot, Slot
<1>2. Chunk(c, EmptySlot, NoFinish) \in Chunks
  BY <1>1 DEF Chunk, Chunks
<1>3. PICK x \in Chunks : x = Chunk(c, EmptySlot, NoFinish)
  BY <1>2
<1>4. x.c = c
  BY <1>3 DEF Chunk
<1>5. t = Consume(turn, x)
  BY <1>3, ConsumeOne
<1>6. QED
  BY <1>4, <1>5, ConsumeTyped DEF Consume

\* The end of a message gives the turn its stop reason.
LEMMA EndGives ==
  ASSUME NEW turn \in Turn, NEW stop \in StopReasons, NEW t, t = ConsumeAll(turn, EndOf(stop))
  PROVE  t \in Turn /\ t.calls = turn.calls /\ t.stop = stop
<1>1. PICK x \in Chunks : x = Chunk("end", EmptySlot, stop)
  <2>1. EmptySlot \in Slot
    BY DEF EmptySlot, Slot
  <2>2. Chunk("end", EmptySlot, stop) \in Chunks
    BY <2>1 DEF Chunk, Chunks, ChunkNames
  <2>3. QED
    BY <2>2
<1>2. x.c = "end" /\ x.stop = stop /\ EndOf(stop) = <<x>>
  BY <1>1 DEF EndOf, Chunk
<1>3. t = Consume(turn, x)
  BY <1>2, ConsumeOne
<1>4. QED
  BY <1>2, <1>3, ConsumeTyped DEF Consume

\* The deltas of each event of r; A has those of the first events together.
ToolsOf(r) == [i \in DOMAIN r.events |-> r.events[i].tools]
DeltasBy(A, r) == Strings(A, ToolDeltas, ToolsOf(r))

LEMMA ToolsTyped ==
  ASSUME NEW r, r.events \in Seq(ChatEvents)
  PROVE  ToolsOf(r) \in Seq(Seq(ToolDeltas))
<1>1. PICK n \in Nat : n = Len(r.events) /\ DOMAIN r.events = 1 .. n
  <2>1. Len(r.events) \in Nat /\ DOMAIN r.events = 1 .. Len(r.events)
    OBVIOUS
  <2>2. QED
    BY <2>1
<1>2. \A i \in 1 .. n : r.events[i].tools \in Seq(ToolDeltas)
  <2>1. \A i \in 1 .. n : r.events[i] \in ChatEvents
    BY <1>1
  <2>2. QED
    BY <2>1 DEF ChatEvents
<1>3. ToolsOf(r) \in [1 .. n -> Seq(ToolDeltas)]
  BY <1>1, <1>2 DEF ToolsOf
<1>4. QED
  BY <1>3, SeqDef

LEMMA DeltasRun ==
  ASSUME NEW r, r.events \in Seq(ChatEvents)
  PROVE  \E A : DeltasBy(A, r)
  BY ToolsTyped, FlattenRuns DEF DeltasBy

\* The deltas of the first events together, event by event.
LEMMA DeltasAre ==
  ASSUME NEW r, r.events \in Seq(ChatEvents), NEW A, DeltasBy(A, r)
  PROVE  /\ A \in [0 .. Len(r.events) -> Seq(ToolDeltas)]
         /\ A[0] = <<>> /\ A[Len(r.events)] = Deltas(r)
         /\ \A k \in 1 .. Len(r.events) : A[k] = Cat(A[k - 1], r.events[k].tools)
<1>1. PICK n \in Nat : n = Len(r.events) /\ DOMAIN r.events = 1 .. n
  <2>1. Len(r.events) \in Nat /\ DOMAIN r.events = 1 .. Len(r.events)
    OBVIOUS
  <2>2. QED
    BY <2>1
<1>2. PICK ss \in Seq(Seq(ToolDeltas)) : ss = ToolsOf(r)
  BY ToolsTyped
<1>3. /\ A \in [0 .. Len(ss) -> Seq(ToolDeltas)]
      /\ A[0] = <<>> /\ A[Len(ss)] = FlattenSeq(ss)
      /\ \A k \in 1 .. Len(ss) : A[k] = Cat(A[k - 1], ss[k])
  BY <1>2 DEF DeltasBy, Strings
<1>4. DOMAIN ss = 1 .. n /\ \A k \in 1 .. n : ss[k] = r.events[k].tools
  BY <1>1, <1>2 DEF ToolsOf
<1>5. Len(ss) = n
  <2>1. PICK m \in Nat : m = Len(ss) /\ DOMAIN ss = 1 .. m
    <3>1. Len(ss) \in Nat /\ DOMAIN ss = 1 .. Len(ss)
      OBVIOUS
    <3>2. QED
      BY <3>1
  <2>2. 1 .. m = 1 .. n
    BY <1>4, <2>1
  <2>3. (m # 0 => m \in 1 .. n) /\ (n # 0 => n \in 1 .. m)
    BY <1>1, <2>1, <2>2
  <2>4. QED
    BY <1>1, <2>1, <2>3
<1>6. FlattenSeq(ss) = Deltas(r)
  BY <1>2 DEF ToolsOf, Deltas
<1>7. QED
  BY <1>1, <1>3, <1>4, <1>5, <1>6

LEMMA FinishNext ==
  ASSUME NEW r, NEW k \in Nat
  PROVE  FinishBy(r, k + 1) <=> FinishBy(r, k) \/ r.events[k + 1].finish # NoFinish
<1>1. \A i : i \in 1 .. k + 1 <=> i \in 1 .. k \/ i = k + 1
  OBVIOUS
<1>2. k + 1 \in 1 .. k + 1
  OBVIOUS
<1>3. QED
  BY <1>1, <1>2 DEF FinishBy

\* With the finish reason all deltas have come.
LEMMA AllByFinish ==
  ASSUME NEW r, r.events \in Seq(ChatEvents), WellFormedCalls(r), NEW A, DeltasBy(A, r),
         NEW k \in 0 .. Len(r.events), FinishBy(r, k)
  PROVE  A[k] = Deltas(r)
<1>1. PICK n \in Nat : n = Len(r.events) /\ DOMAIN r.events = 1 .. n
  <2>1. Len(r.events) \in Nat /\ DOMAIN r.events = 1 .. Len(r.events)
    OBVIOUS
  <2>2. QED
    BY <2>1
<1>2. /\ A \in [0 .. n -> Seq(ToolDeltas)] /\ A[n] = Deltas(r)
      /\ \A i \in 1 .. n : A[i] = Cat(A[i - 1], r.events[i].tools)
  BY <1>1, DeltasAre
<1>3. \A i \in 1 .. n : FinishBy(r, i - 1) => r.events[i].tools = <<>>
  BY <1>1 DEF WellFormedCalls
<1>4. \A i \in Nat : i >= k => FinishBy(r, i)
  <2>1. PICK j \in 1 .. k : r.events[j].finish # NoFinish
    BY DEF FinishBy
  <2>2. \A i \in Nat : i >= k => j \in 1 .. i
    BY <1>1
  <2>3. QED
    BY <2>1, <2>2 DEF FinishBy
<1> DEFINE B == {i \in k .. n : A[i] # A[k]}
<1>5. B = {}
  <2> SUFFICES ASSUME B # {} PROVE FALSE
    OBVIOUS
  <2>1. B \subseteq Nat
    BY <1>1
  <2>2. PICK i \in B : \A j \in B : i <= j
    <3> HIDE DEF B
    <3>1. QED
      BY <2>1, LeastNumber
  <2>3. i \in k .. n /\ A[i] # A[k]
    OBVIOUS
  <2>4. i # k
    BY <2>3
  <2>5. i - 1 \in k .. n /\ ~(i <= i - 1) /\ i \in 1 .. n /\ i - 1 \in Nat /\ i - 1 \in 0 .. n
    BY <1>1, <2>3, <2>4
  <2>6. A[i - 1] = A[k]
    BY <2>2, <2>5
  <2>7. r.events[i].tools = <<>>
    <3>1. FinishBy(r, i - 1)
      BY <1>4, <2>5
    <3>2. QED
      BY <1>3, <2>5, <3>1
  <2>8. A[i] = Cat(A[i - 1], <<>>)
    BY <1>2, <2>5, <2>7
  <2>9. A[i - 1] \in Seq(ToolDeltas)
    BY <1>2, <2>5
  <2>10. Cat(A[i - 1], <<>>) = A[i - 1]
    BY <2>9, CatEmpty
  <2>11. QED
    BY <2>3, <2>6, <2>8, <2>10
<1>6. n \in k .. n
  BY <1>1
<1>7. QED
  BY <1>2, <1>5, <1>6

\* The stop reasons of the server.
GivenStops(r) ==
  {StopReasonFrom(f) : f \in {g \in Finishes : \E i \in DOMAIN r.events : r.events[i].finish = g}}

LEMMA GivenTyped ==
  ASSUME NEW r
  PROVE  GivenStops(r) \subseteq StopReasons
<1>1. \A f \in Finishes : StopReasonFrom(f) \in StopReasons
  BY DEF Finishes, StopReasonFrom, StopReasons
<1>2. QED
  BY <1>1 DEF GivenStops

\* While the stream is open: before a finish reason the slots have what the
\* deltas D of the events so far gave; after one the turn has the calls.
CallPhase(r, k, D, agg, turn) ==
  \/ /\ ~FinishBy(r, k) /\ agg.slots = AbsorbDeltas(<<>>, D) /\ agg.pending = NoFinish
     /\ turn.calls = <<>> /\ turn.stop = "end_turn"
  \/ /\ FinishBy(r, k) /\ agg.slots = <<>> /\ agg.pending \in {NoFinish} \union GivenStops(r)
     /\ turn.calls = WholeCalls(r) /\ turn.stop \in {"end_turn"} \union GivenStops(r)

\* One event more.
LEMMA EventCalls ==
  ASSUME NEW r, r.events \in Seq(ChatEvents), WellFormedCalls(r),
         NEW k \in Nat, k + 1 \in DOMAIN r.events, NEW ev \in ChatEvents, ev = r.events[k + 1],
         NEW D \in Seq(ToolDeltas), NEW E \in Seq(ToolDeltas), E = Cat(D, ev.tools),
         FinishBy(r, k + 1) => E = Deltas(r),
         NEW agg \in Aggregator, NEW turn \in Turn, CallPhase(r, k, D, agg, turn)
  PROVE  CallPhase(r, k + 1, E, Ingest(agg, ev).agg, ConsumeAll(turn, Ingest(agg, ev).out))
<1>1. PICK a \in Seq(Chunks), b \in Seq(MiddleChunks), c \in Seq(MiddleChunks),
           d \in Seq(Chunks), fin \in StopReasons \union {NoFinish} :
        Adds(agg, ev, a, b, c, d, fin)
  BY IngestOut
<1>2. /\ ev.tools \in Seq(ToolDeltas) /\ ev.text \in Texts /\ ev.finish \in Finishes \union {NoFinish}
      /\ agg.slots \in Seq(Slot)
  BY DEF ChatEvents, Aggregator
<1>3. PICK slots \in Seq(Slot) : slots = AbsorbDeltas(agg.slots, ev.tools)
  BY <1>2, AbsorbAllTyped
<1>4. PICK x \in Aggregator, o \in Seq(Chunks) :
        x = Ingest(agg, ev).agg /\ o = Ingest(agg, ev).out
  BY IngestTyped
<1>5. /\ a = IF agg.started THEN <<>> ELSE <<Chunk("start", EmptySlot, NoFinish)>>
      /\ b = IF ev.text = "none" THEN <<>> ELSE <<Chunk(ev.text, EmptySlot, NoFinish)>>
      /\ c = IF ev.finish = NoFinish THEN <<>> ELSE FlushToolCalls(slots)
      /\ fin = IF ev.finish = NoFinish THEN agg.pending ELSE StopReasonFrom(ev.finish)
      /\ d = IF fin # NoFinish /\ ev.usage THEN EndOf(fin) ELSE <<>>
      /\ o = Cat(Cat(Cat(a, b), c), d)
  BY <1>1, <1>3, <1>4 DEF Adds
<1>6. /\ x.slots = (IF ev.finish = NoFinish THEN slots ELSE <<>>)
      /\ x.pending = (IF fin # NoFinish /\ ev.usage THEN NoFinish ELSE fin)
  <2>1. PICK u, v : /\ u = (IF ev.finish = NoFinish THEN slots ELSE <<>>)
                    /\ v = (IF fin # NoFinish /\ ev.usage THEN NoFinish ELSE fin)
    OBVIOUS
  <2>2. x = [started |-> TRUE, slots |-> u, pending |-> v]
    BY <1>1, <1>3, <1>4, <2>1 DEF Adds
  <2>3. x.slots = u /\ x.pending = v
    BY <2>2
  <2>4. QED
    BY <2>1, <2>3
<1>7. x.pending = NoFinish \/ x.pending = fin
  BY <1>6
<1>8. b \in Seq(Chunks) /\ c \in Seq(Chunks)
  <2>1. MiddleChunks \subseteq Chunks
    BY DEF MiddleChunks
  <2>2. QED
    BY <2>1, SeqWider
<1>9. PICK t1 \in Turn : t1 = ConsumeAll(turn, a) /\ t1.calls = turn.calls /\ t1.stop = turn.stop
  <2>1. CASE agg.started
    BY <1>5, <2>1, ConsumeAllEmpty
  <2>2. CASE ~agg.started
    <3>1. "start" \in ChunkNames \ {"call", "end"}
      BY DEF ChunkNames
    <3>2. QED
      BY <1>5, <2>2, <3>1, TextLeaves
  <2>3. QED
    BY <2>1, <2>2
<1>10. PICK t2 \in Turn : t2 = ConsumeAll(t1, b) /\ t2.calls = t1.calls /\ t2.stop = t1.stop
  <2>1. CASE ev.text = "none"
    BY <1>5, <2>1, ConsumeAllEmpty
  <2>2. CASE ev.text # "none"
    <3>1. ev.text \in ChunkNames \ {"call", "end"}
      BY <1>2, <2>2 DEF Texts, ChunkNames
    <3>2. QED
      BY <1>5, <2>2, <3>1, TextLeaves
  <2>3. QED
    BY <2>1, <2>2
<1>11. PICK t3 \in Turn : t3 = ConsumeAll(t2, c)
  BY <1>8, ConsumeAllTyped
<1>12. PICK t \in Turn : /\ t = ConsumeAll(t3, d) /\ t.calls = t3.calls
                         /\ t.stop = t3.stop \/ (t.stop = fin /\ fin # NoFinish)
  <2>1. CASE fin # NoFinish /\ ev.usage
    <3>1. fin \in StopReasons
      BY <2>1
    <3>2. d = EndOf(fin)
      BY <1>5, <2>1
    <3>3. QED
      BY <2>1, <3>1, <3>2, EndGives
  <2>2. CASE ~(fin # NoFinish /\ ev.usage)
    BY <1>5, <2>2, ConsumeAllEmpty
  <2>3. QED
    BY <2>1, <2>2
<1>13. t = ConsumeAll(turn, o)
  <2>1. PICK ab \in Seq(Chunks) : ab = Cat(a, b)
    BY <1>8, CatTyped
  <2>2. PICK abc \in Seq(Chunks) : abc = Cat(ab, c)
    BY <1>8, CatTyped
  <2>3. ConsumeAll(turn, ab) = t2
    BY <1>8, <1>9, <1>10, <2>1, ConsumeInTwo
  <2>4. ConsumeAll(turn, abc) = t3
    BY <1>8, <1>11, <2>2, <2>3, ConsumeInTwo
  <2>5. ConsumeAll(turn, Cat(abc, d)) = t
    BY <1>12, <2>4, ConsumeInTwo
  <2>6. QED
    BY <1>5, <2>1, <2>2, <2>5
<1>14. FinishBy(r, k + 1) <=> FinishBy(r, k) \/ ev.finish # NoFinish
  BY FinishNext
<1>15. ev.finish # NoFinish => StopReasonFrom(ev.finish) \in GivenStops(r)
  BY <1>2 DEF GivenStops
<1>16. CASE ~FinishBy(r, k) /\ ev.finish = NoFinish
  <2>1. /\ agg.slots = AbsorbDeltas(<<>>, D) /\ agg.pending = NoFinish
        /\ turn.calls = <<>> /\ turn.stop = "end_turn"
    BY <1>16 DEF CallPhase
  <2>2. fin = NoFinish /\ c = <<>>
    BY <1>5, <1>16, <2>1
  <2>3. t3 = t2
    BY <1>11, <2>2, ConsumeAllEmpty
  <2>4. t.calls = <<>> /\ t.stop = "end_turn"
    BY <1>9, <1>10, <1>12, <2>1, <2>2, <2>3
  <2>5. x.pending = NoFinish
    BY <1>7, <2>2
  <2>6. x.slots = AbsorbDeltas(<<>>, E)
    <3>1. PICK e \in Seq(Slot) : e = <<>>
      <4>1. <<>> \in Seq(Slot)
        OBVIOUS
      <4>2. QED
        BY <4>1
    <3>2. AbsorbDeltas(e, Cat(D, ev.tools)) = AbsorbDeltas(AbsorbDeltas(e, D), ev.tools)
      BY <1>2, AbsorbInTwo
    <3>3. QED
      BY <1>3, <1>6, <1>16, <2>1, <3>1, <3>2
  <2>7. CallPhase(r, k + 1, E, x, t)
    BY <1>14, <1>16, <2>4, <2>5, <2>6 DEF CallPhase
  <2>8. QED
    BY <1>4, <1>13, <2>7
<1>17. CASE ~FinishBy(r, k) /\ ev.finish # NoFinish
  <2>1. /\ agg.slots = AbsorbDeltas(<<>>, D) /\ agg.pending = NoFinish
        /\ turn.calls = <<>> /\ turn.stop = "end_turn"
    BY <1>17 DEF CallPhase
  <2>2. slots = AbsorbDeltas(<<>>, Deltas(r))
    <3>1. PICK e \in Seq(Slot) : e = <<>>
      <4>1. <<>> \in Seq(Slot)
        OBVIOUS
      <4>2. QED
        BY <4>1
    <3>2. AbsorbDeltas(e, Cat(D, ev.tools)) = AbsorbDeltas(AbsorbDeltas(e, D), ev.tools)
      BY <1>2, AbsorbInTwo
    <3>3. E = Deltas(r)
      BY <1>14, <1>17
    <3>4. QED
      BY <1>3, <2>1, <3>1, <3>2, <3>3
  <2>3. Deltas(r) \in Seq(ToolDeltas)
    BY <1>14, <1>17
  <2>4. slots = WholeCalls(r) /\ \A i \in 1 .. Len(slots) : slots[i].id # 0
    BY <2>2, <2>3, SlotsAreCalls
  <2>5. slots \in Seq(NamedSlots)
    <3>1. PICK n \in Nat : n = Len(slots)
      OBVIOUS
    <3>2. slots \in [1 .. n -> NamedSlots]
      BY <2>4, <3>1 DEF NamedSlots
    <3>3. QED
      BY <3>2, SeqDef
  <2>6. t3.calls = Cat(t2.calls, slots) /\ t3.stop = t2.stop
    <3>1. TakesCalls(t2, slots)
      BY <2>5, CallsAreTaken
    <3>2. QED
      BY <1>5, <1>11, <1>17, <3>1 DEF TakesCalls
  <2>7. t3.calls = WholeCalls(r) /\ t3.stop = "end_turn"
    BY <1>9, <1>10, <2>1, <2>4, <2>6, NothingBefore
  <2>8. fin \in GivenStops(r)
    BY <1>5, <1>15, <1>17
  <2>9. CallPhase(r, k + 1, E, x, t)
    <3>1. FinishBy(r, k + 1)
      BY <1>14, <1>17
    <3>2. x.slots = <<>>
      BY <1>6, <1>17
    <3>3. x.pending \in {NoFinish} \union GivenStops(r)
      BY <1>7, <2>8
    <3>4. t.calls = WholeCalls(r) /\ t.stop \in {"end_turn"} \union GivenStops(r)
      BY <1>12, <2>7, <2>8
    <3>5. QED
      BY <3>1, <3>2, <3>3, <3>4 DEF CallPhase
  <2>10. QED
    BY <1>4, <1>13, <2>9
<1>18. CASE FinishBy(r, k)
  <2>1. /\ agg.slots = <<>> /\ agg.pending \in {NoFinish} \union GivenStops(r)
        /\ turn.calls = WholeCalls(r) /\ turn.stop \in {"end_turn"} \union GivenStops(r)
    BY <1>18 DEF CallPhase
  <2>2. ev.tools = <<>>
    <3>1. PICK j \in DOMAIN r.events : j = k + 1
      OBVIOUS
    <3>2. j - 1 = k
      BY <3>1
    <3>3. QED
      BY <1>18, <3>1, <3>2 DEF WellFormedCalls
  <2>3. slots = <<>>
    BY <1>2, <1>3, <2>1, <2>2, AbsorbEmpty
  <2>4. c = <<>>
    BY <1>5, <2>3, FlushEmpty
  <2>5. t3 = t2
    BY <1>11, <2>4, ConsumeAllEmpty
  <2>6. fin \in {NoFinish} \union GivenStops(r)
    BY <1>5, <1>15, <2>1
  <2>7. CallPhase(r, k + 1, E, x, t)
    <3>1. FinishBy(r, k + 1)
      BY <1>14, <1>18
    <3>2. x.slots = <<>>
      BY <1>6, <2>3
    <3>3. x.pending \in {NoFinish} \union GivenStops(r)
      BY <1>7, <2>6
    <3>4. t.calls = WholeCalls(r) /\ t.stop \in {"end_turn"} \union GivenStops(r)
      BY <1>9, <1>10, <1>12, <2>1, <2>5, <2>6
    <3>5. QED
      BY <3>1, <3>2, <3>3, <3>4 DEF CallPhase
  <2>8. QED
    BY <1>4, <1>13, <2>7
<1>19. QED
  BY <1>16, <1>17, <1>18

\* What the turn may hold whatever becomes of the stream.
CallsGiven(r, s) ==
  /\ s.turn.calls \in {<<>>, WholeCalls(r)}
  /\ s.state = "done" => s.turn.calls = WholeCalls(r)
  /\ s.turn.stop # "end_turn" => s.turn.calls = WholeCalls(r) /\ s.turn.stop \in GivenStops(r)

\* After k of the events: A[k] is what their deltas are together.
InCalls(r, k, A) ==
  /\ After(r, k) \in StreamStates
  /\ After(r, k).state = "open" =>
       k <= Len(r.events) /\ CallPhase(r, k, A[k], After(r, k).agg, After(r, k).turn)
  /\ CallsGiven(r, After(r, k))

\* A stream that is still open holds what it may.
LEMMA PhaseGives ==
  ASSUME NEW r, NEW k, NEW D, NEW s, s.state # "done", CallPhase(r, k, D, s.agg, s.turn)
  PROVE  CallsGiven(r, s)
<1>1. CASE s.turn.calls = <<>> /\ s.turn.stop = "end_turn"
  BY <1>1 DEF CallsGiven
<1>2. CASE s.turn.calls = WholeCalls(r) /\ s.turn.stop \in {"end_turn"} \union GivenStops(r)
  BY <1>2 DEF CallsGiven
<1>3. QED
  BY <1>1, <1>2 DEF CallPhase

\* Without a delta there are no calls.
LEMMA NoWholeCalls ==
  ASSUME NEW r, Deltas(r) = <<>>
  PROVE  WholeCalls(r) = <<>>
<1>1. SlotsOf(Deltas(r)) = {}
  BY DEF SlotsOf
<1>2. WholeCalls(r) = [k \in {} |-> [id   |-> CHOOSE id \in Named(Deltas(r), k) : TRUE,
                                     args |-> Pieces(Deltas(r), k)]]
  BY <1>1 DEF WholeCalls
<1>3. QED
  BY <1>2

\* One datum more keeps the turn and the slots in step with the reply.
LEMMA NextInCalls ==
  ASSUME NEW r, r.events \in Seq(ChatEvents), WellFormedCalls(r), NEW A, DeltasBy(A, r),
         NEW k \in Nat, k < Len(Decodable(r)), InCalls(r, k, A)
  PROVE  InCalls(r, k + 1, A)
<1>1. PICK s \in StreamStates : s = After(r, k)
  BY NextAfter
<1>2. PICK x : x = Decodable(r)[k + 1]
  OBVIOUS
<1>3. After(r, k + 1) = Advance(r, s, x)
  BY <1>1, <1>2, NextAfter
<1>4. /\ s.agg \in Aggregator /\ s.turn \in Turn /\ s.state \in {"open", "done", "failed"}
      /\ s = [agg |-> s.agg, turn |-> s.turn, state |-> s.state]
  BY DEF StreamStates
<1>5. /\ s.state = "open" => k <= Len(r.events) /\ CallPhase(r, k, A[k], s.agg, s.turn)
      /\ CallsGiven(r, s)
  BY <1>1 DEF InCalls
<1>6. PICK n \in Nat : n = Len(r.events) /\ DOMAIN r.events = 1 .. n
  <2>1. Len(r.events) \in Nat /\ DOMAIN r.events = 1 .. Len(r.events)
    OBVIOUS
  <2>2. QED
    BY <2>1
<1>7. Len(Decodable(r)) \in Nat
  BY BodyGives
<1>8. k + 1 \in 1 .. Len(Decodable(r))
  BY <1>7
<1>9. x = IF k + 1 <= n THEN Sym("event", k + 1) ELSE Sym("done", 0)
  BY <1>2, <1>6, <1>8, DecodableIs
<1>10. CASE s.state # "open"
  <2>1. After(r, k + 1) = s
    BY <1>3, <1>10 DEF Advance
  <2>2. QED
    BY <1>5, <1>10, <2>1 DEF InCalls
<1>11. CASE s.state = "open" /\ k + 1 <= n /\ r.events[k + 1].valid
  <2>1. k + 1 \in DOMAIN r.events
    BY <1>6, <1>8, <1>11
  <2>2. PICK ev \in ChatEvents : ev = r.events[k + 1]
    BY <2>1
  <2>3. PICK a \in Aggregator, o \in Seq(Chunks) :
          a = Ingest(s.agg, ev).agg /\ o = Ingest(s.agg, ev).out
    BY <1>4, IngestTyped
  <2>4. PICK t \in Turn : t = ConsumeAll(s.turn, o)
    BY <1>4, ConsumeAllTyped
  <2>5. After(r, k + 1) = [s EXCEPT !.agg = a, !.turn = t]
    <3>1. PICK i \in DOMAIN r.events : i = k + 1
      BY <2>1
    <3>2. r.events[i].valid /\ s.state = "open"
      BY <1>11, <3>1
    <3>3. Ingests(r, s, i)
      BY <3>2, AdvanceEvent
    <3>4. Advance(r, s, Sym("event", i)) = [s EXCEPT !.agg = a, !.turn = t]
      BY <2>2, <2>3, <2>4, <3>1, <3>3 DEF Ingests
    <3>5. QED
      BY <1>3, <1>9, <1>11, <3>1, <3>4
  <2>6. PICK z \in StreamStates :
          z = After(r, k + 1) /\ z.agg = a /\ z.turn = t /\ z.state = "open"
    <3>1. [s EXCEPT !.agg = a, !.turn = t] \in StreamStates
      BY <1>4 DEF StreamStates
    <3>2. QED
      BY <1>4, <1>11, <2>5, <3>1
  <2>7. /\ A \in [0 .. n -> Seq(ToolDeltas)] /\ A[k + 1] = Cat(A[k], r.events[k + 1].tools)
    <3>1. k + 1 \in 1 .. n /\ (k + 1) - 1 = k
      BY <1>6, <1>11
    <3>2. PICK i \in 1 .. n : i = k + 1 /\ i - 1 = k
      BY <3>1
    <3>3. A[i] = Cat(A[i - 1], r.events[i].tools)
      BY <1>6, DeltasAre
    <3>4. QED
      BY <1>6, <3>2, <3>3, DeltasAre
  <2>8. PICK D \in Seq(ToolDeltas), E \in Seq(ToolDeltas) :
          D = A[k] /\ E = A[k + 1] /\ E = Cat(D, ev.tools)
    <3>1. k \in 0 .. n /\ k + 1 \in 0 .. n
      BY <1>6, <1>11
    <3>2. QED
      BY <2>2, <2>7, <3>1
  <2>9. FinishBy(r, k + 1) => E = Deltas(r)
    <3>1. k + 1 \in 0 .. Len(r.events)
      BY <1>6, <1>11
    <3>2. PICK i \in 0 .. Len(r.events) : i = k + 1
      BY <3>1
    <3>3. FinishBy(r, i) => A[i] = Deltas(r)
      BY AllByFinish
    <3>4. QED
      BY <2>8, <3>2, <3>3
  <2>10. CallPhase(r, k + 1, E, a, t)
    <3>1. CallPhase(r, k + 1, E, Ingest(s.agg, ev).agg, ConsumeAll(s.turn, Ingest(s.agg, ev).out))
      BY <1>4, <1>5, <1>11, <2>1, <2>2, <2>8, <2>9, EventCalls
    <3>2. QED
      BY <2>3, <2>4, <3>1
  <2>11. CallsGiven(r, z)
    BY <2>6, <2>10, PhaseGives
  <2>12. k + 1 <= Len(r.events)
    BY <1>6, <1>11
  <2>13. QED
    BY <2>6, <2>8, <2>10, <2>11, <2>12 DEF InCalls
<1>12. CASE s.state = "open" /\ k + 1 <= n /\ ~r.events[k + 1].valid
  <2>1. After(r, k + 1) = [s EXCEPT !.state = "failed"]
    BY <1>3, <1>9, <1>12, AdvanceGarbage
  <2>2. PICK z \in StreamStates : z = After(r, k + 1) /\ z.state = "failed" /\ z.turn = s.turn
    <3>1. [s EXCEPT !.state = "failed"] \in StreamStates
      BY <1>4 DEF StreamStates
    <3>2. QED
      BY <1>4, <2>1, <3>1
  <2>3. CallsGiven(r, z)
    BY <1>5, <2>2 DEF CallsGiven
  <2>4. QED
    BY <2>2, <2>3 DEF InCalls
<1>13. CASE s.state = "open" /\ ~(k + 1 <= n)
  <2>1. PICK t \in Turn : t = ConsumeAll(s.turn, Finalize(s.agg))
    BY <1>4, FinalizeTyped, ConsumeAllTyped
  <2>2. After(r, k + 1) = [s EXCEPT !.turn = t, !.state = "done"]
    <3>1. Advance(r, s, Sym("done", 0)) =
            [s EXCEPT !.turn = ConsumeAll(s.turn, Finalize(s.agg)), !.state = "done"]
      BY <1>13, AdvanceDone
    <3>2. QED
      BY <1>3, <1>9, <1>13, <2>1, <3>1
  <2>3. PICK z \in StreamStates : z = After(r, k + 1) /\ z.state = "done" /\ z.turn = t
    <3>1. [s EXCEPT !.turn = t, !.state = "done"] \in StreamStates
      BY <1>4 DEF StreamStates
    <3>2. QED
      BY <1>4, <2>2, <3>1
  <2>4. k = n /\ CallPhase(r, k, A[k], s.agg, s.turn)
    BY <1>5, <1>6, <1>13
  <2>5. r.done
    <3> SUFFICES ASSUME ~r.done PROVE FALSE
      OBVIOUS
    <3>1. Len(Decodable(r)) = n + (IF r.done THEN 1 ELSE 0)
      BY <1>6, DecodableIs
    <3>2. Len(Decodable(r)) = n
      BY <1>6, <3>1
    <3>3. QED
      BY <2>4, <3>2
  <2>6. s.turn.calls = WholeCalls(r)
    <3>1. CASE FinishBy(r, k)
      BY <2>4, <3>1 DEF CallPhase
    <3>2. CASE ~FinishBy(r, k)
      <4>1. s.turn.calls = <<>>
        BY <2>4, <3>2 DEF CallPhase
      <4>2. Deltas(r) = <<>>
        BY <1>6, <2>4, <2>5, <3>2 DEF WellFormedCalls
      <4>3. QED
        BY <4>1, <4>2, NoWholeCalls
    <3>3. QED
      BY <3>1, <3>2
  <2>7. /\ t.calls = s.turn.calls
        /\ t.stop = s.turn.stop \/ t.stop \in GivenStops(r)
    <3>1. CASE s.agg.pending = NoFinish
      BY <1>4, <2>1, <3>1, ConsumeAllEmpty DEF Finalize
    <3>2. CASE s.agg.pending # NoFinish
      <4>1. s.agg.pending \in StopReasons
        BY <1>4, <3>2 DEF Aggregator
      <4>2. t = ConsumeAll(s.turn, EndOf(s.agg.pending))
        BY <2>1, <3>2 DEF Finalize
      <4>3. s.agg.pending \in GivenStops(r)
        BY <2>4, <3>2 DEF CallPhase
      <4>4. QED
        BY <1>4, <4>1, <4>2, <4>3, EndGives
    <3>3. QED
      BY <3>1, <3>2
  <2>8. s.turn.stop # "end_turn" => s.turn.stop \in GivenStops(r)
    BY <1>5 DEF CallsGiven
  <2>9. CallsGiven(r, z)
    BY <2>3, <2>6, <2>7, <2>8 DEF CallsGiven
  <2>10. QED
    BY <2>3, <2>9 DEF InCalls
<1>14. QED
  BY <1>10, <1>11, <1>12, <1>13

\* So they are in step after any number of data.
LEMMA AllInCalls ==
  ASSUME NEW r, r.events \in Seq(ChatEvents), WellFormedCalls(r), NEW A, DeltasBy(A, r),
         NEW k \in 0 .. Len(Decodable(r))
  PROVE  InCalls(r, k, A)
<1>1. PICK n \in Nat : n = Len(Decodable(r))
  BY BodyGives
<1> DEFINE B == {i \in 0 .. n : ~InCalls(r, i, A)}
<1>2. B = {}
  <2> SUFFICES ASSUME B # {} PROVE FALSE
    OBVIOUS
  <2>1. B \subseteq Nat
    OBVIOUS
  <2>2. PICK i \in B : \A j \in B : i <= j
    <3> HIDE DEF B
    <3>1. QED
      BY <2>1, LeastNumber
  <2>3. i \in 0 .. n /\ ~InCalls(r, i, A)
    OBVIOUS
  <2>4. i # 0
    <3>1. InCalls(r, 0, A)
      <4>1. PICK s \in StreamStates : s = NewStream /\ After(r, 0) = s
        BY NoneAfter, NewStreamTyped
      <4>2. /\ s.state = "open" /\ s.agg.slots = <<>> /\ s.agg.pending = NoFinish
            /\ s.turn.calls = <<>> /\ s.turn.stop = "end_turn"
        BY <4>1 DEF NewStream, NewAggregator, NewTurn
      <4>3. ~FinishBy(r, 0)
        BY DEF FinishBy
      <4>4. AbsorbDeltas(<<>>, A[0]) = <<>>
        <5>1. PICK e \in Seq(Slot) : e = <<>>
          <6>1. <<>> \in Seq(Slot)
            OBVIOUS
          <6>2. QED
            BY <6>1
        <5>2. AbsorbDeltas(e, <<>>) = e
          BY AbsorbEmpty
        <5>3. QED
          BY <5>1, <5>2, DeltasAre
      <4>5. CallPhase(r, 0, A[0], s.agg, s.turn)
        BY <4>2, <4>3, <4>4 DEF CallPhase
      <4>6. CallsGiven(r, s)
        BY <4>2, <4>5, PhaseGives
      <4>7. 0 <= Len(r.events)
        OBVIOUS
      <4>8. QED
        BY <4>1, <4>5, <4>6, <4>7 DEF InCalls
    <3>2. QED
      BY <2>3, <3>1
  <2>5. i - 1 \in 0 .. n /\ i - 1 \in Nat /\ i - 1 < n /\ (i - 1) + 1 = i /\ ~(i <= i - 1)
    BY <2>3, <2>4
  <2>6. InCalls(r, i - 1, A)
    BY <2>2, <2>5
  <2> HIDE DEF B
  <2>7. PICK j \in Nat : j = i - 1 /\ j < n /\ j + 1 = i
    BY <2>5
  <2>8. InCalls(r, j + 1, A)
    BY <1>1, <2>6, <2>7, NextInCalls
  <2>9. QED
    BY <2>3, <2>7, <2>8
<1>3. QED
  BY <1>1, <1>2

\* The reply of no request has no calls.
LEMMA NoReplyKeeps == NoReply.events \in Seq(ChatEvents) /\ WellFormedCalls(NoReply)
<1>1. NoReply.events = <<>> /\ NoReply.done = FALSE
  BY DEF NoReply
<1>2. <<>> \in Seq(ChatEvents) /\ DOMAIN <<>> = {}
  OBVIOUS
<1>3. PICK A : DeltasBy(A, NoReply)
  BY <1>1, <1>2, DeltasRun
<1>4. A[0] = <<>> /\ A[Len(NoReply.events)] = Deltas(NoReply)
  BY <1>1, <1>2, <1>3, DeltasAre
<1>5. Deltas(NoReply) = <<>>
  BY <1>1, <1>4
<1>6. SlotsOf(Deltas(NoReply)) = {}
  BY <1>5 DEF SlotsOf
<1>7. \E n \in 0 .. Len(Deltas(NoReply)) : {} = 1 .. n
  BY <1>5
<1>8. QED
  BY <1>1, <1>2, <1>6, <1>7 DEF WellFormedCalls

\* What is committed has all of the server's calls, each once and whole, or
\* none of them - of a server whose calls keep to the protocol, however its
\* deltas are mixed, cut or broken off (StreamAggregator, DefaultConsumer,
\* stream_one_turn).
THEOREM CallsWhole ==
  ASSUME \A r \in Replies : WellFormedCalls(r)
  PROVE  Spec => []CallsAreWhole
<1>1. IInv /\ Assembled => CallsAreWhole
  <2> SUFFICES ASSUME IInv, Assembled PROVE CallsAreWhole
    OBVIOUS
  <2>1. reply \in Replies \union {NoReply}
    BY DEF IInv, Streaming
  <2>2. reply.events \in Seq(ChatEvents) /\ WellFormedCalls(reply)
    <3>1. \A r \in Replies : r.events \in Seq(ChatEvents)
      BY TurnAssumption
    <3>2. QED
      BY <2>1, <3>1, NoReplyKeeps
  <2>3. PICK k \in 0 .. Len(Decodable(reply)) : st = After(reply, k)
    BY DEF Assembled, After
  <2>4. PICK A : DeltasBy(A, reply)
    BY <2>2, DeltasRun
  <2>5. InCalls(reply, k, A)
    BY <2>2, <2>4, AllInCalls
  <2>6. CallsGiven(reply, st)
    BY <2>3, <2>5 DEF InCalls
  <2>7. QED
    BY <2>6 DEF CallsGiven, GivenStops, CallsAreWhole
<1>2. QED
  BY <1>1, Inductive, EventsInOrder, PTL
=============================================================================
