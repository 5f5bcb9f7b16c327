-------------------------- MODULE ProxyExchangeProofs --------------------------
(***************************************************************************)
(* The projection of the lists, the answers of the proxy and its           *)
(* certificate cache, for all lists, hostnames, UserCAs, requests and      *)
(* replies, every capacity and every way of switching.                     *)
(*                                                                         *)
(* First what deduplicate, a sort and a flattened sequence hold; then what *)
(* the operators of TrafficProjection return, up to the theorems about     *)
(* routing; then the certificate cache; then what CORS and a facade make   *)
(* of an answer.                                                           *)
(***************************************************************************)
EXTENDS ProxyExchange, FiniteSetTheorems, TLAPS

(***************************************************************************)
(* Loops, sequences and ranks.                                             *)
(***************************************************************************)
\* Induction up to a bound.
LEMMA UpTo ==
  ASSUME NEW N \in Nat, NEW T, 0 \in T, \A n \in 1..N : n - 1 \in T => n \in T
  PROVE  \A n \in 0..N : n \in T
<1> DEFINE bad == {n \in 0..N : n \notin T}
<1> SUFFICES ASSUME bad # {} PROVE FALSE
  OBVIOUS
<1>1. PICK m \in bad : \A k \in bad : <<k, m>> \notin OpToRel(<, Nat)
  <2>1. IsWellFoundedOn(OpToRel(<, Nat), Nat)
    BY NatLessThanWellFounded
  <2>2. bad \subseteq Nat
    OBVIOUS
  <2> QED
    BY <2>1, <2>2, WFMin
<1>2. m \in 1..N
  OBVIOUS
<1>3. m - 1 \in 0..N /\ m - 1 < m
  BY <1>2
<1>4. m - 1 \in bad
  BY <1>2, <1>3
<1>5. <<m - 1, m>> \in OpToRel(<, Nat)
  BY <1>2, <1>3 DEF OpToRel
<1> QED
  BY <1>1, <1>4, <1>5

\* f[n] is what the loop has after n turns.
IsRun(f, N, base, turn) == f[0] = base /\ \A n \in 1..N : f[n] = turn[n][f[n - 1]]

\* A loop of N turns over the elements of S runs to its end.
LEMMA LoopRuns ==
  ASSUME NEW N \in Nat, NEW S, NEW base \in S, NEW turn \in [1..N -> [S -> S]]
  PROVE  \E f \in [0..N -> S] : IsRun(f, N, base, turn)
<1> DEFINE Runs(f, m) == /\ f \in [0..m -> S]
                         /\ f[0] = base
                         /\ \A n \in 1..m : f[n] = turn[n][f[n - 1]]
           T == {m \in 0..N : \E f : Runs(f, m)}
<1>1. 0 \in T
  <2>1. Runs([n \in 0..0 |-> base], 0)
    OBVIOUS
  <2> HIDE DEF Runs
  <2> QED
    BY <2>1
<1>2. ASSUME NEW m \in 1..N, m - 1 \in T
      PROVE  m \in T
  <2>1. PICK f : Runs(f, m - 1)
    BY <1>2
  <2> DEFINE g == [n \in 0..m |-> IF n = m THEN turn[m][f[m - 1]] ELSE f[n]]
  <2>2. m - 1 \in 0..(m - 1) /\ turn[m][f[m - 1]] \in S
    BY <2>1
  <2>3. g \in [0..m -> S] /\ g[0] = base
    BY <2>1, <2>2
  <2>4. ASSUME NEW n \in 1..m
        PROVE  g[n] = turn[n][g[n - 1]]
    <3>1. CASE n = m
      BY <3>1
    <3>2. CASE n # m
      <4>1. n \in 1..(m - 1) /\ n - 1 \in 0..(m - 1)
        BY <3>2
      <4> QED
        BY <2>1, <3>2, <4>1
    <3> QED
      BY <3>1, <3>2
  <2>5. Runs(g, m)
    BY <2>3, <2>4
  <2> HIDE DEF Runs, g
  <2> QED
    BY <2>5
<1> HIDE DEF T
<1>3. N \in T
  <2>1. \A n \in 0..N : n \in T
    BY <1>1, <1>2, UpTo
  <2> QED
    BY <2>1
<1>4. PICK f : Runs(f, N)
  BY <1>3 DEF T
<1> QED
  BY <1>4 DEF IsRun

\* One more element is kept, unless it is there.
LEMMA KeepFacts ==
  ASSUME NEW S, NEW kept \in Seq(S), NEW x \in S, IsInjective(kept)
  PROVE  /\ Keep(kept, x) \in Seq(S)
         /\ IsInjective(Keep(kept, x))
         /\ ToSet(Keep(kept, x)) = ToSet(kept) \cup {x}
<1> DEFINE t == Keep(kept, x)
<1>1. CASE x \in ToSet(kept)
  BY <1>1 DEF Keep
<1>2. CASE x \notin ToSet(kept)
  <2>1. t = Append(kept, x) /\ t \in Seq(S)
    BY <1>2 DEF Keep
  <2>2. /\ DOMAIN t = 1..(Len(kept) + 1) /\ DOMAIN kept = 1..Len(kept)
        /\ Len(kept) \in Nat
        /\ \A i \in 1..Len(kept) : t[i] = kept[i] /\ t[i] # x
        /\ t[Len(kept) + 1] = x
    BY <1>2, <2>1 DEF ToSet
  <2>3. ToSet(t) = ToSet(kept) \cup {x}
    BY <2>2 DEF ToSet
  <2>4. IsInjective(t)
    BY <2>2 DEF IsInjective
  <2> QED
    BY <2>1, <2>3, <2>4
<1> QED
  BY <1>1, <1>2

\* deduplicate keeps every element once.
LEMMA DeduplicateFacts ==
  ASSUME NEW S, NEW s \in Seq(S)
  PROVE  /\ Deduplicate(s) \in Seq(S)
         /\ IsInjective(Deduplicate(s))
         /\ ToSet(Deduplicate(s)) = ToSet(s)
<1> DEFINE N == Len(s)
           K == CHOOSE f : f = [n \in 0..N |-> IF n = 0 THEN <<>> ELSE Keep(f[n - 1], s[n])]
           D == {t \in Seq(S) : IsInjective(t)}
           turn == [n \in 1..N |-> [t \in D |-> Keep(t, s[n])]]
<1>1. N \in Nat /\ \A n \in 1..N : s[n] \in S
  OBVIOUS
<1>2. <<>> \in D
  BY DEF IsInjective
<1>3. turn \in [1..N -> [D -> D]]
  BY <1>1, KeepFacts
<1> HIDE DEF D, turn, N
<1>4. PICK f \in [0..N -> D] : IsRun(f, N, <<>>, turn)
  BY <1>1, <1>2, <1>3, LoopRuns
<1>5. f = [n \in 0..N |-> IF n = 0 THEN <<>> ELSE Keep(f[n - 1], s[n])]
  <2>1. ASSUME NEW n \in 1..N
        PROVE  f[n] = Keep(f[n - 1], s[n])
    <3>1. n - 1 \in 0..N
      BY <1>1
    <3>2. f[n - 1] \in D
      BY <3>1
    <3> QED
      BY <1>4, <3>2 DEF turn, IsRun
  <2>2. \A n \in 0..N : n = 0 \/ n \in 1..N
    BY <1>1
  <2>3. \A n \in 0..N : f[n] = IF n = 0 THEN <<>> ELSE Keep(f[n - 1], s[n])
    BY <1>4, <2>1, <2>2 DEF IsRun
  <2> QED
    BY <2>3
<1>6. K = [n \in 0..N |-> IF n = 0 THEN <<>> ELSE Keep(K[n - 1], s[n])]
  BY <1>5
<1>7. Deduplicate(s) = K[N]
  BY DEF Deduplicate, N
<1> HIDE DEF K
<1> DEFINE T == {n \in 0..N : K[n] \in D /\ ToSet(K[n]) = {s[i] : i \in 1..n}}
<1>8. 0 \in T
  BY <1>1, <1>2, <1>6 DEF ToSet
<1>9. ASSUME NEW n \in 1..N, n - 1 \in T
      PROVE  n \in T
  <2>1. K[n] = Keep(K[n - 1], s[n]) /\ s[n] \in S
    BY <1>1, <1>6
  <2>2. K[n - 1] \in Seq(S) /\ IsInjective(K[n - 1])
    BY <1>9 DEF D
  <2> DEFINE k == K[n - 1]
             x == s[n]
  <2>3. k \in Seq(S) /\ IsInjective(k) /\ x \in S
    BY <2>1, <2>2
  <2> HIDE DEF k, x
  <2>5. Keep(k, x) \in Seq(S) /\ IsInjective(Keep(k, x)) /\ ToSet(Keep(k, x)) = ToSet(k) \cup {x}
    BY <2>3, KeepFacts
  <2>4. 1..n = 1..(n - 1) \cup {n}
    BY <1>1
  <2> QED
    BY <1>9, <2>1, <2>4, <2>5 DEF k, x, D
<1> HIDE DEF T
<1>10. N \in T
  <2>1. \A n \in 0..N : n \in T
    BY <1>1, <1>8, <1>9, UpTo
  <2> QED
    BY <1>1, <2>1
<1>11. K[N] \in Seq(S) /\ IsInjective(K[N]) /\ ToSet(K[N]) = {s[i] : i \in 1..N}
  BY <1>10 DEF T, D
<1>12. DOMAIN s = 1..N
  BY DEF N
<1> QED
  BY <1>7, <1>11, <1>12 DEF ToSet

\* What a concatenation holds.
LEMMA ConcatFacts ==
  ASSUME NEW S, NEW a \in Seq(S), NEW b \in Seq(S)
  PROVE  a \o b \in Seq(S) /\ ToSet(a \o b) = ToSet(a) \cup ToSet(b)
<1> DEFINE c == a \o b
<1>1. /\ c \in Seq(S) /\ Len(c) = Len(a) + Len(b)
      /\ \A i \in 1..Len(c) : c[i] = IF i <= Len(a) THEN a[i] ELSE b[i - Len(a)]
  OBVIOUS
<1>2. DOMAIN a = 1..Len(a) /\ DOMAIN b = 1..Len(b) /\ DOMAIN c = 1..Len(c)
      /\ Len(a) \in Nat /\ Len(b) \in Nat
  BY <1>1
<1> HIDE DEF c
<1>3. ASSUME NEW x \in ToSet(a) PROVE x \in ToSet(c)
  <2>1. PICK i \in 1..Len(a) : a[i] = x
    BY <1>2, <1>3 DEF ToSet
  <2>2. i \in 1..Len(c) /\ c[i] = x
    BY <1>1, <1>2, <2>1
  <2> QED
    BY <1>2, <2>2 DEF ToSet
<1>4. ASSUME NEW x \in ToSet(b) PROVE x \in ToSet(c)
  <2>1. PICK i \in 1..Len(b) : b[i] = x
    BY <1>2, <1>4 DEF ToSet
  <2>2. Len(a) + i \in 1..Len(c) /\ ~(Len(a) + i <= Len(a)) /\ (Len(a) + i) - Len(a) = i
    BY <1>1, <1>2
  <2>3. c[Len(a) + i] = x
    BY <1>1, <2>1, <2>2
  <2> QED
    BY <1>2, <2>2, <2>3 DEF ToSet
<1>5. ASSUME NEW x \in ToSet(c) PROVE x \in ToSet(a) \cup ToSet(b)
  <2>1. PICK i \in 1..Len(c) : c[i] = x
    BY <1>2, <1>5 DEF ToSet
  <2>2. CASE i <= Len(a)
    <3>1. i \in 1..Len(a) /\ x = a[i]
      BY <1>1, <1>2, <2>1, <2>2
    <3> QED
      BY <1>2, <3>1 DEF ToSet
  <2>3. CASE ~(i <= Len(a))
    <3>1. i - Len(a) \in 1..Len(b) /\ x = b[i - Len(a)]
      BY <1>1, <1>2, <2>1, <2>3
    <3> QED
      BY <1>2, <3>1 DEF ToSet
  <2> QED
    BY <2>2, <2>3
<1> QED
  BY <1>1, <1>3, <1>4, <1>5 DEF c

\* What a sequence of sequences holds together.
LEMMA FlattenFacts ==
  ASSUME NEW S, NEW ss \in Seq(Seq(S))
  PROVE  /\ FlattenSeq(ss) \in Seq(S)
         /\ ToSet(FlattenSeq(ss)) = UNION {ToSet(ss[i]) : i \in DOMAIN ss}
<1> DEFINE N == Len(ss)
           F == CHOOSE f : f = [i \in 1..N |-> IF i = 1 THEN ss[i] ELSE f[i - 1] \o ss[i]]
           turn == [n \in 1..N |-> [t \in Seq(S) |-> t \o ss[n]]]
<1>1. N \in Nat /\ DOMAIN ss = 1..N /\ \A n \in 1..N : ss[n] \in Seq(S)
  OBVIOUS
<1>2. CASE N = 0
  <2>1. FlattenSeq(ss) = <<>> /\ ss = <<>>
    BY <1>2 DEF FlattenSeq
  <2> QED
    BY <2>1 DEF ToSet
<1>3. CASE N # 0
  <2>1. FlattenSeq(ss) = F[N]
    BY <1>3 DEF FlattenSeq
  <2>2. turn \in [1..N -> [Seq(S) -> Seq(S)]] /\ <<>> \in Seq(S)
    BY <1>1
  <2> HIDE DEF turn, N
  <2>3. PICK r \in [0..N -> Seq(S)] : IsRun(r, N, <<>>, turn)
    BY <1>1, <2>2, LoopRuns
  <2> DEFINE g == [i \in 1..N |-> r[i]]
  <2>4. ASSUME NEW n \in 1..N
        PROVE  g[n] = IF n = 1 THEN ss[n] ELSE g[n - 1] \o ss[n]
    <3>1. r[n - 1] \in Seq(S) /\ r[n] = r[n - 1] \o ss[n]
      <4>1. n - 1 \in 0..N
        BY <1>1
      <4>2. r[n - 1] \in Seq(S)
        BY <4>1
      <4> QED
        BY <2>3, <4>2 DEF turn, IsRun
    <3> HIDE DEF g
    <3>4. g[n] = r[n] /\ (n # 1 => n - 1 \in 1..N /\ g[n - 1] = r[n - 1])
      BY <1>1 DEF g
    <3>2. CASE n = 1
      <4>1. r[0] = <<>> /\ ss[n] \in Seq(S) /\ n - 1 = 0
        BY <1>1, <2>3, <3>2 DEF IsRun
      <4>3. r[n] = <<>> \o ss[n]
        BY <3>1, <4>1
      <4>2. <<>> \o ss[n] = ss[n]
        BY <4>1
      <4> QED
        BY <3>2, <3>4, <4>2, <4>3
    <3>3. CASE n # 1
      BY <3>1, <3>3, <3>4
    <3> QED
      BY <3>2, <3>3
  <2>5. g = [i \in 1..N |-> IF i = 1 THEN ss[i] ELSE g[i - 1] \o ss[i]]
    BY <2>4
  <2> HIDE DEF g
  <2>6. F = [i \in 1..N |-> IF i = 1 THEN ss[i] ELSE F[i - 1] \o ss[i]]
    BY <2>5
  <2> HIDE DEF F
  <2> DEFINE Holds(n) == F[n] \in Seq(S) /\ ToSet(F[n]) = UNION {ToSet(ss[i]) : i \in 1..n}
             T == {n \in 0..N : n = 0 \/ Holds(n)}
  <2>7. ASSUME NEW n \in 1..N, n - 1 \in T
        PROVE  n \in T
    <3>1. CASE n = 1
      <4>1. F[n] = ss[1] /\ ss[1] \in Seq(S) /\ 1..n = {1}
        BY <1>1, <2>6, <3>1
      <4> QED
        BY <1>1, <4>1
    <3>2. CASE n # 1
      <4>4. n - 1 # 0 /\ Holds(n - 1)
        BY <2>7, <3>2
      <4>1. F[n] = F[n - 1] \o ss[n] /\ ss[n] \in Seq(S) /\ F[n - 1] \in Seq(S)
        BY <1>1, <2>6, <3>2, <4>4
      <4>2. F[n] \in Seq(S) /\ ToSet(F[n]) = ToSet(F[n - 1]) \cup ToSet(ss[n])
        BY <4>1, ConcatFacts
      <4>3. 1..n = 1..(n - 1) \cup {n} 
        BY <1>1, <3>2
      <4>5. Holds(n)
        BY <4>2, <4>3, <4>4
      <4> QED
        BY <4>5
    <3> QED
      BY <3>1, <3>2
  <2> HIDE DEF T
  <2>8. \A n \in 0..N : n \in T
    <3>1. 0 \in T
      BY <1>1 DEF T
    <3> QED
      BY <1>1, <2>7, <3>1, UpTo
  <2>9. Holds(N)
    <3>1. N \in T
      BY <1>1, <2>8
    <3> QED
      BY <1>3, <3>1 DEF T
  <2> QED
    BY <1>1, <2>1, <2>9
<1> QED
  BY <1>2, <1>3

\* A list that repeats nothing is as long as it holds elements.
LEMMA InjectiveLength ==
  ASSUME NEW S, NEW s \in Seq(S), IsInjective(s)
  PROVE  IsFiniteSet(ToSet(s)) /\ Cardinality(ToSet(s)) = Len(s)
<1>1. Len(s) \in Nat /\ DOMAIN s = 1..Len(s) /\ s \in [1..Len(s) -> ToSet(s)]
  BY DEF ToSet
<1>2. s \in Injection(1..Len(s), ToSet(s)) /\ s \in Surjection(1..Len(s), ToSet(s))
  BY <1>1 DEF IsInjective, Injection, Surjection, ToSet
<1>3. IsFiniteSet(1..Len(s)) /\ Cardinality(1..Len(s)) = Len(s)
  BY <1>1, FS_Interval
<1> QED
  BY <1>2, <1>3, FS_Surjection

\* R orders T strictly and totally.
Orders(R, T) ==
  /\ \A x \in T : <<x, x>> \notin R
  /\ \A x, y, z \in T : <<x, y>> \in R /\ <<y, z>> \in R => <<x, z>> \in R
  /\ \A x, y \in T : x = y \/ <<x, y>> \in R \/ <<y, x>> \in R

RankIn(R, T, x) == Cardinality({y \in T : <<y, x>> \in R})

\* How many elements come before one says which it is, and each number is said.
LEMMA RanksAreDistinct ==
  ASSUME NEW T, IsFiniteSet(T), NEW R, Orders(R, T)
  PROVE  /\ \A x \in T : RankIn(R, T, x) \in 0..(Cardinality(T) - 1)
         /\ \A x, y \in T : RankIn(R, T, x) = RankIn(R, T, y) => x = y
         /\ \A i \in 0..(Cardinality(T) - 1) : \E x \in T : RankIn(R, T, x) = i
<1> DEFINE n == Cardinality(T)
           B(x) == {y \in T : <<y, x>> \in R}
<1>1. n \in Nat
  BY FS_CardinalityType
<1>2. ASSUME NEW x \in T
      PROVE  IsFiniteSet(B(x)) /\ Cardinality(B(x)) \in 0..(n - 1)
  <2>1. B(x) \in SUBSET T /\ B(x) # T
    BY DEF Orders
  <2>2. IsFiniteSet(B(x)) /\ Cardinality(B(x)) <= n /\ Cardinality(B(x)) # n
    BY <2>1, FS_Subset
  <2>3. Cardinality(B(x)) \in Nat
    BY <2>2, FS_CardinalityType
  <2> QED
    BY <1>1, <2>2, <2>3
<1>3. ASSUME NEW x \in T, NEW y \in T, <<x, y>> \in R
      PROVE  Cardinality(B(x)) # Cardinality(B(y))
  <2>1. B(x) \in SUBSET B(y) /\ x \in B(y) /\ x \notin B(x)
    BY <1>3 DEF Orders
  <2> QED
    BY <1>2, <2>1, FS_Subset
<1>9. \A x \in T : RankIn(R, T, x) = Cardinality(B(x))
  BY DEF RankIn
<1> HIDE DEF B
<1>4. ASSUME NEW x \in T, NEW y \in T, Cardinality(B(x)) = Cardinality(B(y))
      PROVE  x = y
  BY <1>3, <1>4 DEF Orders
<1> DEFINE f == [x \in T |-> Cardinality(B(x))]
<1>5. f \in Injection(T, 0..(n - 1))
  BY <1>2, <1>4 DEF Injection, IsInjective
<1>6. IsFiniteSet(0..(n - 1)) /\ Cardinality(0..(n - 1)) = n
  <2>1. n - 1 \in Int /\ 0 \in Int
    BY <1>1
  <2>2. /\ IsFiniteSet(0..(n - 1))
        /\ Cardinality(0..(n - 1)) = IF 0 > n - 1 THEN 0 ELSE (n - 1) - 0 + 1
    BY <2>1, FS_Interval
  <2> QED
    BY <1>1, <2>2
<1>7. f \in Surjection(T, 0..(n - 1))
  BY <1>5, <1>6, FS_Injection
<1>8. \A i \in 0..(n - 1) : \E x \in T : f[x] = i
  BY <1>7 DEF Surjection
<1> QED
  BY <1>2, <1>4, <1>8, <1>9

\* Elements that stand where their rank says are all there, each once.
LEMMA RankedIsPermutation ==
  ASSUME NEW S, NEW s \in Seq(S), IsInjective(s), NEW R, Orders(R, ToSet(s)),
         NEW t \in [1..Len(s) -> ToSet(s)],
         \A i \in 1..Len(s) : RankIn(R, ToSet(s), t[i]) = i - 1
  PROVE  t \in Seq(S) /\ ToSet(t) = ToSet(s)
<1> DEFINE T == ToSet(s)
<1>1. IsFiniteSet(T) /\ Cardinality(T) = Len(s) /\ Len(s) \in Nat
  BY InjectiveLength
<1>2. T \subseteq S
  BY DEF ToSet
<1>3. t \in Seq(S) /\ DOMAIN t = 1..Len(s)
  BY <1>1, <1>2
<1>4. ASSUME NEW x \in T PROVE x \in ToSet(t)
  <2>1. RankIn(R, T, x) \in 0..(Len(s) - 1)
    BY <1>1, RanksAreDistinct
  <2> DEFINE i == RankIn(R, T, x) + 1
  <2>2. i \in 1..Len(s) /\ i - 1 = RankIn(R, T, x)
    BY <1>1, <2>1
  <2>3. t[i] = x
    <3>1. t[i] \in T /\ RankIn(R, T, t[i]) = RankIn(R, T, x)
      BY <2>2
    <3> QED
      BY <1>1, <3>1, RanksAreDistinct
  <2> QED
    BY <1>3, <2>2, <2>3 DEF ToSet
<1> QED
  BY <1>3, <1>4 DEF ToSet

(***************************************************************************)
(* Lists and their canonical form.                                         *)
(***************************************************************************)
HostSelection == [hostname : Hostnames, wildcard : BOOLEAN]
OriginSelection == [scheme : {"http", "https"}, hostname : Hostnames, port : Ports]
Lists == [hosts : Seq(HostSelection), origins : Seq(OriginSelection)]

\* A list without repetitions.
MergedLists == {list \in Lists : IsInjective(list.hosts) /\ IsInjective(list.origins)}

\* A port is a number.
LEMMA PortsAreNumbers == Ports \subseteq Nat
  BY DEF Ports

\* canonicalUpstreams sorts the hosts: none is lost and none is added.
LEMMA HostsSorted ==
  ASSUME NEW s \in Seq(HostSelection), IsInjective(s)
  PROVE  /\ Sorted(s, HostBefore) \in Seq(HostSelection)
         /\ ToSet(Sorted(s, HostBefore)) = ToSet(s)
<1> DEFINE T == ToSet(s)
           R == {p \in HostSelection \X HostSelection : HostBefore(p[1], p[2])}
           t == Sorted(s, HostBefore)
           Choice(i) == CHOOSE x \in T : Cardinality({y \in T : HostBefore(y, x)}) = i - 1
<1>1. T \subseteq HostSelection /\ IsFiniteSet(T) /\ Cardinality(T) = Len(s) /\ Len(s) \in Nat
  <2>1. T \subseteq HostSelection /\ Len(s) \in Nat
    BY DEF ToSet
  <2> QED
    BY <2>1, InjectiveLength
<1>2. \A x, y \in HostSelection : <<x, y>> \in R <=> HostBefore(x, y)
  OBVIOUS
<1>3. \A x \in T : {y \in T : <<y, x>> \in R} = {y \in T : HostBefore(y, x)}
  BY <1>1, <1>2
<1>4. t = [i \in 1..Len(s) |-> Choice(i)]
  BY DEF Sorted
<1> HIDE DEF T, R, t
<1>5. Orders(R, T)
  <2>1. ASSUME NEW x \in HostSelection, NEW y \in HostSelection
        PROVE  /\ x.hostname \in Nat /\ y.hostname \in Nat
               /\ x = y <=> x.hostname = y.hostname /\ x.wildcard = y.wildcard
    <3>1. /\ x = [hostname |-> x.hostname, wildcard |-> x.wildcard]
          /\ y = [hostname |-> y.hostname, wildcard |-> y.wildcard]
      BY DEF HostSelection
    <3> QED
      BY <3>1, HostnamesAssumption DEF HostSelection
  <2>2. \A x \in T : <<x, x>> \notin R
    BY <1>1, <1>2, <2>1 DEF HostBefore
  <2>3. \A x, y, z \in T : HostBefore(x, y) /\ HostBefore(y, z) => HostBefore(x, z)
    BY <1>1, <2>1 DEF HostBefore
  <2>4. \A x, y \in T : x = y \/ HostBefore(x, y) \/ HostBefore(y, x)
    BY <1>1, <2>1 DEF HostBefore, HostSelection
  <2> QED
    BY <1>1, <1>2, <2>2, <2>3, <2>4 DEF Orders
<1>6. \A x \in T : RankIn(R, T, x) = Cardinality({y \in T : HostBefore(y, x)})
  BY <1>3 DEF RankIn
<1>7. ASSUME NEW i \in 1..Len(s)
      PROVE  Choice(i) \in T /\ RankIn(R, T, Choice(i)) = i - 1
  <2>1. i - 1 \in 0..(Cardinality(T) - 1)
    BY <1>1
  <2>2. \E x \in T : RankIn(R, T, x) = i - 1
    BY <1>1, <1>5, <2>1, RanksAreDistinct
  <2>4. Choice(i) \in T /\ Cardinality({y \in T : HostBefore(y, Choice(i))}) = i - 1
    BY <1>6, <2>2
  <2> QED
    BY <1>6, <2>4
<1> HIDE DEF Choice
<1>8. t \in [1..Len(s) -> T] /\ \A i \in 1..Len(s) : RankIn(R, T, t[i]) = i - 1
  BY <1>4, <1>7
<1> QED
  BY <1>5, <1>8, RankedIsPermutation DEF T, t

\* canonicalUpstreams sorts the origins: none is lost and none is added.
LEMMA OriginsSorted ==
  ASSUME NEW s \in Seq(OriginSelection), IsInjective(s)
  PROVE  /\ Sorted(s, OriginBefore) \in Seq(OriginSelection)
         /\ ToSet(Sorted(s, OriginBefore)) = ToSet(s)
<1> DEFINE T == ToSet(s)
           R == {p \in OriginSelection \X OriginSelection : OriginBefore(p[1], p[2])}
           t == Sorted(s, OriginBefore)
           Choice(i) == CHOOSE x \in T : Cardinality({y \in T : OriginBefore(y, x)}) = i - 1
<1>1. T \subseteq OriginSelection /\ IsFiniteSet(T) /\ Cardinality(T) = Len(s) /\ Len(s) \in Nat
  <2>1. T \subseteq OriginSelection /\ Len(s) \in Nat
    BY DEF ToSet
  <2> QED
    BY <2>1, InjectiveLength
<1>2. \A x, y \in OriginSelection : <<x, y>> \in R <=> OriginBefore(x, y)
  OBVIOUS
<1>3. \A x \in T : {y \in T : <<y, x>> \in R} = {y \in T : OriginBefore(y, x)}
  BY <1>1, <1>2
<1>4. t = [i \in 1..Len(s) |-> Choice(i)]
  BY DEF Sorted
<1> HIDE DEF T, R, t
<1>5. Orders(R, T)
  <2>1. ASSUME NEW x \in OriginSelection, NEW y \in OriginSelection
        PROVE  /\ x.scheme \in {"http", "https"} /\ x.hostname \in Nat /\ x.port \in Nat
               /\ y.scheme \in {"http", "https"} /\ y.hostname \in Nat /\ y.port \in Nat
               /\ x = y <=> x.scheme = y.scheme /\ x.hostname = y.hostname /\ x.port = y.port
    <3>1. /\ x = [scheme |-> x.scheme, hostname |-> x.hostname, port |-> x.port]
          /\ y = [scheme |-> y.scheme, hostname |-> y.hostname, port |-> y.port]
      BY DEF OriginSelection
    <3>2. x = y <=> x.scheme = y.scheme /\ x.hostname = y.hostname /\ x.port = y.port
      BY <3>1
    <3>3. /\ x.scheme \in {"http", "https"} /\ x.hostname \in Hostnames /\ x.port \in Ports
          /\ y.scheme \in {"http", "https"} /\ y.hostname \in Hostnames /\ y.port \in Ports
      BY DEF OriginSelection
    <3>4. x.hostname \in Nat /\ y.hostname \in Nat
      BY <3>3, HostnamesAssumption
    <3>5. x.port \in Nat /\ y.port \in Nat
      BY <3>3, PortsAreNumbers
    <3> QED
      BY <3>2, <3>3, <3>4, <3>5
  <2>2. \A x \in T : <<x, x>> \notin R
    BY <1>1, <1>2, <2>1 DEF OriginBefore
  <2>3. \A x, y, z \in T : OriginBefore(x, y) /\ OriginBefore(y, z) => OriginBefore(x, z)
    BY <1>1, <2>1 DEF OriginBefore
  <2>4. \A x, y \in T : x = y \/ OriginBefore(x, y) \/ OriginBefore(y, x)
    BY <1>1, <2>1 DEF OriginBefore
  <2> QED
    BY <1>1, <1>2, <2>2, <2>3, <2>4 DEF Orders
<1>6. \A x \in T : RankIn(R, T, x) = Cardinality({y \in T : OriginBefore(y, x)})
  BY <1>3 DEF RankIn
<1>7. ASSUME NEW i \in 1..Len(s)
      PROVE  Choice(i) \in T /\ RankIn(R, T, Choice(i)) = i - 1
  <2>1. i - 1 \in 0..(Cardinality(T) - 1)
    BY <1>1
  <2>2. \E x \in T : RankIn(R, T, x) = i - 1
    BY <1>1, <1>5, <2>1, RanksAreDistinct
  <2>4. Choice(i) \in T /\ Cardinality({y \in T : OriginBefore(y, Choice(i))}) = i - 1
    BY <1>6, <2>2
  <2> QED
    BY <1>6, <2>4
<1> HIDE DEF Choice
<1>8. t \in [1..Len(s) -> T] /\ \A i \in 1..Len(s) : RankIn(R, T, t[i]) = i - 1
  BY <1>4, <1>7
<1> QED
  BY <1>5, <1>8, RankedIsPermutation DEF T, t

\* The canonical form of a merged list selects what the list selects.
LEMMA CanonicalFacts ==
  ASSUME NEW list \in MergedLists, NEW c, c = CanonicalUpstreams(list)
  PROVE  /\ c.hosts \in Seq(HostSelection) /\ ToSet(c.hosts) = ToSet(list.hosts)
         /\ c.origins \in Seq(OriginSelection) /\ ToSet(c.origins) = ToSet(list.origins)
<1>1. /\ list.hosts \in Seq(HostSelection) /\ IsInjective(list.hosts)
      /\ list.origins \in Seq(OriginSelection) /\ IsInjective(list.origins)
  BY DEF MergedLists, Lists
<1>2. c.hosts = Sorted(list.hosts, HostBefore) /\ c.origins = Sorted(list.origins, OriginBefore)
  BY DEF CanonicalUpstreams
<1> QED
  BY <1>1, <1>2, HostsSorted, OriginsSorted

\* Merged lists that select the same have the same canonical form.
LEMMA CanonicalIsUnique ==
  ASSUME NEW a \in MergedLists, NEW b \in MergedLists,
         ToSet(a.hosts) = ToSet(b.hosts), ToSet(a.origins) = ToSet(b.origins)
  PROVE  CanonicalUpstreams(a) = CanonicalUpstreams(b)
<1>1. /\ a.hosts \in Seq(HostSelection) /\ IsInjective(a.hosts)
      /\ b.hosts \in Seq(HostSelection) /\ IsInjective(b.hosts)
      /\ a.origins \in Seq(OriginSelection) /\ IsInjective(a.origins)
      /\ b.origins \in Seq(OriginSelection) /\ IsInjective(b.origins)
  BY DEF MergedLists, Lists
<1>2. Len(a.hosts) = Len(b.hosts)
  BY <1>1, InjectiveLength
<1>3. Len(a.origins) = Len(b.origins)
  BY <1>1, InjectiveLength
<1>4. Sorted(a.hosts, HostBefore) = Sorted(b.hosts, HostBefore)
  BY <1>2 DEF Sorted
<1>5. Sorted(a.origins, OriginBefore) = Sorted(b.origins, OriginBefore)
  BY <1>3 DEF Sorted
<1> QED
  BY <1>4, <1>5 DEF CanonicalUpstreams

\* A line of a file is parsed into selectors of their type.
LEMMA LineFacts ==
  ASSUME NEW line \in Lines
  PROVE  /\ HostSelectors(line) \in Seq(HostSelection)
         /\ OriginSelectors(line) \in Seq(OriginSelection)
<1>1. line.wildcard \in BOOLEAN
  BY DEF Lines
<1>2. IsHostSelector(line) => HostSelector(line) \in HostSelection
  BY <1>1 DEF IsHostSelector, HostSelector, HostSelection
<1>3. ASSUME IsOriginSelector(line) PROVE OriginSelector(line) \in OriginSelection
  <2>1. /\ line.scheme \in {"http", "https"} /\ line.hostname \in Hostnames
        /\ line.port \in Ports \cup {Omitted}
    BY <1>3 DEF IsOriginSelector
  <2>2. httpDefaultPort \in Ports /\ httpsDefaultPort \in Ports
    BY DEF httpDefaultPort, httpsDefaultPort, Ports
  <2>3. OriginSelector(line).port \in Ports
    BY <2>1, <2>2 DEF OriginSelector
  <2> QED
    BY <2>1, <2>3 DEF OriginSelector, OriginSelection
<1> QED
  BY <1>2, <1>3 DEF HostSelectors, OriginSelectors

\* Every list that can be read is projected to selectors of their type.
LEMMA ProjectFacts ==
  ASSUME NEW file \in Files
  PROVE  Project(file) \in Lists
<1>1. CASE file = Undecodable
  BY <1>1 DEF Project, Nothing, Lists
<1>2. CASE file # Undecodable
  <2> DEFINE hosts == [i \in DOMAIN file |-> HostSelectors(file[i])]
             origins == [i \in DOMAIN file |-> OriginSelectors(file[i])]
  <2>1. file \in Seq(Lines)
    BY <1>2, FilesAssumption
  <2>2. DOMAIN file = 1..Len(file) /\ Len(file) \in Nat /\ \A i \in DOMAIN file : file[i] \in Lines
    BY <2>1
  <2>3. hosts \in Seq(Seq(HostSelection)) /\ origins \in Seq(Seq(OriginSelection))
    BY <2>2, LineFacts
  <2> HIDE DEF hosts, origins
  <2>4. FlattenSeq(hosts) \in Seq(HostSelection) /\ FlattenSeq(origins) \in Seq(OriginSelection)
    BY <2>3, FlattenFacts
  <2>5. /\ Deduplicate(FlattenSeq(hosts)) \in Seq(HostSelection)
        /\ Deduplicate(FlattenSeq(origins)) \in Seq(OriginSelection)
    BY <2>4, DeduplicateFacts
  <2> QED
    BY <1>2, <2>5 DEF Project, Decode, Lists, hosts, origins
<1> QED
  BY <1>1, <1>2

\* Merge selects what any of the lists selects, each selector once.
LEMMA MergeFacts ==
  ASSUME NEW lists \in Seq(Lists), NEW m, m = Merge(lists)
  PROVE  /\ m \in MergedLists
         /\ ToSet(m.hosts) = UNION {ToSet(lists[i].hosts) : i \in DOMAIN lists}
         /\ ToSet(m.origins) = UNION {ToSet(lists[i].origins) : i \in DOMAIN lists}
<1> DEFINE hosts == [i \in DOMAIN lists |-> lists[i].hosts]
           origins == [i \in DOMAIN lists |-> lists[i].origins]
<1>1. /\ DOMAIN lists = 1..Len(lists) /\ Len(lists) \in Nat
      /\ \A i \in DOMAIN lists : lists[i] \in Lists
  OBVIOUS
<1>2. hosts \in Seq(Seq(HostSelection)) /\ origins \in Seq(Seq(OriginSelection))
  BY <1>1 DEF Lists
<1>3. /\ {ToSet(hosts[i]) : i \in DOMAIN hosts} = {ToSet(lists[i].hosts) : i \in DOMAIN lists}
      /\ {ToSet(origins[i]) : i \in DOMAIN origins} = {ToSet(lists[i].origins) : i \in DOMAIN lists}
  OBVIOUS
<1>4. m = [hosts |-> Deduplicate(FlattenSeq(hosts)), origins |-> Deduplicate(FlattenSeq(origins))]
  BY DEF Merge
<1> HIDE DEF hosts, origins
<1>5. /\ FlattenSeq(hosts) \in Seq(HostSelection)
      /\ ToSet(FlattenSeq(hosts)) = UNION {ToSet(hosts[i]) : i \in DOMAIN hosts}
  BY <1>2, FlattenFacts
<1>6. /\ FlattenSeq(origins) \in Seq(OriginSelection)
      /\ ToSet(FlattenSeq(origins)) = UNION {ToSet(origins[i]) : i \in DOMAIN origins}
  BY <1>2, FlattenFacts
<1>7. /\ m.hosts \in Seq(HostSelection) /\ IsInjective(m.hosts)
      /\ ToSet(m.hosts) = ToSet(FlattenSeq(hosts))
  BY <1>4, <1>5, DeduplicateFacts
<1>8. /\ m.origins \in Seq(OriginSelection) /\ IsInjective(m.origins)
      /\ ToSet(m.origins) = ToSet(FlattenSeq(origins))
  BY <1>4, <1>6, DeduplicateFacts
<1>9. m \in MergedLists
  BY <1>4, <1>7, <1>8 DEF MergedLists, Lists
<1> QED
  BY <1>3, <1>5, <1>6, <1>7, <1>8, <1>9

(***************************************************************************)
(* The facades of a list.                                                  *)
(***************************************************************************)
Routes == [hostname : Hostnames, httpPort : Ports, httpsPort : Ports]

\* No two facades stand at the same browser origin.
Distinct(routes) ==
  \A q, r \in ToSet(routes) : BrowserOrigin(q) = BrowserOrigin(r) => q = r

\* The facades that stand for the HTTP origins placed so far: each for one of
\* them, none in the place of a native selector, and one at the browser origin
\* of each, with an unchanged port if that is what one of them asks for.
WellPlaced(routes, placed, native) ==
  /\ Distinct(routes)
  /\ \A r \in ToSet(routes) :
       BrowserOrigin(r) \notin native /\ \E p \in placed : r = Candidate(p)
  /\ \A p \in placed :
       \/ BrowserOrigin(Candidate(p)) \in native
       \/ \E r \in ToSet(routes) :
            /\ BrowserOrigin(r) = BrowserOrigin(Candidate(p))
            /\ Unchanged(Candidate(p)) => Unchanged(r)

\* The facade that an HTTP origin asks for.
LEMMA CandidateFacts ==
  ASSUME NEW o \in OriginSelection
  PROVE  Candidate(o) \in Routes
<1>1. httpsDefaultPort \in Ports
  BY DEF httpsDefaultPort, Ports
<1> QED
  BY <1>1 DEF Candidate, Routes, OriginSelection

\* One turn of the loop keeps the facades well placed.
LEMMA PlaceFacts ==
  ASSUME NEW native, NEW placed, NEW o \in OriginSelection, NEW routes \in Seq(Routes)
  PROVE  /\ Place(native, routes, Candidate(o)) \in Seq(Routes)
         /\ WellPlaced(routes, placed, native) =>
              WellPlaced(Place(native, routes, Candidate(o)), placed \cup {o}, native)
<1> DEFINE route == Candidate(o)
           t == Place(native, routes, route)
<1>1. route \in Routes
  BY CandidateFacts
<1>2. /\ DOMAIN routes = 1..Len(routes) /\ Len(routes) \in Nat
      /\ \A i \in DOMAIN routes : routes[i] \in Routes
  OBVIOUS
<1> HIDE DEF route
<1>3. CASE BrowserOrigin(route) \in native
  <2>1. t = routes
    BY <1>3 DEF Place
  <2> QED
    BY <1>3, <2>1 DEF WellPlaced, route
<1>4. CASE /\ BrowserOrigin(route) \notin native
           /\ \A r \in ToSet(routes) : BrowserOrigin(r) # BrowserOrigin(route)
  <2>1. t = Append(routes, route)
    BY <1>4 DEF Place
  <2>2. t \in Seq(Routes) /\ ToSet(t) = ToSet(routes) \cup {route}
    <3>1. t \in Seq(Routes) /\ t = routes \o <<route>> /\ <<route>> \in Seq(Routes)
      BY <1>1, <2>1
    <3>2. ToSet(<<route>>) = {route}
      BY DEF ToSet
    <3>3. ToSet(routes \o <<route>>) = ToSet(routes) \cup ToSet(<<route>>)
      BY <3>1, ConcatFacts
    <3> QED
      BY <3>1, <3>2, <3>3
  <2> HIDE DEF t
  <2>3. ASSUME WellPlaced(routes, placed, native)
        PROVE  WellPlaced(t, placed \cup {o}, native)
    <3>1. ASSUME NEW q \in ToSet(t), NEW r \in ToSet(t), BrowserOrigin(q) = BrowserOrigin(r)
          PROVE  q = r
      BY <1>4, <2>2, <2>3, <3>1 DEF WellPlaced, Distinct
    <3>2. ASSUME NEW r \in ToSet(t)
          PROVE  BrowserOrigin(r) \notin native /\ \E p \in placed \cup {o} : r = Candidate(p)
      BY <1>4, <2>2, <2>3 DEF WellPlaced, route
    <3>3. ASSUME NEW p \in placed \cup {o}, BrowserOrigin(Candidate(p)) \notin native
          PROVE  \E r \in ToSet(t) : /\ BrowserOrigin(r) = BrowserOrigin(Candidate(p))
                                     /\ Unchanged(Candidate(p)) => Unchanged(r)
      <4>1. CASE p = o
        BY <2>2, <4>1 DEF route
      <4>2. CASE p \in placed
        BY <2>2, <2>3, <3>3, <4>2 DEF WellPlaced
      <4> QED
        BY <4>1, <4>2
    <3> QED
      BY <3>1, <3>2, <3>3 DEF WellPlaced, Distinct
  <2> QED
    BY <2>2, <2>3 DEF t, route
<1>5. CASE /\ BrowserOrigin(route) \notin native
           /\ ~\A r \in ToSet(routes) : BrowserOrigin(r) # BrowserOrigin(route)
  <2> DEFINE Gives(r) == /\ BrowserOrigin(r) = BrowserOrigin(route)
                         /\ Unchanged(route) /\ ~Unchanged(r)
  <2>1. t = [i \in DOMAIN routes |-> IF Gives(routes[i]) THEN route ELSE routes[i]]
    BY <1>5 DEF Place
  <2>2. t \in Seq(Routes) /\ DOMAIN t = DOMAIN routes
    BY <1>1, <1>2, <2>1
  <2> HIDE DEF t, Gives
  <2>3. ASSUME NEW q
        PROVE  q \in ToSet(t) <=> \/ q = route /\ \E r \in ToSet(routes) : Gives(r)
                                  \/ q \in ToSet(routes) /\ ~Gives(q)
    BY <2>1, <2>2 DEF ToSet
  <2>4. ASSUME WellPlaced(routes, placed, native)
        PROVE  WellPlaced(t, placed \cup {o}, native)
    <3>1. ASSUME NEW q \in ToSet(t), NEW r \in ToSet(t), BrowserOrigin(q) = BrowserOrigin(r)
          PROVE  q = r
      BY <2>3, <2>4, <3>1 DEF WellPlaced, Distinct, Gives
    <3>2. ASSUME NEW r \in ToSet(t)
          PROVE  BrowserOrigin(r) \notin native /\ \E p \in placed \cup {o} : r = Candidate(p)
      BY <1>5, <2>3, <2>4 DEF WellPlaced, route
    <3>3. ASSUME NEW p \in placed \cup {o}, BrowserOrigin(Candidate(p)) \notin native
          PROVE  \E r \in ToSet(t) : /\ BrowserOrigin(r) = BrowserOrigin(Candidate(p))
                                     /\ Unchanged(Candidate(p)) => Unchanged(r)
      <4>1. PICK r \in ToSet(routes) :
              /\ BrowserOrigin(r) = BrowserOrigin(Candidate(p))
              /\ p # o => (Unchanged(Candidate(p)) => Unchanged(r))
        BY <1>5, <2>4, <3>3 DEF WellPlaced, route
      <4>2. CASE Gives(r)
        BY <2>3, <4>1, <4>2 DEF Gives
      <4>3. CASE ~Gives(r)
        BY <2>3, <4>1, <4>3 DEF Gives, route
      <4> QED
        BY <4>2, <4>3
    <3> QED
      BY <3>1, <3>2, <3>3 DEF WellPlaced, Distinct
  <2> QED
    BY <2>2, <2>4 DEF t, route
<1> QED
  BY <1>3, <1>4, <1>5

\* httpsfacade.Project places a facade for every HTTP origin.
LEMMA FacadesFacts ==
  ASSUME NEW s \in Seq(OriginSelection)
  PROVE  /\ Facades(s) \in Seq(Routes)
         /\ WellPlaced(Facades(s), {o \in ToSet(s) : o.scheme = "http"}, NativeHTTPS(s))
<1> DEFINE N == Len(s)
           native == NativeHTTPS(s)
           Turn(t, n) == IF s[n].scheme = "http" THEN Place(native, t, Candidate(s[n])) ELSE t
           K == CHOOSE f : f = [n \in 0..N |->
                  IF n = 0 THEN <<>>
                  ELSE IF s[n].scheme = "http" THEN Place(native, f[n - 1], Candidate(s[n]))
                  ELSE f[n - 1]]
           turn == [n \in 1..N |-> [t \in Seq(Routes) |-> Turn(t, n)]]
<1>1. N \in Nat /\ DOMAIN s = 1..N /\ \A n \in 1..N : s[n] \in OriginSelection
  OBVIOUS
<1>2. Facades(s) = K[N]
  BY DEF Facades
<1> HIDE DEF N, native
<1>3. turn \in [1..N -> [Seq(Routes) -> Seq(Routes)]] /\ <<>> \in Seq(Routes)
  <2>1. ASSUME NEW n \in 1..N, NEW t \in Seq(Routes)
        PROVE  Turn(t, n) \in Seq(Routes)
    <3> DEFINE o == s[n]
    <3>1. o \in OriginSelection
      BY <1>1
    <3> HIDE DEF o
    <3>2. Place(native, t, Candidate(o)) \in Seq(Routes)
      BY <3>1, PlaceFacts
    <3> QED
      BY <3>2 DEF o
  <2> HIDE DEF Turn
  <2>2. \A n \in 1..N : [t \in Seq(Routes) |-> Turn(t, n)] \in [Seq(Routes) -> Seq(Routes)]
    BY <2>1
  <2> QED
    BY <2>2
<1> HIDE DEF turn
<1>4. PICK f \in [0..N -> Seq(Routes)] : IsRun(f, N, <<>>, turn)
  BY <1>1, <1>3, LoopRuns
<1>5. f = [n \in 0..N |->
             IF n = 0 THEN <<>>
             ELSE IF s[n].scheme = "http" THEN Place(native, f[n - 1], Candidate(s[n]))
             ELSE f[n - 1]]
  <2>1. ASSUME NEW n \in 1..N
        PROVE  f[n] = Turn(f[n - 1], n)
    <3>1. n - 1 \in 0..N
      BY <1>1
    <3>2. f[n - 1] \in Seq(Routes)
      BY <3>1
    <3> QED
      BY <1>4, <3>2 DEF turn, IsRun
  <2>2. \A n \in 0..N : n = 0 \/ n \in 1..N
    BY <1>1
  <2>3. \A n \in 0..N : f[n] = IF n = 0 THEN <<>> ELSE Turn(f[n - 1], n)
    BY <1>4, <2>1, <2>2 DEF IsRun
  <2> QED
    BY <2>3
<1>6. K = [n \in 0..N |->
             IF n = 0 THEN <<>>
             ELSE IF s[n].scheme = "http" THEN Place(native, K[n - 1], Candidate(s[n]))
             ELSE K[n - 1]]
  BY <1>5
<1> HIDE DEF K
<1> DEFINE Placed(n) == {o \in {s[i] : i \in 1..n} : o.scheme = "http"}
           T == {n \in 0..N : K[n] \in Seq(Routes) /\ WellPlaced(K[n], Placed(n), native)}
<1>7. 0 \in T
  <2>1. 0 \in 0..N /\ K[0] = <<>> /\ ToSet(<<>>) = {} /\ Placed(0) = {}
    BY <1>1, <1>6 DEF ToSet
  <2> HIDE DEF Placed
  <2>2. WellPlaced(<<>>, {}, native)
    BY <2>1 DEF WellPlaced, Distinct
  <2> QED
    BY <1>3, <2>1, <2>2
<1>8. ASSUME NEW n \in 1..N, n - 1 \in T
      PROVE  n \in T
  <2>1. 1..n = 1..(n - 1) \cup {n} /\ n \in 0..N /\ n # 0
    BY <1>1
  <2>2. K[n] = Turn(K[n - 1], n) /\ s[n] \in OriginSelection
    BY <1>1, <1>6, <2>1
  <2> DEFINE k == K[n - 1]
             o == s[n]
  <2>3. k \in Seq(Routes) /\ WellPlaced(k, Placed(n - 1), native) /\ o \in OriginSelection
    BY <1>8, <2>2
  <2>4. CASE s[n].scheme = "http"
    <3>1. K[n] = Place(native, k, Candidate(o))
      BY <2>2, <2>4
    <3>2. Placed(n) = Placed(n - 1) \cup {o}
      BY <2>1, <2>4
    <3> HIDE DEF k, o, Placed
    <3>3. /\ Place(native, k, Candidate(o)) \in Seq(Routes)
          /\ WellPlaced(Place(native, k, Candidate(o)), Placed(n - 1) \cup {o}, native)
      BY <2>3, PlaceFacts
    <3> QED
      BY <2>1, <3>1, <3>2, <3>3
  <2>5. CASE s[n].scheme # "http"
    <3>1. K[n] = k
      BY <2>2, <2>5
    <3>2. Placed(n) = Placed(n - 1)
      BY <2>1, <2>5
    <3> HIDE DEF k, Placed
    <3> QED
      BY <2>1, <2>3, <3>1, <3>2
  <2> QED
    BY <2>4, <2>5
<1> HIDE DEF T
<1>9. N \in T
  <2>1. \A n \in 0..N : n \in T
    BY <1>1, <1>7, <1>8, UpTo
  <2> QED
    BY <1>1, <2>1
<1>10. Placed(N) = {o \in ToSet(s) : o.scheme = "http"}
  BY <1>1 DEF ToSet
<1> QED
  BY <1>2, <1>9, <1>10 DEF T, native

(***************************************************************************)
(* What the Generated PAC sends to the proxy.                              *)
(***************************************************************************)
\* No port is the one that stands for all of them.
LEMMA NoPortIsAny == AnyPort \notin Ports
  BY DEF Ports, AnyPort

PACRouteType == [scheme : {"http", "https"}, hostname : Hostnames, port : Nat, wildcard : BOOLEAN]

\* The routes of a Host Selector.
LEMMA HostRoutesFacts ==
  ASSUME NEW h \in HostSelection, NEW trusted \in BOOLEAN
  PROVE  /\ HostRoutes(h, trusted) \in Seq(PACRouteType)
         /\ ToSet(HostRoutes(h, trusted)) =
              {PACRoute(s, h.hostname, AnyPort, h.wildcard) :
                 s \in IF trusted THEN {"http", "https"} ELSE {"http"}}
<1> DEFINE p(s) == PACRoute(s, h.hostname, AnyPort, h.wildcard)
<1>1. p("http") \in PACRouteType /\ p("https") \in PACRouteType
  BY DEF PACRoute, AnyPort, PACRouteType, HostSelection
<1> HIDE DEF p
<1>2. HostRoutes(h, trusted) = <<p("http")>> \o (IF trusted THEN <<p("https")>> ELSE <<>>)
  BY DEF HostRoutes, p
<1>3. ToSet(<<p("http")>>) = {p("http")} /\ ToSet(<<p("https")>>) = {p("https")} /\ ToSet(<<>>) = {}
  BY DEF ToSet
<1> DEFINE a == <<p("http")>>
           b == IF trusted THEN <<p("https")>> ELSE <<>>
<1>4. /\ a \in Seq(PACRouteType) /\ ToSet(a) = {p("http")}
      /\ b \in Seq(PACRouteType) /\ ToSet(b) = IF trusted THEN {p("https")} ELSE {}
  <2>1. a \in Seq(PACRouteType) /\ b \in Seq(PACRouteType)
    BY <1>1
  <2>2. CASE trusted
    BY <1>3, <2>1, <2>2
  <2>3. CASE ~trusted
    BY <1>3, <2>1, <2>3
  <2> QED
    BY <2>2, <2>3
<1>5. HostRoutes(h, trusted) = a \o b
  BY <1>2
<1> HIDE DEF a, b
<1>6. a \o b \in Seq(PACRouteType) /\ ToSet(a \o b) = ToSet(a) \cup ToSet(b)
  BY <1>4, ConcatFacts
<1>7. ToSet(HostRoutes(h, trusted)) = {p(s) : s \in IF trusted THEN {"http", "https"} ELSE {"http"}}
  BY <1>4, <1>5, <1>6
<1> QED
  BY <1>5, <1>6, <1>7 DEF p

\* The routes of an Origin Selector.
LEMMA OriginRoutesFacts ==
  ASSUME NEW o \in OriginSelection, NEW trusted \in BOOLEAN
  PROVE  /\ OriginRoutes(o, trusted) \in Seq(PACRouteType)
         /\ \A q : q \in ToSet(OriginRoutes(o, trusted)) <=>
              /\ o.scheme = "https" => trusted
              /\ q = PACRoute(o.scheme, o.hostname, o.port, FALSE)
<1> DEFINE p == PACRoute(o.scheme, o.hostname, o.port, FALSE)
<1>1. p \in PACRouteType
  BY PortsAreNumbers DEF PACRoute, PACRouteType, OriginSelection
<1>2. OriginRoutes(o, trusted) = IF o.scheme = "https" /\ ~trusted THEN <<>> ELSE <<p>>
  BY DEF OriginRoutes
<1> HIDE DEF p
<1>3. ToSet(<<p>>) = {p} /\ ToSet(<<>>) = {}
  BY DEF ToSet
<1> DEFINE t == OriginRoutes(o, trusted)
           Named == o.scheme = "https" => trusted
<1>4. t = IF Named THEN <<p>> ELSE <<>>
  BY <1>2
<1> HIDE DEF t, Named
<1>5. t \in Seq(PACRouteType)
  BY <1>1, <1>4
<1>6. \A q : q \in ToSet(t) <=> Named /\ q = p
  BY <1>3, <1>4
<1> QED
  BY <1>5, <1>6 DEF p, t, Named

\* The routes of the facades.
LEMMA FacadeRoutesFacts ==
  ASSUME NEW facades \in Seq(Routes)
  PROVE  /\ FacadeRoutes(facades) \in Seq(PACRouteType)
         /\ ToSet(FacadeRoutes(facades)) =
              {PACRoute("https", r.hostname, r.httpsPort, FALSE) : r \in ToSet(facades)}
<1> DEFINE p(r) == PACRoute("https", r.hostname, r.httpsPort, FALSE)
           t == FacadeRoutes(facades)
<1>1. \A r \in Routes : p(r) \in PACRouteType
  BY PortsAreNumbers DEF PACRoute, PACRouteType, Routes
<1>2. t = [i \in DOMAIN facades |-> p(facades[i])]
  BY DEF FacadeRoutes
<1> HIDE DEF p, t
<1>3. DOMAIN facades = 1..Len(facades) /\ \A i \in DOMAIN facades : facades[i] \in Routes
  OBVIOUS
<1>4. t \in Seq(PACRouteType)
  BY <1>1, <1>2, <1>3
<1>5. ToSet(t) = {p(r) : r \in ToSet(facades)}
  BY <1>2 DEF ToSet
<1> QED
  BY <1>4, <1>5 DEF p, t

\* A route of the PAC comes from a selector or from a facade, and an HTTPS route
\* only while the UserCA is usable.
LEMMA PACRoutesFacts ==
  ASSUME NEW list, list.hosts \in Seq(HostSelection), list.origins \in Seq(OriginSelection),
         NEW facades \in Seq(Routes), NEW trusted \in BOOLEAN, NEW q
  PROVE  q \in ToSet(PACRoutes(list, facades, trusted)) <=>
           \/ \E h \in ToSet(list.hosts) : q \in ToSet(HostRoutes(h, trusted))
           \/ \E o \in ToSet(list.origins) : q \in ToSet(OriginRoutes(o, trusted))
           \/ trusted /\ q \in ToSet(FacadeRoutes(facades))
<1> DEFINE hs == list.hosts
           os == list.origins
           a == [i \in DOMAIN hs |-> HostRoutes(hs[i], trusted)]
           b == [i \in DOMAIN os |-> OriginRoutes(os[i], trusted)]
           fa == FlattenSeq(a)
           fb == FlattenSeq(b)
           fc == IF trusted THEN FacadeRoutes(facades) ELSE <<>>
<1>1. PACRoutes(list, facades, trusted) = fa \o fb \o fc
  BY DEF PACRoutes
<1>2. /\ DOMAIN hs = 1..Len(hs) /\ \A i \in DOMAIN hs : hs[i] \in HostSelection
      /\ DOMAIN os = 1..Len(os) /\ \A i \in DOMAIN os : os[i] \in OriginSelection
  OBVIOUS
<1> HIDE DEF hs, os
<1>3. a \in Seq(Seq(PACRouteType)) /\ b \in Seq(Seq(PACRouteType))
  <2>1. \A i \in DOMAIN hs : HostRoutes(hs[i], trusted) \in Seq(PACRouteType)
    BY <1>2, HostRoutesFacts
  <2>2. \A i \in DOMAIN os : OriginRoutes(os[i], trusted) \in Seq(PACRouteType)
    BY <1>2, OriginRoutesFacts
  <2> QED
    BY <1>2, <2>1, <2>2
<1>4. /\ DOMAIN a = DOMAIN hs /\ \A i \in DOMAIN hs : a[i] = HostRoutes(hs[i], trusted)
      /\ DOMAIN b = DOMAIN os /\ \A i \in DOMAIN os : b[i] = OriginRoutes(os[i], trusted)
  OBVIOUS
<1> HIDE DEF a, b
<1>5. /\ fa \in Seq(PACRouteType) /\ ToSet(fa) = UNION {ToSet(a[i]) : i \in DOMAIN a}
      /\ fb \in Seq(PACRouteType) /\ ToSet(fb) = UNION {ToSet(b[i]) : i \in DOMAIN b}
  BY <1>3, FlattenFacts
<1>6. /\ fc \in Seq(PACRouteType)
      /\ q \in ToSet(fc) <=> trusted /\ q \in ToSet(FacadeRoutes(facades))
  <2>1. CASE trusted
    BY <2>1, FacadeRoutesFacts
  <2>2. CASE ~trusted
    BY <2>2 DEF ToSet
  <2> QED
    BY <2>1, <2>2
<1> HIDE DEF fa, fb, fc
<1>7. fa \o fb \in Seq(PACRouteType) /\ ToSet(fa \o fb) = ToSet(fa) \cup ToSet(fb)
  BY <1>5, ConcatFacts
<1>8. ToSet(fa \o fb \o fc) = ToSet(fa \o fb) \cup ToSet(fc)
  <2> DEFINE ab == fa \o fb
  <2>1. ab \in Seq(PACRouteType) /\ fc \in Seq(PACRouteType)
    BY <1>6, <1>7
  <2> HIDE DEF ab
  <2>2. ToSet(ab \o fc) = ToSet(ab) \cup ToSet(fc)
    BY <2>1, ConcatFacts
  <2> QED
    BY <2>2 DEF ab
<1>9. q \in ToSet(fa) <=> \E h \in ToSet(hs) : q \in ToSet(HostRoutes(h, trusted))
  <2>1. q \in ToSet(fa) <=> \E i \in DOMAIN hs : q \in ToSet(HostRoutes(hs[i], trusted))
    BY <1>4, <1>5
  <2> QED
    BY <2>1 DEF ToSet
<1>10. q \in ToSet(fb) <=> \E o \in ToSet(os) : q \in ToSet(OriginRoutes(o, trusted))
  <2>1. q \in ToSet(fb) <=> \E i \in DOMAIN os : q \in ToSet(OriginRoutes(os[i], trusted))
    BY <1>4, <1>5
  <2> QED
    BY <2>1 DEF ToSet
<1> QED
  BY <1>1, <1>6, <1>7, <1>8, <1>9, <1>10 DEF hs, os

\* How FindProxyForURL decides.
LEMMA FindProxyFacts ==
  ASSUME NEW list, list.hosts \in Seq(HostSelection), list.origins \in Seq(OriginSelection),
         NEW facades \in Seq(Routes), NEW trusted \in BOOLEAN, NEW url \in OriginSelection
  PROVE  FindProxy(PACRoutes(list, facades, trusted), url) <=>
           /\ url.scheme = "https" => trusted
           /\ \/ \E h \in ToSet(list.hosts) : Covers(h, url.hostname)
              \/ url \in ToSet(list.origins)
              \/ url.scheme = "https" /\ Resolve(facades, url) # {}
<1> DEFINE P == PACRoutes(list, facades, trusted)
           H(q) == \E h \in ToSet(list.hosts) : q \in ToSet(HostRoutes(h, trusted))
           O(q) == \E o \in ToSet(list.origins) : q \in ToSet(OriginRoutes(o, trusted))
           F(q) == trusted /\ q \in ToSet(FacadeRoutes(facades))
<1>1. \A q : q \in ToSet(P) <=> H(q) \/ O(q) \/ F(q)
  BY PACRoutesFacts
<1>2. FindProxy(P, url) <=> \E q : (H(q) \/ O(q) \/ F(q)) /\ MatchesRoute(q, url)
  BY <1>1 DEF FindProxy
<1>3. \A h \in ToSet(list.hosts) : h \in HostSelection
  BY DEF ToSet
<1>4. \A o \in ToSet(list.origins) : o \in OriginSelection
  BY DEF ToSet
<1>5. \A r \in ToSet(facades) : r \in Routes
  BY DEF ToSet
<1>6. (\E q : H(q) /\ MatchesRoute(q, url)) <=>
        /\ url.scheme = "https" => trusted
        /\ \E h \in ToSet(list.hosts) : Covers(h, url.hostname)
  <2>1. ASSUME NEW h \in HostSelection
        PROVE  (\E q \in ToSet(HostRoutes(h, trusted)) : MatchesRoute(q, url)) <=>
                 (url.scheme = "https" => trusted) /\ Covers(h, url.hostname)
    <3>1. ASSUME NEW s \in {"http", "https"}
          PROVE  MatchesRoute(PACRoute(s, h.hostname, AnyPort, h.wildcard), url) <=>
                   url.scheme = s /\ Covers(h, url.hostname)
      BY DEF MatchesRoute, PACRoute, Covers
    <3>2. url.scheme = "http" \/ url.scheme = "https"
      BY DEF OriginSelection
    <3> DEFINE p(s) == PACRoute(s, h.hostname, AnyPort, h.wildcard)
    <3>6. ToSet(HostRoutes(h, trusted)) =
            {p(s) : s \in IF trusted THEN {"http", "https"} ELSE {"http"}}
      BY HostRoutesFacts
    <3> HIDE DEF p
    <3>3. \A q : q \in ToSet(HostRoutes(h, trusted)) <=>
            \E s \in IF trusted THEN {"http", "https"} ELSE {"http"} :
              q = p(s)
      BY <3>6
    <3>4. (\E q \in ToSet(HostRoutes(h, trusted)) : MatchesRoute(q, url)) <=>
            \E s \in IF trusted THEN {"http", "https"} ELSE {"http"} :
              MatchesRoute(p(s), url)
      BY <3>3
    <3>5. (\E q \in ToSet(HostRoutes(h, trusted)) : MatchesRoute(q, url)) <=>
            \E s \in IF trusted THEN {"http", "https"} ELSE {"http"} :
              url.scheme = s /\ Covers(h, url.hostname)
      BY <3>1, <3>4 DEF p
    <3> QED
      BY <3>2, <3>5
  <2> QED
    BY <1>3, <2>1
<1>7. (\E q : O(q) /\ MatchesRoute(q, url)) <=>
        (url.scheme = "https" => trusted) /\ url \in ToSet(list.origins)
  <2>1. ASSUME NEW o \in OriginSelection
        PROVE  MatchesRoute(PACRoute(o.scheme, o.hostname, o.port, FALSE), url) <=> url = o
    <3>1. o.port # AnyPort
      BY NoPortIsAny DEF OriginSelection
    <3>2. MatchesRoute(PACRoute(o.scheme, o.hostname, o.port, FALSE), url) <=>
            url.scheme = o.scheme /\ url.port = o.port /\ url.hostname = o.hostname
      BY <3>1 DEF MatchesRoute, PACRoute
    <3>3. /\ o = [scheme |-> o.scheme, hostname |-> o.hostname, port |-> o.port]
          /\ url = [scheme |-> url.scheme, hostname |-> url.hostname, port |-> url.port]
      BY DEF OriginSelection
    <3> QED
      BY <3>2, <3>3
  <2> QED
    BY <1>4, <2>1, OriginRoutesFacts
<1>8. (\E q : F(q) /\ MatchesRoute(q, url)) <=>
        trusted /\ url.scheme = "https" /\ Resolve(facades, url) # {}
  <2>1. ASSUME NEW r \in Routes
        PROVE  MatchesRoute(PACRoute("https", r.hostname, r.httpsPort, FALSE), url) <=>
                 url.scheme = "https" /\ BrowserOrigin(r) = <<url.hostname, url.port>>
    <3>1. r.httpsPort # AnyPort
      BY NoPortIsAny DEF Routes
    <3> QED
      BY <3>1 DEF MatchesRoute, PACRoute, BrowserOrigin
  <2>2. Resolve(facades, url) # {} <=>
          \E r \in ToSet(facades) : BrowserOrigin(r) = <<url.hostname, url.port>>
    BY DEF Resolve
  <2>3. \A q : q \in ToSet(FacadeRoutes(facades)) <=>
          \E r \in ToSet(facades) : q = PACRoute("https", r.hostname, r.httpsPort, FALSE)
    BY FacadeRoutesFacts
  <2>4. (\E q : F(q) /\ MatchesRoute(q, url)) <=>
          trusted /\ \E r \in ToSet(facades) :
            MatchesRoute(PACRoute("https", r.hostname, r.httpsPort, FALSE), url)
    BY <2>3
  <2> QED
    BY <1>5, <2>1, <2>2, <2>4
<1> HIDE DEF H, O, F, P
<1>9. FindProxy(P, url) <=> \/ \E q : H(q) /\ MatchesRoute(q, url)
                            \/ \E q : O(q) /\ MatchesRoute(q, url)
                            \/ \E q : F(q) /\ MatchesRoute(q, url)
  BY <1>2
<1> QED
  BY <1>6, <1>7, <1>8, <1>9 DEF P

(***************************************************************************)
(* Where a browser's HTTPS request goes.                                   *)
(***************************************************************************)
\* DocumentedUpstream, for the origins and the UserCA of any moment.
Wanted(origins, ca, url) ==
  LET Names(scheme, port) ==
        [scheme |-> scheme, hostname |-> url.hostname, port |-> port] \in origins
      http(port) == [scheme |-> "http", hostname |-> url.hostname, port |-> port]
  IN  CASE ca = None \/ Names("https", url.port) -> url
        [] /\ ca # None /\ ~Names("https", url.port)
           /\ url.port # httpDefaultPort /\ Names("http", url.port) -> http(url.port)
        [] /\ ca # None /\ ~Names("https", url.port)
           /\ url.port = httpsDefaultPort /\ ~Names("http", httpsDefaultPort)
           /\ Names("http", httpDefaultPort) -> http(httpDefaultPort)
        [] OTHER -> url

\* They say the same of the present.
LEMMA WantedIsDocumented ==
  ASSUME NEW url
  PROVE  DocumentedUpstream(url) = Wanted(SelectedOrigins, userCA, url)
BY DEF DocumentedUpstream, Wanted, Selects

\* A request goes through the one facade at its origin, or as it is.
LEMMA UpstreamFacts ==
  ASSUME NEW facades \in Seq(Routes), Distinct(facades),
         NEW url \in OriginSelection, url.scheme = "https"
  PROVE  /\ \A r \in ToSet(facades) : BrowserOrigin(r) = <<url.hostname, url.port>> =>
              Upstream(facades, url) =
                [scheme |-> "http", hostname |-> url.hostname, port |-> r.httpPort]
         /\ (\A r \in ToSet(facades) : BrowserOrigin(r) # <<url.hostname, url.port>>) =>
              Upstream(facades, url) = url
<1>1. Forward(facades, url) =
        {r \in ToSet(facades) : BrowserOrigin(r) = <<url.hostname, url.port>>}
  BY DEF Forward, Resolve
<1>2. ASSUME NEW r \in ToSet(facades), BrowserOrigin(r) = <<url.hostname, url.port>>
      PROVE  Upstream(facades, url) =
               [scheme |-> "http", hostname |-> url.hostname, port |-> r.httpPort]
  <2>1. Forward(facades, url) = {r}
    BY <1>1, <1>2 DEF Distinct
  <2>2. (CHOOSE x \in Forward(facades, url) : TRUE) = r
    BY <2>1
  <2>3. r.hostname = url.hostname
    BY <1>2 DEF BrowserOrigin
  <2> QED
    BY <2>1, <2>2, <2>3 DEF Upstream
<1>3. ASSUME \A r \in ToSet(facades) : BrowserOrigin(r) # <<url.hostname, url.port>>
      PROVE  Upstream(facades, url) = url
  BY <1>1, <1>3 DEF Upstream
<1> QED
  BY <1>2, <1>3

\* What a facade that is placed for an HTTP origin says of it.
LEMMA CandidateSays ==
  ASSUME NEW o \in OriginSelection, o.scheme = "http", NEW hostname, NEW port,
         BrowserOrigin(Candidate(o)) = <<hostname, port>>
  PROVE  /\ o = [scheme |-> "http", hostname |-> hostname, port |-> o.port]
         /\ Candidate(o).httpPort = o.port
         /\ port # httpDefaultPort
         /\ \/ o.port = port /\ Unchanged(Candidate(o))
            \/ o.port = httpDefaultPort /\ port = httpsDefaultPort /\ ~Unchanged(Candidate(o))
<1>1. o = [scheme |-> o.scheme, hostname |-> o.hostname, port |-> o.port]
  BY DEF OriginSelection
<1>2. /\ Candidate(o).hostname = o.hostname /\ Candidate(o).httpPort = o.port
      /\ Candidate(o).httpsPort = IF o.port = httpDefaultPort THEN httpsDefaultPort ELSE o.port
  BY DEF Candidate
<1>3. hostname = Candidate(o).hostname /\ port = Candidate(o).httpsPort
  BY DEF BrowserOrigin
<1>4. httpDefaultPort # httpsDefaultPort
  BY DEF httpDefaultPort, httpsDefaultPort
<1> QED
  BY <1>1, <1>2, <1>3, <1>4 DEF Unchanged

\* The HTTP origin with an unchanged port, and the one of port 80.
LEMMA CandidateOrigins ==
  ASSUME NEW hostname, NEW port
  PROVE  /\ port # httpDefaultPort =>
              /\ BrowserOrigin(Candidate([scheme |-> "http", hostname |-> hostname, port |-> port]))
                   = <<hostname, port>>
              /\ Unchanged(Candidate([scheme |-> "http", hostname |-> hostname, port |-> port]))
         /\ BrowserOrigin(Candidate([scheme |-> "http", hostname |-> hostname,
                                     port |-> httpDefaultPort])) = <<hostname, httpsDefaultPort>>
BY DEF BrowserOrigin, Candidate, Unchanged

\* Well placed facades send every HTTPS request where the selectors want it.
LEMMA FacadesAreWanted ==
  ASSUME NEW origins, origins \subseteq OriginSelection,
         NEW facades \in Seq(Routes),
         NEW native, native = {<<o.hostname, o.port>> : o \in {x \in origins : x.scheme = "https"}},
         WellPlaced(facades, {o \in origins : o.scheme = "http"}, native),
         NEW ca, ca # None,
         NEW url \in OriginSelection, url.scheme = "https"
  PROVE  Upstream(facades, url) = Wanted(origins, ca, url)
<1> DEFINE h == url.hostname
           p == url.port
           HTTP(port) == [scheme |-> "http", hostname |-> h, port |-> port]
           At(r) == BrowserOrigin(r) = <<h, p>>
           W == Wanted(origins, ca, url)
<1>1. url = [scheme |-> "https", hostname |-> h, port |-> p]
  BY DEF OriginSelection
<1>3. W = CASE url \in origins -> url
            [] url \notin origins /\ p # httpDefaultPort /\ HTTP(p) \in origins -> HTTP(p)
            [] /\ url \notin origins /\ p = httpsDefaultPort
               /\ HTTP(httpsDefaultPort) \notin origins /\ HTTP(httpDefaultPort) \in origins
                 -> HTTP(httpDefaultPort)
            [] OTHER -> url
  BY <1>1 DEF Wanted
<1>4. /\ \A r \in ToSet(facades) : At(r) => Upstream(facades, url) = HTTP(r.httpPort)
      /\ (\A r \in ToSet(facades) : ~At(r)) => Upstream(facades, url) = url
  BY UpstreamFacts DEF WellPlaced
<1>5. <<h, p>> \in native <=> url \in origins
  <2>1. ASSUME NEW o \in origins, o.scheme = "https", o.hostname = h, o.port = p
        PROVE  o = url
    BY <1>1, <2>1 DEF OriginSelection
  <2> QED
    BY <2>1
<1>6. httpDefaultPort # httpsDefaultPort
  BY DEF httpDefaultPort, httpsDefaultPort
<1> HIDE DEF W
<1>7. ASSUME NEW r \in ToSet(facades), At(r)
      PROVE  /\ url \notin origins
             /\ HTTP(r.httpPort) \in origins
             /\ p # httpDefaultPort
             /\ \/ r.httpPort = p /\ Unchanged(r)
                \/ r.httpPort = httpDefaultPort /\ p = httpsDefaultPort /\ ~Unchanged(r)
  <2>1. PICK o \in origins : o.scheme = "http" /\ r = Candidate(o)
    BY DEF WellPlaced
  <2>2. <<h, p>> \notin native
    BY <1>7 DEF WellPlaced
  <2>3. /\ o = HTTP(o.port) /\ r.httpPort = o.port /\ p # httpDefaultPort
        /\ \/ o.port = p /\ Unchanged(r)
           \/ o.port = httpDefaultPort /\ p = httpsDefaultPort /\ ~Unchanged(r)
    BY <1>7, <2>1, CandidateSays
  <2> QED
    BY <1>5, <2>1, <2>2, <2>3
<1>8. ASSUME url \notin origins, p # httpDefaultPort, HTTP(p) \in origins
      PROVE  \E r \in ToSet(facades) : At(r) /\ Unchanged(r)
  <2> DEFINE o == HTTP(p)
  <2>1. BrowserOrigin(Candidate(o)) = <<h, p>> /\ Unchanged(Candidate(o))
    BY <1>8, CandidateOrigins
  <2>2. o \in {x \in origins : x.scheme = "http"}
    BY <1>8
  <2> HIDE DEF o
  <2> QED
    BY <1>5, <1>8, <2>1, <2>2 DEF WellPlaced
<1>9. ASSUME url \notin origins, p = httpsDefaultPort, HTTP(httpDefaultPort) \in origins
      PROVE  \E r \in ToSet(facades) : At(r)
  <2> DEFINE o == HTTP(httpDefaultPort)
  <2>1. BrowserOrigin(Candidate(o)) = <<h, p>>
    BY <1>9, CandidateOrigins
  <2>2. o \in {x \in origins : x.scheme = "http"}
    BY <1>9
  <2> HIDE DEF o
  <2> QED
    BY <1>5, <1>9, <2>1, <2>2 DEF WellPlaced
<1> HIDE DEF At
<1>10. CASE url \in origins
  BY <1>3, <1>4, <1>7, <1>10 DEF W
<1>11. CASE url \notin origins /\ p # httpDefaultPort /\ HTTP(p) \in origins
  <2>1. PICK r \in ToSet(facades) : At(r) /\ Unchanged(r)
    BY <1>8, <1>11
  <2>2. r.httpPort = p
    BY <1>7, <2>1
  <2>3. W = HTTP(p)
    BY <1>3, <1>11
  <2> QED
    BY <1>4, <2>1, <2>2, <2>3 DEF W
<1>12. CASE /\ url \notin origins /\ p = httpsDefaultPort
            /\ HTTP(httpsDefaultPort) \notin origins /\ HTTP(httpDefaultPort) \in origins
  <2>1. PICK r \in ToSet(facades) : At(r)
    BY <1>9, <1>12
  <2>2. r.httpPort = httpDefaultPort
    BY <1>7, <1>12, <2>1
  <2>3. W = HTTP(httpDefaultPort)
    BY <1>3, <1>6, <1>12
  <2> QED
    BY <1>4, <2>1, <2>2, <2>3 DEF W
<1>13. CASE /\ url \notin origins
            /\ ~(p # httpDefaultPort /\ HTTP(p) \in origins)
            /\ ~(/\ p = httpsDefaultPort /\ HTTP(httpsDefaultPort) \notin origins
                 /\ HTTP(httpDefaultPort) \in origins)
  <2>1. \A r \in ToSet(facades) : ~At(r)
    BY <1>6, <1>7, <1>13
  <2>2. W = url
    BY <1>3, <1>13
  <2> QED
    BY <1>4, <2>1, <2>2 DEF W
<1> QED
  BY <1>10, <1>11, <1>12, <1>13

(***************************************************************************)
(* The Traffic Projection of a list, and what is served.                   *)
(***************************************************************************)
\* What a projection does with any URL, if the selectors decide on it.
Documented(hosts, origins, ca, pac, url) ==
  FindProxy(pac, url) <=>
    /\ url.scheme = "https" => ca # None
    /\ \/ \E h \in hosts : Covers(h, url.hostname)
       \/ url \in origins
       \/ url.scheme = "https" /\ Wanted(origins, ca, url) # url

\* The latest projection routes and forwards every URL as its selectors say.
LEMMA LatestFacts ==
  ASSUME NEW list \in MergedLists, NEW ca
  PROVE  /\ Latest(list, ca).facades \in Seq(Routes)
         /\ Distinct(Latest(list, ca).facades)
         /\ \A url \in OriginSelection :
              /\ url.scheme = "https" =>
                   Upstream(Latest(list, ca).facades, url) = Wanted(ToSet(list.origins), ca, url)
              /\ Documented(ToSet(list.hosts), ToSet(list.origins), ca, Latest(list, ca).pac, url)
<1> DEFINE c == CanonicalUpstreams(list)
           hosts == ToSet(list.hosts)
           origins == ToSet(list.origins)
           native == NativeHTTPS(list.origins)
           hasHost == list.hosts # <<>>
           hasHTTP == \E o \in origins : o.scheme = "http"
           trusted == ca # None /\ (native # {} \/ (hasHost /\ ca # None) \/ hasHTTP)
           facades == IF trusted THEN Facades(c.origins) ELSE <<>>
<1>1. Latest(list, ca).facades = facades /\ Latest(list, ca).pac = PACRoutes(c, facades, trusted)
  BY DEF Latest
<1>2. /\ c.hosts \in Seq(HostSelection) /\ ToSet(c.hosts) = hosts
      /\ c.origins \in Seq(OriginSelection) /\ ToSet(c.origins) = origins
  BY CanonicalFacts
<1>3. list.hosts \in Seq(HostSelection) /\ list.origins \in Seq(OriginSelection)
  BY DEF MergedLists, Lists
<1>4. origins \subseteq OriginSelection
  BY <1>3 DEF ToSet
<1>5. NativeHTTPS(c.origins) = native
  BY <1>2 DEF NativeHTTPS
<1>6. native = {<<o.hostname, o.port>> : o \in {x \in origins : x.scheme = "https"}}
  BY DEF NativeHTTPS
<1>7. hosts = {} \/ hasHost
  BY DEF ToSet
<1>8. trusted \in BOOLEAN
  OBVIOUS
<1> HIDE DEF c, hosts, origins, native, hasHost, hasHTTP
<1>9. /\ Facades(c.origins) \in Seq(Routes)
      /\ WellPlaced(Facades(c.origins), {o \in origins : o.scheme = "http"}, native)
  BY <1>2, <1>5, FacadesFacts
<1>10. Distinct(<<>>) /\ <<>> \in Seq(Routes)
  BY DEF Distinct, ToSet
<1>11. facades \in Seq(Routes) /\ Distinct(facades)
  <2>1. CASE trusted
    BY <1>9, <2>1 DEF WellPlaced
  <2>2. CASE ~trusted
    BY <1>10, <2>2
  <2> QED
    BY <2>1, <2>2
<1>12. ASSUME NEW url \in OriginSelection, url.scheme = "https"
       PROVE  Upstream(facades, url) = Wanted(origins, ca, url)
  <2>1. CASE trusted
    <3>1. ca # None /\ facades = Facades(c.origins)
      BY <2>1
    <3> QED
      BY <1>4, <1>6, <1>9, <1>12, <3>1, FacadesAreWanted
  <2>2. CASE ~trusted
    <3>1. facades = <<>>
      BY <2>2
    <3>2. Upstream(facades, url) = url
      <4>1. ToSet(facades) = {}
        BY <3>1 DEF ToSet
      <4> HIDE DEF facades
      <4> QED
        BY <1>11, <1>12, <4>1, UpstreamFacts
    <3>3. ca = None \/ \A x \in origins : x.scheme # "http" /\ x.scheme # "https"
      BY <1>6, <2>2 DEF hasHTTP
    <3>4. \A hostname, port :
            /\ [scheme |-> "http", hostname |-> hostname, port |-> port].scheme = "http"
            /\ [scheme |-> "https", hostname |-> hostname, port |-> port].scheme = "https"
      OBVIOUS
    <3>5. Wanted(origins, ca, url) = url
      <4>1. CASE ca = None
        BY <4>1 DEF Wanted
      <4>2. CASE ca # None
        <5>1. \A hostname, port :
                /\ [scheme |-> "http", hostname |-> hostname, port |-> port] \notin origins
                /\ [scheme |-> "https", hostname |-> hostname, port |-> port] \notin origins
          BY <3>3, <3>4, <4>2
        <5> QED
          BY <4>2, <5>1 DEF Wanted
      <4> QED
        BY <4>1, <4>2
    <3> QED
      BY <3>2, <3>5
  <2> QED
    BY <2>1, <2>2
<1>13. ASSUME NEW url \in OriginSelection
       PROVE  Documented(hosts, origins, ca, PACRoutes(c, facades, trusted), url)
  <2> DEFINE Covered == \E h \in hosts : Covers(h, url.hostname)
             Faced == Resolve(facades, url) # {}
  <2>1. FindProxy(PACRoutes(c, facades, trusted), url) <=>
          /\ url.scheme = "https" => trusted
          /\ Covered \/ url \in origins \/ (url.scheme = "https" /\ Faced)
    BY <1>2, <1>8, <1>11, FindProxyFacts
  <2>2. ASSUME url.scheme = "https"
        PROVE  Faced <=> Wanted(origins, ca, url) # url
    <3>1. Wanted(origins, ca, url) = Upstream(facades, url)
      BY <1>12, <2>2
    <3>2. CASE Faced
      <4>1. PICK r \in ToSet(facades) : BrowserOrigin(r) = <<url.hostname, url.port>>
        BY <3>2 DEF Resolve
      <4>2. Upstream(facades, url) =
              [scheme |-> "http", hostname |-> url.hostname, port |-> r.httpPort]
        BY <1>11, <2>2, <4>1, UpstreamFacts
      <4>3. Upstream(facades, url).scheme = "http"
        BY <4>2
      <4> QED
        BY <2>2, <3>1, <3>2, <4>3
    <3>3. CASE ~Faced
      <4>1. \A r \in ToSet(facades) : BrowserOrigin(r) # <<url.hostname, url.port>>
        BY <3>3 DEF Resolve
      <4> QED
        BY <1>11, <2>2, <3>1, <3>3, <4>1, UpstreamFacts
    <3> QED
      BY <3>2, <3>3
  <2>3. ASSUME url.scheme = "https", ca # None, ~trusted
        PROVE  ~Covered /\ url \notin origins /\ Wanted(origins, ca, url) = url
    <3>1. hosts = {} /\ url \notin origins
      BY <1>6, <1>7, <2>3
    <3>2. facades = <<>>
      BY <2>3
    <3>3. ~Faced
      BY <3>2 DEF Resolve, ToSet
    <3> QED
      BY <2>2, <2>3, <3>1, <3>3
  <2>4. trusted => ca # None
    OBVIOUS
  <2> HIDE DEF Covered, Faced, trusted
  <2>5. (/\ url.scheme = "https" => trusted
         /\ Covered \/ url \in origins \/ (url.scheme = "https" /\ Faced)) <=>
        (/\ url.scheme = "https" => ca # None
         /\ Covered \/ url \in origins \/ (url.scheme = "https" /\ Wanted(origins, ca, url) # url))
    BY <2>2, <2>3, <2>4
  <2> QED
    BY <2>1, <2>5 DEF Documented, Covered
<1> QED
  BY <1>1, <1>11, <1>12, <1>13 DEF hosts, origins

\* Every list is a projection, and what is served decides on every request as
\* the latest projection would, with one facade at a browser origin.
TrafficInv ==
  /\ sources \in [1..Sources -> Lists]
  /\ Equivalent(served, Latest(CurrentUpstreamList, userCA))
  /\ served.facades \in Seq(Routes) /\ Distinct(served.facades)

\* The list that is merged of what the files hold selects what they select.
LEMMA CurrentFacts ==
  ASSUME NEW lists \in [1..Sources -> Lists]
  PROVE  /\ Merge(lists) \in MergedLists
         /\ ToSet(Merge(lists).hosts) = UNION {ToSet(lists[s].hosts) : s \in 1..Sources}
         /\ ToSet(Merge(lists).origins) = UNION {ToSet(lists[s].origins) : s \in 1..Sources}
<1>1. lists \in Seq(Lists) /\ DOMAIN lists = 1..Sources
  BY SourcesAssumption
<1> QED
  BY <1>1, MergeFacts

\* The URLs that the properties speak of have valid ports.
LEMMA URLsAreOrigins ==
  ASSUME NEW lists \in [1..Sources -> Lists],
         NEW origins, origins = UNION {ToSet(lists[s].origins) : s \in 1..Sources}
  PROVE  [scheme : {"http", "https"}, hostname : Hostnames,
          port : {o.port : o \in origins} \cup {httpDefaultPort, httpsDefaultPort}]
           \subseteq OriginSelection
<1>1. httpDefaultPort \in Ports /\ httpsDefaultPort \in Ports
  BY DEF httpDefaultPort, httpsDefaultPort, Ports
<1>2. \A s \in 1..Sources : lists[s].origins \in Seq(OriginSelection)
  BY DEF Lists
<1>3. origins \subseteq OriginSelection
  BY <1>2 DEF ToSet
<1>4. \A o \in origins : o.port \in Ports
  BY <1>3 DEF OriginSelection
<1> QED
  BY <1>1, <1>4 DEF OriginSelection

\* The switch leaves what decides as the latest projection does.
LEMMA SwitchKeepsTrafficInv ==
  ASSUME TrafficInv, sources' \in [1..Sources -> Lists], Switch
  PROVE  TrafficInv'
<1> DEFINE latest == Latest(Merge(sources'), userCA')
<1>1. latest.facades \in Seq(Routes) /\ Distinct(latest.facades)
  BY CurrentFacts, LatestFacts
<1>2. latest = Latest(CurrentUpstreamList', userCA')
  BY DEF CurrentUpstreamList
<1>3. served' = IF Equivalent(served, latest) THEN served ELSE latest
  BY DEF Switch
<1> HIDE DEF latest
<1>4. Equivalent(served', latest)
  BY <1>3 DEF Equivalent
<1>5. served'.facades \in Seq(Routes) /\ Distinct(served'.facades)
  BY <1>1, <1>3 DEF TrafficInv
<1> QED
  BY <1>2, <1>4, <1>5 DEF TrafficInv, Equivalent, Distinct

\* A new runtime serves the projection of its initial lists.
LEMMA InitTrafficInv ==
  ASSUME InitTraffic
  PROVE  TrafficInv
<1>1. sources \in [1..Sources -> Lists]
  BY ProjectFacts DEF InitTraffic
<1>2. served = Latest(CurrentUpstreamList, userCA)
  BY DEF InitTraffic
<1>3. served.facades \in Seq(Routes) /\ Distinct(served.facades)
  BY <1>1, <1>2, CurrentFacts, LatestFacts DEF CurrentUpstreamList
<1>4. Equivalent(served, Latest(CurrentUpstreamList, userCA))
  BY <1>2 DEF Equivalent
<1> QED
  BY <1>1, <1>3, <1>4 DEF TrafficInv

\* One outcome more, or another UserCA, and the lists are still projections.
LEMMA TrafficStepKeepsTypes ==
  ASSUME TrafficInv, TrafficStep
  PROVE  sources' \in [1..Sources -> Lists] /\ Switch
<1>1. sources \in [1..Sources -> Lists]
  BY DEF TrafficInv
<1>2. ASSUME NEW s \in 1..Sources, ApplyOutcome(s)
      PROVE  sources' \in [1..Sources -> Lists] /\ Switch
  <2>1. PICK f \in Files : sources' = [sources EXCEPT ![s] = Project(f)]
    BY <1>2 DEF ApplyOutcome
  <2>2. Project(f) \in Lists
    BY ProjectFacts
  <2> QED
    BY <1>1, <1>2, <2>1, <2>2 DEF ApplyOutcome
<1>3. CASE AdoptUserCA
  BY <1>1, <1>3 DEF AdoptUserCA
<1>4. CASE ExpireUserCA
  BY <1>1, <1>4 DEF ExpireUserCA
<1> QED
  BY <1>2, <1>3, <1>4 DEF TrafficStep

\* Only the runtime touches the lists, the UserCA and what is served.
LEMMA NextKeepsTrafficInv ==
  ASSUME TrafficInv, [Next]_vars
  PROVE  TrafficInv'
<1>1. CASE Runtime
  BY <1>1, TrafficStepKeepsTypes, SwitchKeepsTrafficInv DEF Runtime
<1>2. CASE UNCHANGED trafficVars
  <2>1. sources' = sources /\ userCA' = userCA /\ served' = served
    BY <1>2 DEF trafficVars
  <2> QED
    BY <2>1 DEF TrafficInv, CurrentUpstreamList, Equivalent
<1>3. Next => Runtime \/ UNCHANGED trafficVars
  BY DEF Next, Tunnel, Intercept, InterceptedRequest, PlainRequest, Taken, Disconnect
<1> QED
  BY <1>1, <1>2, <1>3 DEF vars, trafficVars

\* What is served decides as the latest projection, at all times.
LEMMA TrafficInvHolds == Spec => []TrafficInv
<1>1. Init => TrafficInv
  BY InitTrafficInv DEF Init
<1> QED
  BY <1>1, NextKeepsTrafficInv, PTL DEF Spec

\* The latest projection of a merged list depends on what it selects alone.
LEMMA LatestIsUnique ==
  ASSUME NEW a \in MergedLists, NEW b \in MergedLists, NEW ca,
         ToSet(a.hosts) = ToSet(b.hosts), ToSet(a.origins) = ToSet(b.origins)
  PROVE  Latest(a, ca) = Latest(b, ca)
<1>1. CanonicalUpstreams(a) = CanonicalUpstreams(b)
  BY CanonicalIsUnique
<1>2. NativeHTTPS(a.origins) = NativeHTTPS(b.origins)
  BY DEF NativeHTTPS
<1>3. ASSUME NEW list \in MergedLists
      PROVE  list.hosts # <<>> <=> ToSet(list.hosts) # {}
  <2> DEFINE s == list.hosts
  <2>1. s \in Seq(HostSelection)
    BY DEF MergedLists, Lists
  <2> HIDE DEF s
  <2>2. ASSUME s # <<>>
        PROVE  s[1] \in ToSet(s)
    <3>1. 1 \in DOMAIN s
      BY <2>1, <2>2
    <3> QED
      BY <3>1, Zenon DEF ToSet
  <2>3. ASSUME s = <<>>
        PROVE  ToSet(s) = {}
    BY <2>3 DEF ToSet
  <2> QED
    BY <2>2, <2>3 DEF s
<1>4. a.hosts # <<>> <=> b.hosts # <<>>
  BY <1>3
<1> QED
  BY <1>1, <1>2, <1>4 DEF Latest

\* What the lists select, before a step and after it.
LEMMA SelectedFacts ==
  ASSUME sources \in [1..Sources -> Lists]
  PROVE  /\ CurrentUpstreamList \in MergedLists
         /\ ToSet(CurrentUpstreamList.hosts) = SelectedHosts
         /\ ToSet(CurrentUpstreamList.origins) = SelectedOrigins
         /\ URLs \subseteq OriginSelection
BY CurrentFacts, URLsAreOrigins DEF CurrentUpstreamList, SelectedHosts, SelectedOrigins, URLs

\* The same of the state after a step.
LEMMA SelectedFactsNext ==
  ASSUME sources' \in [1..Sources -> Lists]
  PROVE  /\ Merge(sources') \in MergedLists
         /\ ToSet(Merge(sources').hosts) = SelectedHosts'
         /\ ToSet(Merge(sources').origins) = SelectedOrigins'
         /\ URLs' \subseteq OriginSelection
<1>1. SelectedHosts' = UNION {ToSet(sources'[s].hosts) : s \in 1..Sources}
  BY DEF SelectedHosts
<1>2. SelectedOrigins' = UNION {ToSet(sources'[s].origins) : s \in 1..Sources}
  BY DEF SelectedOrigins
<1>3. URLs' = [scheme : {"http", "https"}, hostname : Hostnames,
               port : {o.port : o \in SelectedOrigins'} \cup {httpDefaultPort, httpsDefaultPort}]
  BY DEF URLs
<1> QED
  BY <1>1, <1>2, <1>3, CurrentFacts, URLsAreOrigins

\* The served PAC sends to the proxy what the selectors ask for and nothing
\* else, for all lists, hostnames and UserCAs (generate.go, proxy.pac.js).
THEOREM RoutingIsDocumented == Spec => []RoutedAsDocumented
<1>1. ASSUME TrafficInv
      PROVE  RoutedAsDocumented
  <2>1. /\ CurrentUpstreamList \in MergedLists
        /\ ToSet(CurrentUpstreamList.hosts) = SelectedHosts
        /\ ToSet(CurrentUpstreamList.origins) = SelectedOrigins
        /\ URLs \subseteq OriginSelection
    BY <1>1, SelectedFacts DEF TrafficInv
  <2>2. served.pac = Latest(CurrentUpstreamList, userCA).pac
    BY <1>1 DEF TrafficInv, Equivalent
  <2>3. ASSUME NEW url \in URLs
        PROVE  Documented(SelectedHosts, SelectedOrigins, userCA, served.pac, url)
    BY <2>1, <2>2, LatestFacts
  <2>4. ASSUME NEW url \in URLs
        PROVE  url \in SelectedOrigins <=> Selects(url.scheme, url, url.port)
    <3> DEFINE o == [scheme |-> url.scheme, hostname |-> url.hostname, port |-> url.port]
    <3>1. url = o
      BY DEF URLs
    <3>2. Selects(url.scheme, url, url.port) <=> o \in SelectedOrigins
      BY DEF Selects
    <3> HIDE DEF o
    <3> QED
      BY <3>1, <3>2
  <2>5. ASSUME NEW url \in URLs
        PROVE  FindProxy(served.pac, url) <=>
                 /\ url.scheme = "https" => userCA # None
                 /\ \/ \E h \in SelectedHosts : Covers(h, url.hostname)
                    \/ Selects(url.scheme, url, url.port)
                    \/ url.scheme = "https" /\ DocumentedUpstream(url) # url
    <3>1. DocumentedUpstream(url) = Wanted(SelectedOrigins, userCA, url)
      BY WantedIsDocumented
    <3> QED
      BY <2>3, <2>4, <3>1 DEF Documented
  <2> QED
    BY <2>5 DEF RoutedAsDocumented
<1> QED
  BY <1>1, TrafficInvHolds, PTL

\* A step that serves something else serves the latest projection.
LEMMA SwitchesToLatest ==
  ASSUME TrafficInv, [Next]_vars, served' # served
  PROVE  /\ sources' \in [1..Sources -> Lists]
         /\ served' = Latest(Merge(sources'), userCA')
<1>1. Runtime
  BY DEF Next, Tunnel, Intercept, InterceptedRequest, PlainRequest, Taken, Disconnect, vars,
         trafficVars
<1>2. sources' \in [1..Sources -> Lists] /\ Switch
  BY <1>1, TrafficStepKeepsTypes DEF Runtime
<1> QED
  BY <1>2 DEF Switch

\* Whatever the runtime switches to, it forwards every HTTPS request where the
\* selectors of that moment say (Project in httpsfacade.go).
THEOREM SwitchesAreDocumented == Spec => SwitchesToDocumentedUpstreams
<1>1. ASSUME TrafficInv, [Next]_vars, served' # served
      PROVE  (\A url \in URLs : url.scheme = "https" =>
                Upstream(served.facades, url) = DocumentedUpstream(url))'
  <2>1. /\ sources' \in [1..Sources -> Lists]
        /\ served' = Latest(Merge(sources'), userCA')
    BY <1>1, SwitchesToLatest
  <2>2. /\ Merge(sources') \in MergedLists
        /\ ToSet(Merge(sources').origins) = SelectedOrigins'
        /\ URLs' \subseteq OriginSelection
    BY <2>1, SelectedFactsNext
  <2>3. ASSUME NEW url \in URLs', url.scheme = "https"
        PROVE  Upstream(served'.facades, url) = Wanted(SelectedOrigins', userCA', url)
    BY <2>1, <2>2, <2>3, LatestFacts
  <2>4. ASSUME NEW url
        PROVE  DocumentedUpstream(url)' = Wanted(SelectedOrigins', userCA', url)
    BY DEF DocumentedUpstream, Wanted, Selects
  <2> QED
    BY <2>3, <2>4
<1>2. TrafficInv /\ [Next]_vars =>
        [served' # served =>
           (\A url \in URLs : url.scheme = "https" =>
              Upstream(served.facades, url) = DocumentedUpstream(url))']_trafficVars
  BY <1>1
<1> QED
  BY <1>2, TrafficInvHolds, PTL DEF Spec, SwitchesToDocumentedUpstreams

\* The same selectors in another order or another list switch nothing, so that
\* no browser fetches the PAC again (canonicalUpstreams in traffic.go).
THEOREM OrderSwitchesNothing == Spec => OrderIsIrrelevant
<1>1. ASSUME TrafficInv, [Next]_vars,
             SelectedHosts' = SelectedHosts, SelectedOrigins' = SelectedOrigins, userCA' = userCA
      PROVE  served' = served
  <2> SUFFICES ASSUME served' # served
               PROVE  FALSE
    OBVIOUS
  <2>1. Runtime
    BY <1>1 DEF Next, Tunnel, Intercept, InterceptedRequest, PlainRequest, Taken, Disconnect, vars,
                trafficVars
  <2>2. sources' \in [1..Sources -> Lists] /\ Switch
    BY <1>1, <2>1, TrafficStepKeepsTypes DEF Runtime
  <2>3. /\ CurrentUpstreamList \in MergedLists
        /\ ToSet(CurrentUpstreamList.hosts) = SelectedHosts
        /\ ToSet(CurrentUpstreamList.origins) = SelectedOrigins
    BY <1>1, SelectedFacts DEF TrafficInv
  <2>4. /\ Merge(sources') \in MergedLists
        /\ ToSet(Merge(sources').hosts) = SelectedHosts'
        /\ ToSet(Merge(sources').origins) = SelectedOrigins'
    BY <2>2, SelectedFactsNext
  <2>5. Latest(Merge(sources'), userCA') = Latest(CurrentUpstreamList, userCA)
    BY <1>1, <2>3, <2>4, LatestIsUnique
  <2>6. Equivalent(served, Latest(Merge(sources'), userCA'))
    BY <1>1, <2>5 DEF TrafficInv
  <2> QED
    BY <2>2, <2>6 DEF Switch
<1>2. TrafficInv /\ [Next]_vars =>
        [SelectedHosts' = SelectedHosts /\ SelectedOrigins' = SelectedOrigins /\ userCA' = userCA
           => UNCHANGED served]_trafficVars
  BY <1>1
<1> QED
  BY <1>2, TrafficInvHolds, PTL DEF Spec, OrderIsIrrelevant

(***************************************************************************)
(* Where the comparison of projections is sound.                           *)
(***************************************************************************)
\* A list that names no HTTPS origin.
PlainOrigins(origins) == \A o \in ToSet(origins) : o.scheme = "http"

\* The PAC shows every HTTP Origin Selector.
LEMMA PACShowsOrigins ==
  ASSUME NEW list, list.hosts \in Seq(HostSelection), list.origins \in Seq(OriginSelection),
         NEW facades \in Seq(Routes), NEW trusted \in BOOLEAN,
         NEW o \in OriginSelection, o.scheme = "http"
  PROVE  o \in ToSet(list.origins) <=>
           PACRoute("http", o.hostname, o.port, FALSE) \in ToSet(PACRoutes(list, facades, trusted))
<1> DEFINE q == PACRoute("http", o.hostname, o.port, FALSE)
<1>1. q \in ToSet(PACRoutes(list, facades, trusted)) <=>
        \/ \E h \in ToSet(list.hosts) : q \in ToSet(HostRoutes(h, trusted))
        \/ \E x \in ToSet(list.origins) : q \in ToSet(OriginRoutes(x, trusted))
        \/ trusted /\ q \in ToSet(FacadeRoutes(facades))
  BY PACRoutesFacts
<1>2. q.port = o.port /\ q.scheme = "http" /\ q.hostname = o.hostname
  BY DEF PACRoute
<1>3. o.port # AnyPort
  BY NoPortIsAny DEF OriginSelection
<1>4. ASSUME NEW h \in ToSet(list.hosts)
      PROVE  q \notin ToSet(HostRoutes(h, trusted))
  <2>1. h \in HostSelection
    BY DEF ToSet
  <2>2. \A s : PACRoute(s, h.hostname, AnyPort, h.wildcard).port = AnyPort
    BY DEF PACRoute
  <2> HIDE DEF q
  <2> QED
    BY <1>2, <1>3, <2>1, <2>2, HostRoutesFacts
<1>5. q \notin ToSet(FacadeRoutes(facades))
  <2>1. \A r : PACRoute("https", r.hostname, r.httpsPort, FALSE).scheme = "https"
    BY DEF PACRoute
  <2> HIDE DEF q
  <2> QED
    BY <1>2, <2>1, FacadeRoutesFacts
<1>6. ASSUME NEW x \in ToSet(list.origins)
      PROVE  q \in ToSet(OriginRoutes(x, trusted)) <=> x = o
  <2>1. x \in OriginSelection
    BY DEF ToSet
  <2>2. q \in ToSet(OriginRoutes(x, trusted)) <=>
          /\ x.scheme = "https" => trusted
          /\ q = PACRoute(x.scheme, x.hostname, x.port, FALSE)
    BY <2>1, OriginRoutesFacts
  <2>3. q = PACRoute(x.scheme, x.hostname, x.port, FALSE) <=>
          x.scheme = "http" /\ x.hostname = o.hostname /\ x.port = o.port
    BY DEF PACRoute
  <2>4. /\ o = [scheme |-> o.scheme, hostname |-> o.hostname, port |-> o.port]
        /\ x = [scheme |-> x.scheme, hostname |-> x.hostname, port |-> x.port]
    BY <2>1 DEF OriginSelection
  <2> QED
    BY <2>2, <2>3, <2>4
<1> QED
  BY <1>1, <1>4, <1>5, <1>6

\* Projections without HTTPS origins that compare as equivalent have the same
\* facades.
LEMMA EquivalentIsExact ==
  ASSUME NEW a \in MergedLists, NEW b \in MergedLists, NEW ca, NEW cb,
         PlainOrigins(a.origins), PlainOrigins(b.origins),
         Equivalent(Latest(a, ca), Latest(b, cb))
  PROVE  Latest(a, ca).facades = Latest(b, cb).facades
<1> DEFINE Trusted(list, c) ==
             c # None /\ (\/ NativeHTTPS(list.origins) # {} \/ (list.hosts # <<>> /\ c # None)
                          \/ \E o \in ToSet(list.origins) : o.scheme = "http")
           canonicalA == CanonicalUpstreams(a)
           canonicalB == CanonicalUpstreams(b)
           facadesA == Latest(a, ca).facades
           facadesB == Latest(b, cb).facades
<1>1. /\ facadesA = IF Trusted(a, ca) THEN Facades(canonicalA.origins) ELSE <<>>
      /\ Latest(a, ca).pac = PACRoutes(canonicalA, facadesA, Trusted(a, ca))
      /\ Latest(a, ca).identity = IF Trusted(a, ca) THEN ca ELSE None
  BY DEF Latest
<1>2. /\ facadesB = IF Trusted(b, cb) THEN Facades(canonicalB.origins) ELSE <<>>
      /\ Latest(b, cb).pac = PACRoutes(canonicalB, facadesB, Trusted(b, cb))
      /\ Latest(b, cb).identity = IF Trusted(b, cb) THEN cb ELSE None
  BY DEF Latest
<1>3. /\ Trusted(a, ca) \in BOOLEAN /\ (Trusted(a, ca) => ca # None)
      /\ Trusted(b, cb) \in BOOLEAN /\ (Trusted(b, cb) => cb # None)
  OBVIOUS
<1> HIDE DEF Trusted
<1>4. Trusted(a, ca) <=> Trusted(b, cb)
  BY <1>1, <1>2, <1>3 DEF Equivalent
<1>5. /\ canonicalA.hosts \in Seq(HostSelection) /\ canonicalA.origins \in Seq(OriginSelection)
      /\ ToSet(canonicalA.origins) = ToSet(a.origins)
      /\ canonicalB.hosts \in Seq(HostSelection) /\ canonicalB.origins \in Seq(OriginSelection)
      /\ ToSet(canonicalB.origins) = ToSet(b.origins)
  BY CanonicalFacts
<1>6. facadesA \in Seq(Routes) /\ facadesB \in Seq(Routes)
  BY LatestFacts
<1>7. /\ a.origins \in Seq(OriginSelection) /\ IsInjective(a.origins)
      /\ b.origins \in Seq(OriginSelection) /\ IsInjective(b.origins)
  BY DEF MergedLists, Lists
<1>8. /\ ToSet(a.origins) \subseteq OriginSelection
      /\ ToSet(b.origins) \subseteq OriginSelection
  BY <1>7 DEF ToSet
<1>9. Latest(a, ca).pac = Latest(b, cb).pac
  BY DEF Equivalent
<1> HIDE DEF canonicalA, canonicalB, facadesA, facadesB
<1>10. ASSUME NEW o \in OriginSelection, o.scheme = "http"
       PROVE  o \in ToSet(a.origins) <=> o \in ToSet(b.origins)
  <2> DEFINE q == PACRoute("http", o.hostname, o.port, FALSE)
  <2>1. o \in ToSet(canonicalA.origins) <=>
          q \in ToSet(PACRoutes(canonicalA, facadesA, Trusted(a, ca)))
    BY <1>3, <1>5, <1>6, <1>10, PACShowsOrigins
  <2>2. o \in ToSet(canonicalB.origins) <=>
          q \in ToSet(PACRoutes(canonicalB, facadesB, Trusted(b, cb)))
    BY <1>3, <1>5, <1>6, <1>10, PACShowsOrigins
  <2> HIDE DEF q
  <2> QED
    BY <1>1, <1>2, <1>5, <1>9, <2>1, <2>2
<1>11. ToSet(a.origins) = ToSet(b.origins)
  BY <1>8, <1>10 DEF PlainOrigins
<1>12. canonicalA.origins = canonicalB.origins
  <2>1. Len(a.origins) = Len(b.origins)
    BY <1>7, <1>11, InjectiveLength
  <2>2. Sorted(a.origins, OriginBefore) = Sorted(b.origins, OriginBefore)
    BY <1>11, <2>1 DEF Sorted
  <2> QED
    BY <2>2 DEF canonicalA, canonicalB, CanonicalUpstreams
<1> QED
  BY <1>1, <1>2, <1>4, <1>12 DEF facadesA, facadesB

\* A file without an https line is projected to no HTTPS origin.
LEMMA PlainFilesFacts ==
  ASSUME NEW file \in Files, file = Undecodable \/ \A i \in DOMAIN file : file[i].scheme # "https"
  PROVE  PlainOrigins(Project(file).origins)
<1>1. CASE file = Undecodable
  BY <1>1 DEF Project, Nothing, PlainOrigins, ToSet
<1>2. CASE file # Undecodable
  <2> DEFINE origins == [i \in DOMAIN file |-> OriginSelectors(file[i])]
             kept == Deduplicate(FlattenSeq(origins))
  <2>1. file \in Seq(Lines)
    BY <1>2, FilesAssumption
  <2>2. DOMAIN file = 1..Len(file) /\ Len(file) \in Nat /\ \A i \in DOMAIN file : file[i] \in Lines
    BY <2>1
  <2>3. /\ origins \in Seq(Seq(OriginSelection)) /\ DOMAIN origins = DOMAIN file
        /\ \A i \in DOMAIN file : origins[i] = OriginSelectors(file[i])
    BY <2>2, LineFacts
  <2>4. Project(file).origins = kept
    BY <1>2 DEF Project, Decode
  <2> HIDE DEF origins
  <2>5. /\ FlattenSeq(origins) \in Seq(OriginSelection)
        /\ ToSet(FlattenSeq(origins)) = UNION {ToSet(origins[i]) : i \in DOMAIN origins}
    BY <2>3, FlattenFacts
  <2>6. ToSet(kept) = ToSet(FlattenSeq(origins))
    BY <2>5, DeduplicateFacts
  <2> HIDE DEF kept
  <2>7. ASSUME NEW i \in DOMAIN file, NEW o \in ToSet(OriginSelectors(file[i]))
        PROVE  o.scheme = "http"
    <3> DEFINE line == file[i]
    <3>1. line.scheme # "https"
      BY <1>2
    <3> HIDE DEF line
    <3>2. ToSet(<<OriginSelector(line)>>) = {OriginSelector(line)} /\ ToSet(<<>>) = {}
      BY DEF ToSet
    <3>3. IsOriginSelector(line) /\ o = OriginSelector(line)
      BY <3>2 DEF OriginSelectors, line
    <3> QED
      BY <3>1, <3>3 DEF IsOriginSelector, OriginSelector
  <2> QED
    BY <2>3, <2>4, <2>5, <2>6, <2>7 DEF PlainOrigins
<1> QED
  BY <1>1, <1>2

\* What is served is the projection of some list of HTTP origins.
PlainInv ==
  /\ TrafficInv
  /\ \A s \in 1..Sources : PlainOrigins(sources[s].origins)
  /\ \E list \in MergedLists : PlainOrigins(list.origins) /\ \E ca : served = Latest(list, ca)

\* Lists without HTTPS origins have none when they are merged.
LEMMA PlainMerge ==
  ASSUME NEW lists \in [1..Sources -> Lists], \A s \in 1..Sources : PlainOrigins(lists[s].origins)
  PROVE  Merge(lists) \in MergedLists /\ PlainOrigins(Merge(lists).origins)
<1>1. /\ Merge(lists) \in MergedLists
      /\ ToSet(Merge(lists).origins) = UNION {ToSet(lists[s].origins) : s \in 1..Sources}
  BY CurrentFacts
<1> QED
  BY <1>1 DEF PlainOrigins

\* While no Upstream List names an HTTPS origin, what is served forwards every
\* HTTPS request as the current selectors say: without a native origin that takes
\* the place of a facade, the comparison that decides on a switch sees every
\* change of a mapping (equivalent in traffic.go; with one it does not, as the
\* run traffic_mappings shows).
THEOREM PlainMappingsAreCurrent ==
  ASSUME \A file \in Files \ {Undecodable} : \A i \in DOMAIN file : file[i].scheme # "https"
  PROVE  Spec => []ServedMappingsAreCurrent
<1>1. \A file \in Files : PlainOrigins(Project(file).origins)
  BY PlainFilesFacts
<1>2. ASSUME Init
      PROVE  PlainInv
  <2>1. TrafficInv
    BY <1>2, InitTrafficInv DEF Init
  <2>2. \A s \in 1..Sources : PlainOrigins(sources[s].origins)
    BY <1>1, <1>2 DEF Init, InitTraffic
  <2>3. CurrentUpstreamList \in MergedLists /\ PlainOrigins(CurrentUpstreamList.origins)
    BY <2>1, <2>2, PlainMerge DEF TrafficInv, CurrentUpstreamList
  <2>4. served = Latest(CurrentUpstreamList, userCA)
    BY <1>2 DEF Init, InitTraffic
  <2> QED
    BY <2>1, <2>2, <2>3, <2>4 DEF PlainInv
<1>3. ASSUME PlainInv, [Next]_vars
      PROVE  PlainInv'
  <2>1. TrafficInv /\ TrafficInv'
    BY <1>3, NextKeepsTrafficInv DEF PlainInv
  <2>2. ASSUME NEW s \in 1..Sources
        PROVE  PlainOrigins(sources'[s].origins)
    <3>1. CASE \E r \in 1..Sources : ApplyOutcome(r)
      <4>1. PICK r \in 1..Sources, f \in Files : sources' = [sources EXCEPT ![r] = Project(f)]
        BY <3>1 DEF ApplyOutcome
      <4>2. sources'[s] = sources[s] \/ sources'[s] = Project(f)
        BY <2>1, <4>1 DEF TrafficInv
      <4> QED
        BY <1>1, <1>3, <4>2 DEF PlainInv
    <3>2. CASE sources' = sources
      BY <1>3, <3>2 DEF PlainInv
    <3>3. (\E r \in 1..Sources : ApplyOutcome(r)) \/ sources' = sources
      BY <1>3 DEF Next, Runtime, TrafficStep, AdoptUserCA, ExpireUserCA, Tunnel, Intercept,
                  InterceptedRequest, PlainRequest, Taken, Disconnect, vars, trafficVars
    <3> QED
      BY <3>1, <3>2, <3>3
  <2>3. CASE served' = served
    BY <1>3, <2>1, <2>2, <2>3 DEF PlainInv
  <2>4. CASE served' # served
    <3>1. /\ sources' \in [1..Sources -> Lists]
          /\ served' = Latest(Merge(sources'), userCA')
      BY <1>3, <2>1, <2>4, SwitchesToLatest
    <3>2. Merge(sources') \in MergedLists /\ PlainOrigins(Merge(sources').origins)
      BY <2>2, <3>1, PlainMerge
    <3> QED
      BY <2>1, <2>2, <3>1, <3>2 DEF PlainInv
  <2> QED
    BY <2>3, <2>4
<1>4. ASSUME PlainInv
      PROVE  ServedMappingsAreCurrent
  <2>1. PICK list \in MergedLists :
               PlainOrigins(list.origins) /\ \E ca : served = Latest(list, ca)
    BY <1>4 DEF PlainInv
  <2>2. /\ CurrentUpstreamList \in MergedLists /\ PlainOrigins(CurrentUpstreamList.origins)
        /\ Equivalent(served, Latest(CurrentUpstreamList, userCA))
    BY <1>4, PlainMerge DEF PlainInv, TrafficInv, CurrentUpstreamList
  <2>3. served.facades = Latest(CurrentUpstreamList, userCA).facades
    BY <2>1, <2>2, EquivalentIsExact
  <2>4. ToSet(CurrentUpstreamList.origins) = SelectedOrigins /\ URLs \subseteq OriginSelection
    BY <1>4, SelectedFacts DEF PlainInv, TrafficInv
  <2>5. ASSUME NEW url \in URLs, url.scheme = "https"
        PROVE  Upstream(served.facades, url) = DocumentedUpstream(url)
    BY <2>2, <2>3, <2>4, <2>5, LatestFacts, WantedIsDocumented
  <2> QED
    BY <2>5 DEF ServedMappingsAreCurrent
<1> QED
  BY <1>2, <1>3, <1>4, PTL DEF Spec

(***************************************************************************)
(* The certificate cache and the sessions.                                 *)
(***************************************************************************)
\* A certificate as the served handler generates it.
Leaf(identity) == [hostname : {u.hostname : u \in Targets}, signer : {identity}]

\* The strengthening: the list is a sequence of certificates of the UserCA that
\* is served.
CacheInv ==
  /\ DOMAIN cache = {"entries", "lru"}
  /\ cache = [entries |-> cache.entries, lru |-> cache.lru]
  /\ cache.lru \in Seq(Leaf(served.identity))
  /\ LeafCertificatesMatch

\* A cache without its session part: the map and the list agree.
Agree(c) ==
  /\ c.entries = {c.lru[i].hostname : i \in 1..Len(c.lru)}
  /\ \A i, j \in 1..Len(c.lru) : i # j => c.lru[i].hostname # c.lru[j].hostname

\* t holds what s holds, and repeats no more of it.
Permutes(t, s) ==
  /\ \A j \in 1..Len(s) : \E i \in 1..Len(s) : t[i] = s[j]
  /\ \A i \in 1..Len(s) : \E j \in 1..Len(s) : t[i] = s[j]
  /\ \A i, j \in 1..Len(s) : i # j =>
       \E m, n \in 1..Len(s) : t[i] = s[m] /\ t[j] = s[n] /\ m # n

\* Moving an element to the front permutes the list.
LEMMA MoveToFrontPermutes ==
  ASSUME NEW S, NEW s \in Seq(S), NEW k \in 1..Len(s),
         NEW t, t = MoveToFront(s, k)
  PROVE  t \in Seq(S) /\ Len(t) = Len(s) /\ t[1] = s[k] /\ Permutes(t, s)
<1> DEFINE from(i) == IF i = 1 THEN k ELSE IF i <= k THEN i - 1 ELSE i
<1>1. Len(s) \in Nat /\ s \in [1..Len(s) -> S]
  OBVIOUS
<1>2. \A i \in 1..Len(s) : from(i) \in 1..Len(s)
  BY <1>1
<1>3. t = [i \in 1..Len(s) |-> s[from(i)]]
  BY DEF MoveToFront
<1>4. t \in Seq(S) /\ Len(t) = Len(s)
  BY <1>1, <1>2, <1>3
<1>5. \A i \in 1..Len(s) : t[i] = s[from(i)]
  BY <1>3
<1>6. t[1] = s[k]
  BY <1>1, <1>5
<1>7. \A i, j \in 1..Len(s) : i # j => from(i) # from(j)
  BY <1>1
<1>8. \A j \in 1..Len(s) : \E i \in 1..Len(s) : from(i) = j
  <2> SUFFICES ASSUME NEW j \in 1..Len(s) PROVE \E i \in 1..Len(s) : from(i) = j
    OBVIOUS
  <2>1. CASE j = k
    BY <2>1, <1>1
  <2>2. CASE j < k
    <3>1. j + 1 \in 1..Len(s) /\ from(j + 1) = j
      BY <2>2, <1>1
    <3> QED
      BY <3>1
  <2>3. CASE j > k
    BY <2>3, <1>1
  <2> QED
    BY <2>1, <2>2, <2>3, <1>1
<1> HIDE DEF from
<1>9. \A j \in 1..Len(s) : \E i \in 1..Len(s) : t[i] = s[j]
  BY <1>5, <1>8
<1>10. \A i \in 1..Len(s) : \E j \in 1..Len(s) : t[i] = s[j]
  BY <1>2, <1>5
<1>11. \A i, j \in 1..Len(s) : i # j =>
         \E m, n \in 1..Len(s) : t[i] = s[m] /\ t[j] = s[n] /\ m # n
  BY <1>2, <1>5, <1>7
<1> QED
  BY <1>4, <1>6, <1>9, <1>10, <1>11 DEF Permutes

\* A fetch of a cached hostname keeps the cache in agreement and puts the
\* hostname's certificate first.
LEMMA HitKeepsAgreement ==
  ASSUME NEW hostname, NEW S, cache.lru \in Seq(S), Agree(cache), hostname \in cache.entries,
         cache = [entries |-> cache.entries, lru |-> cache.lru],
         NEW c, c = Fetch(hostname)
  PROVE  /\ c = [entries |-> c.entries, lru |-> c.lru]
         /\ c.lru \in Seq(S) /\ Len(c.lru) = Len(cache.lru)
         /\ Agree(c)
         /\ c.lru[1].hostname = hostname
<1> DEFINE s == cache.lru
           k == Found(hostname)
           t == MoveToFront(s, k)
<1>1. k \in 1..Len(s) /\ s[k].hostname = hostname
  BY DEF Found, Agree
<1>2. c = [entries |-> cache.entries, lru |-> t]
  BY DEF Fetch
<1> HIDE DEF k, s, t
<1>3. s \in Seq(S) /\ t = MoveToFront(s, k)
  BY DEF s, t
<1>4. t \in Seq(S) /\ Len(t) = Len(s) /\ t[1] = s[k] /\ Permutes(t, s)
  BY <1>1, <1>3, MoveToFrontPermutes
<1>5. /\ cache.entries = {s[i].hostname : i \in 1..Len(s)}
      /\ \A i, j \in 1..Len(s) : i # j => s[i].hostname # s[j].hostname
  BY DEF Agree, s
<1>6. cache.entries = {t[i].hostname : i \in 1..Len(s)}
  <2>1. ASSUME NEW h \in cache.entries PROVE \E i \in 1..Len(s) : t[i].hostname = h
    <3>1. PICK j \in 1..Len(s) : s[j].hostname = h
      BY <1>5
    <3>2. PICK i \in 1..Len(s) : t[i] = s[j]
      BY <1>4 DEF Permutes
    <3> QED
      BY <3>1, <3>2
  <2>2. ASSUME NEW i \in 1..Len(s) PROVE t[i].hostname \in cache.entries
    <3>1. PICK j \in 1..Len(s) : t[i] = s[j]
      BY <1>4 DEF Permutes
    <3> QED
      BY <1>5, <3>1
  <2> QED
    BY <2>1, <2>2
<1>7. ASSUME NEW i \in 1..Len(s), NEW j \in 1..Len(s), i # j
      PROVE  t[i].hostname # t[j].hostname
  <2>1. PICK m \in 1..Len(s), n \in 1..Len(s) : t[i] = s[m] /\ t[j] = s[n] /\ m # n
    BY <1>4, <1>7 DEF Permutes
  <2> QED
    BY <1>5, <2>1
<1>8. c.entries = cache.entries /\ c.lru = t /\ c = [entries |-> c.entries, lru |-> c.lru]
  BY <1>2
<1>9. Agree(c)
  BY <1>4, <1>6, <1>7, <1>8 DEF Agree
<1> QED
  BY <1>1, <1>4, <1>8, <1>9 DEF s

\* A fetch of another hostname, by which the hostname used last may go.
LEMMA MissKeepsAgreement ==
  ASSUME NEW hostname, NEW S, cache.lru \in Seq(S), Agree(cache), hostname \notin cache.entries,
         Generated(hostname) \in S, Len(cache.lru) <= Capacity,
         NEW c, c = Fetch(hostname)
  PROVE  /\ c = [entries |-> c.entries, lru |-> c.lru]
         /\ c.lru \in Seq(S) /\ Len(c.lru) >= 1 /\ Len(c.lru) <= Capacity
         /\ Agree(c)
         /\ c.lru[1] = Generated(hostname)
<1> DEFINE s == cache.lru
           g == Generated(hostname)
           p == <<g>> \o s
           n == Len(s) + 1
           all == cache.entries \cup {hostname}
<1>1. Len(s) \in Nat /\ n \in Nat /\ n >= 1
  OBVIOUS
<1>2. p \in Seq(S) /\ Len(p) = n /\ p[1] = g /\ \A i \in 2..n : p[i] = s[i - 1]
  OBVIOUS
<1>3. c = Evict([entries |-> all, lru |-> p])
  BY DEF Fetch
<1>4. g.hostname = hostname
  BY DEF Generated
<1>5. /\ cache.entries = {s[i].hostname : i \in 1..Len(s)}
      /\ \A i, j \in 1..Len(s) : i # j => s[i].hostname # s[j].hostname
  BY DEF Agree
<1> HIDE DEF s, p, g
<1>6. \A i \in 1..n : i = 1 \/ (i \in 2..n /\ i - 1 \in 1..Len(s))
  BY <1>1
<1>7. \A i \in 1..Len(s) : i + 1 \in 2..n /\ i + 1 \in 1..n /\ (i + 1) - 1 = i
  BY <1>1
<1>8. 1 \in 1..n /\ n \in 1..n
  BY <1>1
<1>9. ASSUME NEW i \in 1..n, NEW j \in 1..n, i # j PROVE p[i].hostname # p[j].hostname
  <2>1. \A m \in 2..n : m - 1 \in 1..Len(s) /\ p[m].hostname \in cache.entries
    BY <1>1, <1>2, <1>5
  <2>2. CASE i = 1
    BY <1>2, <1>4, <1>6, <1>9, <2>1, <2>2 DEF all
  <2>3. CASE j = 1
    BY <1>2, <1>4, <1>6, <1>9, <2>1, <2>3 DEF all
  <2>4. CASE i # 1 /\ j # 1
    <3>1. i \in 2..n /\ j \in 2..n /\ i - 1 # j - 1 /\ i - 1 \in 1..Len(s) /\ j - 1 \in 1..Len(s)
      BY <1>1, <1>6, <1>9, <2>4
    <3> QED
      BY <1>2, <1>5, <3>1
  <2> QED
    BY <2>2, <2>3, <2>4
<1>10. all = {p[i].hostname : i \in 1..n}
  <2>1. ASSUME NEW h \in all PROVE \E i \in 1..n : p[i].hostname = h
    <3>1. CASE h = hostname
      BY <1>2, <1>4, <1>8, <3>1
    <3>2. CASE h \in cache.entries
      <4>1. PICK i \in 1..Len(s) : s[i].hostname = h
        BY <1>5, <3>2
      <4> QED
        BY <1>2, <1>7, <4>1
    <3> QED
      BY <3>1, <3>2 DEF all
  <2>2. ASSUME NEW i \in 1..n PROVE p[i].hostname \in all
    BY <1>2, <1>4, <1>5, <1>6 DEF all
  <2> QED
    BY <2>1, <2>2
<1> HIDE DEF n, all
<1>11. CASE n <= Capacity
  <2>1. c = [entries |-> all, lru |-> p]
    BY <1>2, <1>3, <1>11 DEF Evict
  <2>2. c.entries = all /\ c.lru = p /\ c = [entries |-> c.entries, lru |-> c.lru]
    BY <2>1
  <2>3. Agree(c)
    BY <1>2, <1>9, <1>10, <2>2 DEF Agree
  <2> QED
    BY <1>1, <1>2, <1>11, <2>2, <2>3 DEF g
<1>12. CASE ~(n <= Capacity)
  <2> DEFINE q == SubSeq(p, 1, n - 1)
             l == n - 1
  <2>1. n > 1 /\ l <= Capacity /\ l \in Nat /\ l >= 1
    BY <1>1, <1>12, CapacityAssumption DEF n, s
  <2>2. q \in Seq(S) /\ Len(q) = l /\ \A i \in 1..l : q[i] = p[i]
    BY <1>2, <2>1
  <2>3. c = [entries |-> all \ {p[n].hostname}, lru |-> q]
    BY <1>2, <1>3, <1>12 DEF Evict
  <2> HIDE DEF q
  <2>4. c.entries = all \ {p[n].hostname} /\ c.lru = q
        /\ c = [entries |-> c.entries, lru |-> c.lru]
    BY <2>3
  <2>5. \A i \in 1..l : i \in 1..n /\ i # n
    BY <1>1, <2>1
  <2>6. \A i \in 1..n : i = n \/ i \in 1..l
    BY <1>1, <2>1
  <2>7. 1 \in 1..l
    BY <2>1
  <2> HIDE DEF l
  <2>8. all \ {p[n].hostname} = {q[i].hostname : i \in 1..l}
    <3>1. ASSUME NEW h \in all \ {p[n].hostname} PROVE \E i \in 1..l : q[i].hostname = h
      <4>1. PICK i \in 1..n : p[i].hostname = h
        BY <1>10
      <4> QED
        BY <2>2, <2>6, <4>1
    <3>2. ASSUME NEW i \in 1..l PROVE q[i].hostname \in all \ {p[n].hostname}
      BY <1>8, <1>9, <1>10, <2>2, <2>5
    <3> QED
      BY <3>1, <3>2
  <2>9. \A i, j \in 1..l : i # j => q[i].hostname # q[j].hostname
    BY <1>9, <2>2, <2>5
  <2>10. Agree(c)
    BY <2>2, <2>4, <2>8, <2>9 DEF Agree
  <2>11. q[1] = g
    BY <1>2, <2>2, <2>7
  <2> QED
    BY <2>1, <2>2, <2>4, <2>10, <2>11 DEF g, l
<1> QED
  BY <1>11, <1>12

\* Whatever is fetched next, the invariant holds of the cache that results.
LEMMA InterceptKeepsInv ==
  ASSUME CacheInv, NEW url \in Targets, Intercept(url)
  PROVE  CacheInv'
<1> DEFINE S == Leaf(served.identity)
           hostname == url.hostname
<1>1. served' = served /\ cache' = Fetch(hostname)
  BY DEF Intercept, trafficVars
<1>2. session' = [phase |-> "intercepted", url |-> url, facades |-> served.facades,
                 identity |-> served.identity, leaf |-> cache'.lru[1]]
  BY DEF Intercept
<1>3. /\ cache = [entries |-> cache.entries, lru |-> cache.lru]
      /\ cache.lru \in Seq(S)
      /\ Agree(cache)
      /\ Len(cache.lru) <= Capacity
  BY DEF CacheInv, LeafCertificatesMatch, Agree
<1>4. Generated(hostname) \in S
  BY DEF Generated, Leaf
<1>5. /\ cache' = [entries |-> cache'.entries, lru |-> cache'.lru]
      /\ cache'.lru \in Seq(S)
      /\ Agree(cache')
      /\ Len(cache'.lru) <= Capacity
      /\ cache'.lru[1].hostname = hostname
      /\ Len(cache'.lru) >= 1
  <2>1. CASE hostname \in cache.entries
    <3>1. Len(cache.lru) \in Nat /\ Len(cache.lru) >= 1
      BY <1>3, <2>1 DEF Agree
    <3> QED
      BY <1>1, <1>3, <2>1, <3>1, HitKeepsAgreement
  <2>2. CASE hostname \notin cache.entries
    <3>1. Generated(hostname).hostname = hostname
      BY DEF Generated
    <3> QED
      BY <1>1, <1>3, <1>4, <2>2, <3>1, MissKeepsAgreement
  <2> QED
    BY <2>1, <2>2
<1>6. \A i \in 1..Len(cache'.lru) : cache'.lru[i] \in S
  BY <1>5
<1>7. \A i \in 1..Len(cache'.lru) : cache'.lru[i].signer = served.identity
  BY <1>6 DEF Leaf
<1>8. 1 \in 1..Len(cache'.lru)
  BY <1>5
<1>9. cache'.lru[1] = [hostname |-> hostname, signer |-> served.identity]
  BY <1>5, <1>6, <1>8 DEF Leaf
<1>10. session'.leaf = [hostname |-> session'.url.hostname, signer |-> session'.identity]
  BY <1>2, <1>9
<1> QED
  BY <1>1, <1>5, <1>7, <1>10 DEF CacheInv, LeafCertificatesMatch, Agree

\* No other step fetches; a switch leaves an empty cache.
LEMMA OtherStepsKeepInv ==
  ASSUME CacheInv, (served' = served /\ cache' = cache) \/ cache' = EmptyCache,
         session' = session \/ session'.phase # "intercepted"
  PROVE  CacheInv'
<1>1. session'.phase = "intercepted" =>
        session'.leaf = [hostname |-> session'.url.hostname, signer |-> session'.identity]
  BY DEF CacheInv, LeafCertificatesMatch
<1>2. CASE served' = served /\ cache' = cache
  BY <1>1, <1>2 DEF CacheInv, LeafCertificatesMatch
<1>3. CASE cache' = EmptyCache
  <2>1. /\ cache'.entries = {}
        /\ cache'.lru = <<>>
        /\ DOMAIN cache' = {"entries", "lru"}
        /\ cache' = [entries |-> cache'.entries, lru |-> cache'.lru]
    BY <1>3 DEF EmptyCache
  <2>2. Len(cache'.lru) = 0 /\ 1..Len(cache'.lru) = {} /\ 0 <= Capacity
    BY <2>1, CapacityAssumption
  <2> QED
    BY <1>1, <2>1, <2>2 DEF CacheInv, LeafCertificatesMatch
<1> QED
  BY <1>2, <1>3

\* However UserCAs come and go and whatever is visited, no session shows a
\* certificate of a UserCA that was replaced before the session began, or of
\* another hostname, and the cache stays coherent and bounded.
THEOREM CertificatesAlwaysMatch == Spec => []LeafCertificatesMatch
<1>1. Init => CacheInv
  <2> SUFFICES ASSUME Init PROVE CacheInv
    OBVIOUS
  <2>1. cache.entries = {} /\ cache.lru = <<>> /\ DOMAIN cache = {"entries", "lru"}
        /\ cache = [entries |-> cache.entries, lru |-> cache.lru]
    BY DEF Init, EmptyCache
  <2>2. Len(cache.lru) = 0 /\ 1..Len(cache.lru) = {} /\ 0 <= Capacity
    BY <2>1, CapacityAssumption
  <2>3. session.phase # "intercepted"
    BY DEF Init, NoSession
  <2> QED
    BY <2>1, <2>2, <2>3 DEF CacheInv, LeafCertificatesMatch
<1>2. CacheInv /\ [Next]_vars => CacheInv'
  <2> SUFFICES ASSUME CacheInv, [Next]_vars PROVE CacheInv'
    OBVIOUS
  <2>1. CASE Runtime
    <3>1. session' = session /\ cache' = IF served' # served THEN EmptyCache ELSE cache
      BY <2>1 DEF Runtime, CacheAfterSwitch
    <3> QED
      BY <3>1, OtherStepsKeepInv
  <2>2. ASSUME NEW url \in Targets, Tunnel(url) PROVE CacheInv'
    BY <2>2, OtherStepsKeepInv DEF Tunnel, NoSession, trafficVars
  <2>3. ASSUME NEW url \in Targets, Intercept(url) PROVE CacheInv'
    BY <2>3, InterceptKeepsInv
  <2>4. CASE InterceptedRequest
    BY <2>4, OtherStepsKeepInv DEF InterceptedRequest, trafficVars
  <2>5. ASSUME NEW url \in Targets, PlainRequest(url) PROVE CacheInv'
    BY <2>5, OtherStepsKeepInv DEF PlainRequest, trafficVars
  <2>6. CASE Taken
    BY <2>6, OtherStepsKeepInv DEF Taken, trafficVars
  <2>7. CASE Disconnect
    BY <2>7, OtherStepsKeepInv DEF Disconnect, NoSession, trafficVars
  <2>8. CASE UNCHANGED vars
    BY <2>8, OtherStepsKeepInv DEF vars, trafficVars
  <2> QED
    BY <2>1, <2>2, <2>3, <2>4, <2>5, <2>6, <2>7, <2>8 DEF Next
<1>3. CacheInv => LeafCertificatesMatch
  BY DEF CacheInv
<1> QED
  BY <1>1, <1>2, <1>3, PTL DEF Spec

(***************************************************************************)
(* What the browser is answered.                                           *)
(***************************************************************************)
\* An origin that asks may read the repaired response, and what is not policy
\* stays as upstream sent it.
LEMMA RepairFacts ==
  ASSUME NEW header, NEW req, req.origin # None, ~IsPreflight(req),
         NEW answer, answer = Repair(header, req)
  PROVE  /\ \A n \in Cookies \cup {"Other"} : answer[n] = header[n]
         /\ AllowsReading(answer, req)
         /\ Mentions(answer, "Origin")
         /\ answer["Max-Age"] = {}
<1> DEFINE cleared == [n \in HeaderNames |-> IF n \in Policy THEN {} ELSE header[n]]
           named == [cleared EXCEPT !["Allow-Origin"] = {req.origin},
                                    !["Allow-Credentials"] = {"true"}]
           allowed == AddVary(named, {"Origin"})
           exposed == {n \in HeaderNames \ (Policy \cup Cookies) : allowed[n] # {}}
<1>1. answer = [allowed EXCEPT !["Expose-Headers"] = exposed]
  BY DEF Repair
<1>2. /\ DOMAIN cleared = HeaderNames
      /\ cleared["Vary"] = header["Vary"] /\ cleared["Other"] = header["Other"]
      /\ cleared["Set-Cookie"] = header["Set-Cookie"] /\ cleared["Max-Age"] = {}
  BY DEF HeaderNames, Policy, Cookies
<1> HIDE DEF cleared
<1>3. /\ DOMAIN named = HeaderNames
      /\ named["Vary"] = header["Vary"] /\ named["Other"] = header["Other"]
      /\ named["Set-Cookie"] = header["Set-Cookie"] /\ named["Max-Age"] = {}
      /\ named["Allow-Origin"] = {req.origin} /\ named["Allow-Credentials"] = {"true"}
  BY <1>2 DEF HeaderNames, Policy, Cookies
<1> HIDE DEF named
<1>4. allowed = IF "*" \in named["Vary"] THEN named
                ELSE [named EXCEPT !["Vary"] = named["Vary"] \cup {"Origin"}]
  BY DEF AddVary
<1> HIDE DEF allowed
<1>5. /\ DOMAIN allowed = HeaderNames
      /\ allowed["Other"] = header["Other"]
      /\ allowed["Set-Cookie"] = header["Set-Cookie"] /\ allowed["Max-Age"] = {}
      /\ allowed["Allow-Origin"] = {req.origin} /\ allowed["Allow-Credentials"] = {"true"}
      /\ {"Origin", "*"} \cap allowed["Vary"] # {}
  <2>1. CASE "*" \in named["Vary"]
    BY <1>3, <1>4, <2>1
  <2>2. CASE "*" \notin named["Vary"]
    <3>1. allowed = [named EXCEPT !["Vary"] = named["Vary"] \cup {"Origin"}]
      BY <1>4, <2>2
    <3>2. "Vary" \in DOMAIN named
      BY <1>3 DEF HeaderNames
    <3>3. allowed["Vary"] = named["Vary"] \cup {"Origin"}
      BY <3>1, <3>2
    <3> QED
      BY <1>3, <3>1, <3>3
  <2> QED
    BY <2>1, <2>2
<1>6. \A n \in {"Vary", "Other"} : allowed[n] # {} => n \in exposed
  BY DEF HeaderNames, Policy, Cookies
<1> HIDE DEF exposed
<1>7. "Expose-Headers" \in HeaderNames
  BY DEF HeaderNames, Policy
<1>8. /\ answer["Expose-Headers"] = exposed
      /\ \A n \in HeaderNames : n # "Expose-Headers" => answer[n] = allowed[n]
  BY <1>1, <1>5, <1>7
<1>9. /\ answer["Other"] = allowed["Other"] /\ answer["Set-Cookie"] = allowed["Set-Cookie"]
      /\ answer["Max-Age"] = allowed["Max-Age"] /\ answer["Vary"] = allowed["Vary"]
      /\ answer["Allow-Origin"] = allowed["Allow-Origin"]
      /\ answer["Allow-Credentials"] = allowed["Allow-Credentials"]
  BY <1>8 DEF HeaderNames, Policy, Cookies
<1>10. AllowsReading(answer, req)
  BY <1>5, <1>6, <1>8, <1>9 DEF AllowsReading
<1>11. Mentions(answer, "Origin")
  BY <1>5, <1>9 DEF Mentions
<1> QED
  BY <1>5, <1>9, <1>10, <1>11 DEF Cookies

\* A preflight allows what was asked for.
LEMMA PreflightFacts ==
  ASSUME NEW req, IsPreflight(req)
  PROVE  AllowsRequest(Preflight(req), req) /\ Mentions(Preflight(req), "Origin")
<1> DEFINE named == [NoHeader EXCEPT
                       !["Allow-Origin"] = {req.origin},
                       !["Allow-Credentials"] = {"true"},
                       !["Allow-Methods"] = {req.requestMethod},
                       !["Allow-Headers"] = {req.requestHeaders} \ {None},
                       !["Allow-Private-Network"] = IF req.privateNetwork THEN {"true"} ELSE {},
                       !["Max-Age"] = {"0"}]
           names == {"Origin", "Request-Method", "Request-Headers", "Request-Private-Network"}
           answer == Preflight(req)
<1>1. answer = AddVary(named, names)
  BY DEF Preflight
<1>2. DOMAIN NoHeader = HeaderNames /\ NoHeader["Vary"] = {}
  BY DEF NoHeader, HeaderNames
<1>3. /\ DOMAIN named = HeaderNames
      /\ named["Allow-Origin"] = {req.origin} /\ named["Allow-Credentials"] = {"true"}
      /\ named["Allow-Methods"] = {req.requestMethod}
      /\ named["Allow-Headers"] = {req.requestHeaders} \ {None}
      /\ named["Allow-Private-Network"] = IF req.privateNetwork THEN {"true"} ELSE {}
      /\ named["Vary"] = {}
  BY <1>2 DEF HeaderNames, Policy
<1> HIDE DEF named
<1>4. answer = [named EXCEPT !["Vary"] = named["Vary"] \cup names]
  BY <1>1, <1>3 DEF AddVary
<1> HIDE DEF names, answer
<1>5. "Vary" \in DOMAIN named
  BY <1>3 DEF HeaderNames
<1>6. /\ answer["Vary"] = named["Vary"] \cup names
      /\ answer["Allow-Origin"] = named["Allow-Origin"]
      /\ answer["Allow-Credentials"] = named["Allow-Credentials"]
      /\ answer["Allow-Methods"] = named["Allow-Methods"]
      /\ answer["Allow-Headers"] = named["Allow-Headers"]
      /\ answer["Allow-Private-Network"] = named["Allow-Private-Network"]
  BY <1>3, <1>4, <1>5 DEF HeaderNames, Policy
<1>7. AllowsRequest(answer, req)
  BY <1>3, <1>6 DEF AllowsRequest
<1>8. Mentions(answer, "Origin")
  BY <1>3, <1>6 DEF Mentions, names
<1> QED
  BY <1>7, <1>8 DEF answer

\* What a redirect is rewritten to, and where the browser then goes.
LEMMA HandledRedirects ==
  ASSUME NEW facades, Distinct(facades), NEW url, NEW req, NEW reply \in Replies,
         NEW x, x = Handled(facades, url, req, reply),
         x.redirect \notin {None, Relative}
  PROVE  LET named == reply.location
             faced == x.upstream # url /\ named = x.upstream
         IN  /\ named.scheme = "http" => Upstream(facades, x.redirect) = named
             /\ IF faced THEN x.redirect.scheme = "https" ELSE x.redirect = named
<1> DEFINE location == reply.location
           admitting == Forward(facades, url)
           r == CHOOSE f \in admitting : TRUE
<1>1. /\ x.upstream = Upstream(facades, url)
      /\ x.redirect = IF admitting = {} THEN location ELSE RewriteResponse(r, location)
  BY DEF Handled
<1>2. location \in {None, Relative} =>
        (IF admitting = {} THEN location ELSE RewriteResponse(r, location)) = location
  BY DEF RewriteResponse
<1>3. location =
        [scheme |-> location.scheme, hostname |-> location.hostname, port |-> location.port]
  <2>1. location \in [scheme : STRING, hostname : Nat, port : Ports]
    BY <1>1, <1>2, RepliesAssumption
  <2> QED
    BY <2>1
<1>4. \A u : u.scheme = "http" => Upstream(facades, u) = u
  BY DEF Upstream, Forward
<1> HIDE DEF location
<1>5. CASE admitting = {}
  <2>1. x.upstream = url /\ x.redirect = location
    BY <1>1, <1>5 DEF Upstream
  <2> QED
    BY <1>4, <2>1 DEF location
<1>6. CASE admitting # {}
  <2>1. r \in ToSet(facades) /\ url.scheme = "https"
    BY <1>6 DEF Forward, Resolve
  <2>2. x.upstream = [scheme |-> "http", hostname |-> r.hostname, port |-> r.httpPort]
    BY <1>1, <1>6 DEF Upstream
  <2> HIDE DEF r
  <2>3. x.upstream # url
    BY <2>1, <2>2
  <2>4. CASE location.scheme = "http" /\ location.hostname = r.hostname
             /\ location.port = r.httpPort
    <3>1. location = x.upstream
      BY <1>3, <2>2, <2>4
    <3> DEFINE faced == [scheme |-> "https", hostname |-> r.hostname, port |-> r.httpsPort]
    <3>2. x.redirect = faced
      <4>1. location \notin {None, Relative}
        BY <1>1, <1>2
      <4> QED
        BY <1>1, <1>6, <2>4, <4>1 DEF RewriteResponse
    <3>3. Upstream(facades, faced) = location
      <4>1. Forward(facades, faced) = {r}
        BY <2>1 DEF Forward, Resolve, BrowserOrigin, Distinct
      <4>2. (CHOOSE f \in {r} : TRUE) = r
        OBVIOUS
      <4> HIDE DEF faced
      <4> QED
        BY <2>2, <3>1, <4>1, <4>2 DEF Upstream
    <3>4. faced.scheme = "https"
      OBVIOUS
    <3> QED
      BY <2>3, <3>1, <3>2, <3>3, <3>4 DEF location
  <2>5. CASE ~(location.scheme = "http" /\ location.hostname = r.hostname
               /\ location.port = r.httpPort)
    <3>1. x.redirect = location
      BY <1>1, <1>6, <2>5 DEF RewriteResponse, r
    <3>2. location # x.upstream
      BY <2>2, <2>5
    <3> QED
      BY <1>4, <3>1, <3>2 DEF location
  <2> QED
    BY <2>4, <2>5
<1> QED
  BY <1>5, <1>6

\* The facades that the present exchange, or the next one, goes through.
FacadesAtHand == IF session = NoSession THEN served.facades ELSE session.facades

\* Whichever handler answers, it has one facade at a browser origin, and the
\* answer that the browser has not taken is as it should be.
ExchangeInv ==
  /\ TrafficInv
  /\ Distinct(session.facades)
  /\ AnswersAreReadable
  /\ RedirectsStayOnFacade

\* A handler whose facades are distinct answers as it should.
LEMMA AnswerFacts ==
  ASSUME NEW facades, Distinct(facades), NEW url, Answer(facades, url),
         FacadesAtHand' = facades
  PROVE  AnswersAreReadable' /\ RedirectsStayOnFacade'
<1>1. PICK req \in Requests :
        \/ IsPreflight(req) /\ exchange' = Local(url, req)
        \/ ~IsPreflight(req) /\ \E reply \in Replies : exchange' = Handled(facades, url, req, reply)
        \/ ~IsPreflight(req) /\ exchange' = Failed(facades, url, req)
  BY DEF Answer
<1> DEFINE x == exchange'
           Allowed ==
             IsPreflight(x.req) => /\ AllowsRequest(x.answer, x.req)
                                   /\ Mentions(x.answer, "Origin")
                                   /\ x.upstream = None
           Undressed ==
             x.reply = None /\ ~IsPreflight(x.req) => \A n \in Policy : x.answer[n] = {}
           Readable ==
             x.reply # None =>
               /\ \A n \in Cookies \cup {"Other"} : x.answer[n] = x.reply.header[n]
               /\ IF x.req.origin = None THEN x.answer = x.reply.header
                  ELSE /\ AllowsReading(x.answer, x.req)
                       /\ Mentions(x.answer, "Origin")
                       /\ x.answer["Max-Age"] = {}
           Redirected ==
             x.redirect \notin {None, Relative} =>
               LET named == x.reply.location
                   faced == x.upstream # x.url /\ named = x.upstream
               IN  /\ named.scheme = "http" => Upstream(facades, x.redirect) = named
                   /\ IF faced THEN x.redirect.scheme = "https" ELSE x.redirect = named
<1>2. SUFFICES Allowed /\ Undressed /\ Readable /\ Redirected
  BY DEF AnswersAreReadable, RedirectsStayOnFacade, FacadesAtHand
<1>3. CASE IsPreflight(req) /\ exchange' = Local(url, req)
  BY <1>3, PreflightFacts DEF Local
<1>4. ASSUME ~IsPreflight(req), NEW reply \in Replies, exchange' = Handled(facades, url, req, reply)
      PROVE  Allowed /\ Undressed /\ Readable /\ Redirected
  <2>1. /\ x.req = req /\ x.url = url /\ x.reply = reply
        /\ x.answer = Repair(reply.header, req)
    BY <1>4 DEF Handled
  <2>2. CASE req.origin = None
    <3>1. Repair(reply.header, req) = reply.header
      BY <2>2 DEF Repair
    <3> QED
      BY <1>4, <2>1, <2>2, <3>1, HandledRedirects, RepliesAssumption
  <2>3. CASE req.origin # None
    <3>1. /\ \A n \in Cookies \cup {"Other"} : x.answer[n] = reply.header[n]
          /\ AllowsReading(x.answer, req) /\ Mentions(x.answer, "Origin")
          /\ x.answer["Max-Age"] = {}
      BY <1>4, <2>1, <2>3, RepairFacts
    <3> QED
      BY <1>4, <2>1, <2>3, <3>1, HandledRedirects, RepliesAssumption
  <2> QED
    BY <2>2, <2>3
<1>5. CASE ~IsPreflight(req) /\ exchange' = Failed(facades, url, req)
  BY <1>5 DEF Failed, NoHeader, HeaderNames
<1> QED
  BY <1>1, <1>3, <1>4, <1>5

\* Before the first request there is no answer.
LEMMA InitExchangeInv ==
  ASSUME Init
  PROVE  ExchangeInv
<1>1. Distinct(<<>>)
  BY DEF Distinct, ToSet
<1> QED
  BY <1>1, InitTrafficInv
  DEF Init, NoSession, ExchangeInv, AnswersAreReadable, RedirectsStayOnFacade

\* While an answer waits to be taken, the handler that gave it stays at hand.
LEMMA NextKeepsExchangeInv ==
  ASSUME ExchangeInv, [Next]_vars
  PROVE  ExchangeInv'
<1>1. TrafficInv'
  BY NextKeepsTrafficInv DEF ExchangeInv
<1>2. Distinct(<<>>)
  BY DEF Distinct, ToSet
<1>3. ASSUME exchange' = None, session'.facades \in {session.facades, served.facades, <<>>}
      PROVE  ExchangeInv'
  <2>1. Distinct(session'.facades)
    BY <1>2, <1>3 DEF ExchangeInv, TrafficInv
  <2> QED
    BY <1>1, <1>3, <2>1 DEF ExchangeInv, AnswersAreReadable, RedirectsStayOnFacade, Distinct
<1>4. ASSUME NEW facades, Distinct(facades), NEW url, Answer(facades, url),
             FacadesAtHand = facades, UNCHANGED <<trafficVars, session>>
      PROVE  ExchangeInv'
  <2>1. FacadesAtHand' = facades
    BY <1>4 DEF FacadesAtHand, trafficVars
  <2>2. AnswersAreReadable' /\ RedirectsStayOnFacade'
    BY <1>4, <2>1, AnswerFacts
  <2> QED
    BY <1>1, <1>4, <2>2 DEF ExchangeInv, Distinct
<1>5. CASE Runtime
  BY <1>3, <1>5 DEF Runtime
<1>6. ASSUME NEW url, Tunnel(url) \/ Intercept(url) PROVE ExchangeInv'
  <2>1. CASE Tunnel(url)
    <3>1. session'.facades = <<>> /\ exchange' = None
      BY <2>1 DEF Tunnel, NoSession
    <3> QED
      BY <1>3, <3>1
  <2>2. CASE Intercept(url)
    <3>1. session'.facades = served.facades /\ exchange' = None
      BY <2>2 DEF Intercept
    <3> QED
      BY <1>3, <3>1
  <2> QED
    BY <1>6, <2>1, <2>2
<1>7. CASE InterceptedRequest
  <2>1. session # NoSession
    BY <1>7 DEF InterceptedRequest, NoSession
  <2> QED
    BY <1>4, <1>7, <2>1 DEF InterceptedRequest, ExchangeInv, FacadesAtHand
<1>8. ASSUME NEW url, PlainRequest(url) PROVE ExchangeInv'
  BY <1>4, <1>8 DEF PlainRequest, ExchangeInv, TrafficInv, FacadesAtHand
<1>9. CASE Taken
  BY <1>3, <1>9 DEF Taken
<1>10. CASE Disconnect
  BY <1>3, <1>10 DEF Disconnect, NoSession
<1>11. CASE UNCHANGED vars
  BY <1>1, <1>11
  DEF vars, trafficVars, ExchangeInv, AnswersAreReadable, RedirectsStayOnFacade, Distinct
<1> QED
  BY <1>5, <1>6, <1>7, <1>8, <1>9, <1>10, <1>11 DEF Next

\* Every answer is as it should be, at all times.
LEMMA ExchangeInvHolds == Spec => []ExchangeInv
<1>1. Init => ExchangeInv
  BY InitExchangeInv
<1> QED
  BY <1>1, NextKeepsExchangeInv, PTL DEF Spec

\* Every page may read what upstream answers it and send what it asks to send,
\* whatever policy upstream sent along (cors.go, and the hooks in proxy.go).
THEOREM AnswersAlwaysReadable == Spec => []AnswersAreReadable
<1>1. ExchangeInv => AnswersAreReadable
  BY DEF ExchangeInv
<1> QED
  BY <1>1, ExchangeInvHolds, PTL

\* A redirect through a facade leads where upstream sent it and keeps to the
\* session's HTTPS origin; another is not touched (RewriteResponse).
THEOREM RedirectsAlwaysStay == Spec => []RedirectsStayOnFacade
<1>1. ExchangeInv => RedirectsStayOnFacade
  BY DEF ExchangeInv
<1> QED
  BY <1>1, ExchangeInvHolds, PTL
=============================================================================
