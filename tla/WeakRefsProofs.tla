----------------------------- MODULE WeakRefsProofs -----------------------------
(***************************************************************************)
(* Proofs about WeakRefs: the inductive invariant Inv, what it says of the *)
(* heap, the collector and the table of weak references, and the action    *)
(* properties about the death of a weak reference, for any set of objects. *)
(***************************************************************************)
EXTENDS WeakRefs, SequenceTheorems, FiniteSetTheorems, TLAPS

------------------------------------------------------------------------------
(* Natural numbers: least elements, and functions by iteration.            *)

(* A set of natural numbers that has an element has a least one. *)
LEMMA LeastNat ==
  ASSUME NEW T \in SUBSET Nat, T # {}
  PROVE  \E m \in T : \A k \in T : m <= k
<1>1. IsWellFoundedOn(OpToRel(<, Nat), Nat)
  BY NatLessThanWellFounded
<1>2. PICK m \in T : \A k \in T : ~ (<<k, m>> \in OpToRel(<, Nat))
  BY <1>1, WFMin
<1>3. \A k \in T : ~ (k < m)
  BY <1>2 DEF OpToRel
<1> QED BY <1>3

(* Induction up to n, for a set of numbers. *)
LEMMA UpTo ==
  ASSUME NEW n \in Nat, NEW T, 0 \in T,
         \A k \in 1 .. n : k - 1 \in T => k \in T
  PROVE  0 .. n \subseteq T
<1>1. SUFFICES ASSUME (0 .. n) \ T # {} PROVE FALSE
  OBVIOUS
<1> DEFINE R == (0 .. n) \ T
<1>2. PICK m \in R : \A k \in R : m <= k
  <2>1. R \in SUBSET Nat /\ R # {}
    BY <1>1
  <2> HIDE DEF R
  <2> QED BY <2>1, LeastNat
<1>3. m \in 1 .. n /\ m - 1 \in 0 .. n
  BY <1>2
<1>4. m - 1 \in T
  BY <1>2, <1>3
<1> QED BY <1>2, <1>3, <1>4

------------------------------------------------------------------------------
(* Lists without duplicates: the set of their elements.                    *)

LEMMA ConsList ==
  ASSUME NEW S, NEW s \in Seq(S), NEW i \in S
  PROVE  /\ <<i>> \o s \in Seq(S)
         /\ ToSet(<<i>> \o s) = {i} \cup ToSet(s)
         /\ IsInjective(s) /\ i \notin ToSet(s) => IsInjective(<<i>> \o s)
<1>1. /\ <<i>> \in Seq(S) /\ Len(<<i>>) = 1 /\ <<i>>[1] = i
      /\ Len(s) \in Nat /\ DOMAIN s = 1 .. Len(s)
  OBVIOUS
<1> DEFINE c == <<i>> \o s
<1>2. c \in Seq(S) /\ Len(c) = 1 + Len(s) /\ DOMAIN c = 1 .. 1 + Len(s)
  BY <1>1, ConcatProperties
<1>3. c[1] = i /\ \A k \in 1 .. Len(s) : c[k + 1] = s[k]
  BY <1>1, ConcatProperties
<1>4. \A k \in 1 .. 1 + Len(s) : k = 1 \/ (k - 1 \in 1 .. Len(s) /\ c[k] = s[k - 1])
  <2> SUFFICES ASSUME NEW k \in 1 .. 1 + Len(s), k # 1
               PROVE  k - 1 \in 1 .. Len(s) /\ c[k] = s[k - 1]
    OBVIOUS
  <2>1. k - 1 \in 1 .. Len(s) /\ (k - 1) + 1 = k
    BY <1>1
  <2> QED BY <1>3, <2>1
<1> HIDE DEF c
<1>5. ToSet(c) = {i} \cup ToSet(s)
  <2>1. ToSet(c) \subseteq {i} \cup ToSet(s)
    <3> SUFFICES ASSUME NEW k \in 1 .. 1 + Len(s)
                 PROVE  c[k] \in {i} \cup ToSet(s)
      BY <1>2 DEF ToSet
    <3> QED BY <1>1, <1>3, <1>4 DEF ToSet
  <2>2. i \in ToSet(c)
    BY <1>1, <1>2, <1>3 DEF ToSet
  <2>3. \A k \in 1 .. Len(s) : k + 1 \in 1 .. 1 + Len(s)
    BY <1>1
  <2>4. ToSet(s) \subseteq ToSet(c)
    BY <1>1, <1>2, <1>3, <2>3 DEF ToSet
  <2> QED BY <2>1, <2>2, <2>4
<1>6. ASSUME IsInjective(s), i \notin ToSet(s)
      PROVE  IsInjective(c)
  <2> SUFFICES ASSUME NEW j \in 1 .. 1 + Len(s), NEW k \in 1 .. 1 + Len(s), c[j] = c[k]
               PROVE  j = k
    BY <1>2 DEF IsInjective
  <2>1. \A l \in 1 .. Len(s) : s[l] # i
    BY <1>1, <1>6 DEF ToSet
  <2>2. CASE j = 1 \/ k = 1
    BY <1>3, <1>4, <2>1, <2>2
  <2>3. CASE j # 1 /\ k # 1
    <3>1. s[j - 1] = s[k - 1] /\ j - 1 \in 1 .. Len(s) /\ k - 1 \in 1 .. Len(s)
      BY <1>4, <2>3
    <3>2. j - 1 = k - 1
      BY <1>1, <1>6, <3>1 DEF IsInjective
    <3> QED BY <3>2
  <2> QED BY <2>2, <2>3
<1> QED BY <1>2, <1>5, <1>6 DEF c

LEMMA TailList ==
  ASSUME NEW S, NEW s \in Seq(S), s # <<>>
  PROVE  /\ Head(s) \in S /\ Head(s) \in ToSet(s) /\ Tail(s) \in Seq(S)
         /\ ToSet(s) = {Head(s)} \cup ToSet(Tail(s))
         /\ IsInjective(s) => /\ IsInjective(Tail(s))
                              /\ ToSet(Tail(s)) = ToSet(s) \ {Head(s)}
<1> DEFINE t == Tail(s)
<1>1. /\ Len(s) \in Nat \ {0} /\ DOMAIN s = 1 .. Len(s) /\ Head(s) = s[1]
      /\ t \in Seq(S) /\ DOMAIN t = 1 .. Len(s) - 1
      /\ \A k \in 1 .. Len(s) - 1 : t[k] = s[k + 1]
  BY HeadTailProperties, EmptySeq
<1>2. Head(s) \in S /\ Head(s) \in ToSet(s)
  BY <1>1 DEF ToSet
<1> HIDE DEF t
<1>3. \A k \in 1 .. Len(s) - 1 : k + 1 \in 1 .. Len(s)
  BY <1>1
<1>4. ToSet(t) \subseteq ToSet(s)
  BY <1>1, <1>3 DEF ToSet
<1>5. ASSUME NEW k \in 1 .. Len(s)
      PROVE  s[k] = Head(s) \/ s[k] \in ToSet(t)
  <2>1. CASE k = 1
    BY <1>1, <2>1
  <2>2. CASE k # 1
    <3>1. k - 1 \in 1 .. Len(s) - 1 /\ t[k - 1] = s[(k - 1) + 1] /\ (k - 1) + 1 = k
      BY <1>1, <2>2
    <3> QED BY <1>1, <3>1 DEF ToSet
  <2> QED BY <2>1, <2>2
<1>6. ToSet(s) = {Head(s)} \cup ToSet(t)
  BY <1>1, <1>2, <1>4, <1>5 DEF ToSet
<1>7. ASSUME IsInjective(s)
      PROVE  IsInjective(t) /\ Head(s) \notin ToSet(t)
  <2>1. Head(s) \notin ToSet(t)
    <3> SUFFICES ASSUME NEW k \in 1 .. Len(s) - 1, t[k] = s[1]
                 PROVE  FALSE
      BY <1>1 DEF ToSet
    <3>1. k + 1 = 1
      BY <1>1, <1>3, <1>7 DEF IsInjective
    <3> QED BY <3>1
  <2>2. ASSUME NEW j \in 1 .. Len(s) - 1, NEW k \in 1 .. Len(s) - 1, t[j] = t[k]
        PROVE  j = k
    <3>1. j + 1 = k + 1
      BY <1>1, <1>3, <1>7, <2>2 DEF IsInjective
    <3> QED BY <3>1
  <2> QED BY <1>1, <2>1, <2>2 DEF IsInjective
<1> QED BY <1>1, <1>2, <1>6, <1>7 DEF t

LEMMA ConcatList ==
  ASSUME NEW S, NEW s \in Seq(S), NEW t \in Seq(S)
  PROVE  /\ s \o t \in Seq(S) /\ Len(s \o t) = Len(s) + Len(t)
         /\ ToSet(s \o t) = ToSet(s) \cup ToSet(t)
         /\ IsInjective(s) /\ IsInjective(t) /\ ToSet(s) \cap ToSet(t) = {} => IsInjective(s \o t)
<1> DEFINE c == s \o t
<1>1. Len(s) \in Nat /\ Len(t) \in Nat /\ DOMAIN s = 1 .. Len(s) /\ DOMAIN t = 1 .. Len(t)
  OBVIOUS
<1>2. /\ c \in Seq(S) /\ Len(c) = Len(s) + Len(t) /\ DOMAIN c = 1 .. Len(s) + Len(t)
      /\ \A k \in 1 .. Len(s) + Len(t) : c[k] = IF k <= Len(s) THEN s[k] ELSE t[k - Len(s)]
  BY <1>1, ConcatProperties
<1> HIDE DEF c
<1>3. \A k \in 1 .. Len(s) : k \in 1 .. Len(s) + Len(t) /\ c[k] = s[k]
  BY <1>1, <1>2
<1>4. ASSUME NEW k \in 1 .. Len(t)
      PROVE  Len(s) + k \in 1 .. Len(s) + Len(t) /\ c[Len(s) + k] = t[k]
  BY <1>1, <1>2
<1>5. ASSUME NEW k \in 1 .. Len(s) + Len(t)
      PROVE  \/ k \in 1 .. Len(s)
             \/ k - Len(s) \in 1 .. Len(t) /\ k = Len(s) + (k - Len(s))
  BY <1>1
<1>6. ToSet(c) = ToSet(s) \cup ToSet(t)
  <2>1. \A k \in 1 .. Len(s) + Len(t) : c[k] \in ToSet(s) \cup ToSet(t)
    BY <1>1, <1>3, <1>4, <1>5 DEF ToSet
  <2>2. ToSet(c) \subseteq ToSet(s) \cup ToSet(t)
    BY <1>2, <2>1 DEF ToSet
  <2>3. ToSet(s) \subseteq ToSet(c)
    BY <1>1, <1>2, <1>3 DEF ToSet
  <2>4. ToSet(t) \subseteq ToSet(c)
    BY <1>1, <1>2, <1>4 DEF ToSet
  <2> QED BY <2>2, <2>3, <2>4
<1>7. ASSUME IsInjective(s), IsInjective(t), ToSet(s) \cap ToSet(t) = {}
      PROVE  IsInjective(c)
  <2> SUFFICES ASSUME NEW j \in 1 .. Len(s) + Len(t), NEW k \in 1 .. Len(s) + Len(t), c[j] = c[k]
               PROVE  j = k
    BY <1>2 DEF IsInjective
  <2>1. \A l \in 1 .. Len(s) : s[l] \in ToSet(s)
    BY <1>1 DEF ToSet
  <2>2. \A l \in 1 .. Len(t) : t[l] \in ToSet(t)
    BY <1>1 DEF ToSet
  <2>3. CASE j \in 1 .. Len(s) /\ k \in 1 .. Len(s)
    BY <1>1, <1>3, <1>7, <2>3 DEF IsInjective
  <2>4. CASE j \notin 1 .. Len(s) /\ k \notin 1 .. Len(s)
    <3>1. /\ j - Len(s) \in 1 .. Len(t) /\ k - Len(s) \in 1 .. Len(t)
          /\ t[j - Len(s)] = t[k - Len(s)]
      <4>1. /\ j - Len(s) \in 1 .. Len(t) /\ Len(s) + (j - Len(s)) = j
            /\ k - Len(s) \in 1 .. Len(t) /\ Len(s) + (k - Len(s)) = k
        BY <1>5, <2>4
      <4> QED BY <1>4, <4>1
    <3>2. j - Len(s) = k - Len(s)
      BY <1>1, <1>7, <3>1 DEF IsInjective
    <3> QED BY <1>1, <3>2
  <2>5. ASSUME NEW l \in 1 .. Len(s) + Len(t)
        PROVE  /\ l \in 1 .. Len(s) => c[l] \in ToSet(s)
               /\ l \notin 1 .. Len(s) => c[l] \in ToSet(t)
    <3>1. CASE l \in 1 .. Len(s)
      BY <1>3, <2>1, <3>1
    <3>2. CASE l \notin 1 .. Len(s)
      <4>1. l - Len(s) \in 1 .. Len(t) /\ Len(s) + (l - Len(s)) = l
        BY <1>5, <3>2
      <4> QED BY <1>4, <2>2, <3>2, <4>1
    <3> QED BY <3>1, <3>2
  <2>6. CASE ~ (j \in 1 .. Len(s) <=> k \in 1 .. Len(s))
    BY <1>7, <2>5, <2>6
  <2> QED BY <2>3, <2>4, <2>6
<1> QED BY <1>2, <1>6, <1>7 DEF c

LEMMA ReverseList ==
  ASSUME NEW S, NEW s \in Seq(S)
  PROVE  /\ Reverse(s) \in Seq(S)
         /\ ToSet(Reverse(s)) = ToSet(s)
         /\ IsInjective(s) => IsInjective(Reverse(s))
<1> DEFINE n == Len(s)
           r == Reverse(s)
<1>1. n \in Nat /\ DOMAIN s = 1 .. n /\ \A k \in 1 .. n : s[k] \in S
  OBVIOUS
<1> HIDE DEF n
<1>2. \A k \in 1 .. n : (n - k) + 1 \in 1 .. n /\ (n - ((n - k) + 1)) + 1 = k
  BY <1>1
<1>3. r = [k \in 1 .. n |-> s[(n - k) + 1]]
  BY DEF Reverse, n
<1>4. r \in Seq(S) /\ DOMAIN r = 1 .. n /\ \A k \in 1 .. n : r[k] = s[(n - k) + 1]
  <2>1. r \in [1 .. n -> S]
    BY <1>1, <1>2, <1>3
  <2> QED BY <1>1, <1>3, <2>1
<1> HIDE DEF r
<1>5. \A k \in 1 .. n : s[k] = r[(n - k) + 1]
  BY <1>2, <1>4
<1>6. ToSet(r) = ToSet(s)
  <2>1. ToSet(r) = {r[k] : k \in 1 .. n} /\ ToSet(s) = {s[k] : k \in 1 .. n}
    BY <1>1, <1>4 DEF ToSet
  <2>2. \A k \in 1 .. n : \E l \in 1 .. n : r[k] = s[l]
    BY <1>2, <1>4
  <2>3. \A k \in 1 .. n : \E l \in 1 .. n : s[k] = r[l]
    BY <1>2, <1>5
  <2> QED BY <2>1, <2>2, <2>3
<1>7. ASSUME IsInjective(s), NEW j \in 1 .. n, NEW k \in 1 .. n, r[j] = r[k]
      PROVE  j = k
  <2>1. (n - j) + 1 = (n - k) + 1
    BY <1>1, <1>2, <1>4, <1>7 DEF IsInjective
  <2> QED BY <1>1, <2>1
<1> QED BY <1>4, <1>6, <1>7 DEF IsInjective, r

(* Selected keeps the elements in S, once if they were there once. *)
LEMMA SelectedList ==
  ASSUME NEW E, NEW s \in Seq(E), NEW S
  PROVE  /\ Selected(s, S) \in Seq(E)
         /\ ToSet(Selected(s, S)) = ToSet(s) \cap S
         /\ IsInjective(s) => IsInjective(Selected(s, S))
<1> DEFINE n == Len(s)
           At == {k \in DOMAIN s : s[k] \in S}
           c == Cardinality(At)
           Below(k) == {l \in At : l <= k}
           rank == [k \in At |-> Cardinality(Below(k))]
           at(j) == CHOOSE k \in At : Cardinality(Below(k)) = j
           r == Selected(s, S)
<1>1. n \in Nat /\ DOMAIN s = 1 .. n /\ \A k \in 1 .. n : s[k] \in E
  OBVIOUS
<1>2. At \subseteq 1 .. n /\ \A k \in At : k \in Int /\ s[k] \in S
  BY <1>1
<1>3. IsFiniteSet(At) /\ c \in Nat
  <2> HIDE DEF At, n
  <2>1. IsFiniteSet(1 .. n)
    BY <1>1, FS_Interval
  <2> QED BY <1>2, <2>1, FS_Subset, FS_CardinalityType
<1>4. r = [j \in 1 .. c |-> s[at(j)]]
  BY DEF Selected
<1>5. ToSet(s) \cap S = {s[k] : k \in At}
  BY <1>1 DEF ToSet
<1>6. \A k \in At : s[k] \in E
  BY <1>1, <1>2
<1> HIDE DEF At, r
<1>7. ASSUME NEW k \in At
      PROVE  rank[k] = Cardinality(Below(k)) /\ rank[k] \in 1 .. c
  <2>1. Below(k) \in SUBSET At /\ k \in Below(k)
    BY <1>2
  <2> HIDE DEF Below
  <2>2. IsFiniteSet(Below(k)) /\ Cardinality(Below(k)) <= c /\ Cardinality(Below(k)) \in Nat
    BY <1>3, <2>1, FS_Subset, FS_CardinalityType
  <2>3. Cardinality(Below(k)) # 0
    BY <2>1, <2>2, FS_EmptySet
  <2> QED BY <1>3, <2>2, <2>3
<1>8. ASSUME NEW j \in At, NEW k \in At, j < k
      PROVE  rank[j] # rank[k]
  <2>1. Below(j) \in SUBSET Below(k) /\ k \in Below(k) /\ k \notin Below(j) /\ Below(k) \in SUBSET At
    <3>1. j \in Int /\ k \in Int /\ j < k
      BY <1>2, <1>8
    <3>2. \A l \in At : l \in Int /\ (l <= j => l <= k)
      BY <1>2, <3>1
    <3>3. Below(j) \subseteq Below(k)
      BY <3>2
    <3>4. k \in Below(k) /\ k \notin Below(j) /\ Below(k) \subseteq At
      BY <3>1
    <3> QED BY <3>3, <3>4
  <2>2. rank[j] = Cardinality(Below(j)) /\ rank[k] = Cardinality(Below(k))
    BY <1>7
  <2> HIDE DEF Below, rank
  <2>3. IsFiniteSet(Below(k))
    BY <1>3, <2>1, FS_Subset
  <2> QED BY <2>1, <2>2, <2>3, FS_Subset
<1>9. rank \in Injection(At, 1 .. c)
  <2>1. rank \in [At -> 1 .. c]
    BY <1>7
  <2>2. \A j, k \in At : rank[j] = rank[k] => j = k
    <3> SUFFICES ASSUME NEW j \in At, NEW k \in At, rank[j] = rank[k] PROVE j = k
      OBVIOUS
    <3>1. j < k \/ k < j \/ j = k
      BY <1>2
    <3> HIDE DEF rank
    <3> QED BY <1>8, <3>1
  <2> HIDE DEF rank
  <2> QED BY <2>1, <2>2 DEF Injection, IsInjective
<1>10. \A j \in 1 .. c : \E k \in At : rank[k] = j
  <2>1. IsFiniteSet(1 .. c) /\ Cardinality(1 .. c) = c
    BY <1>3, FS_Interval
  <2> HIDE DEF rank, c
  <2>2. (Cardinality(At) = Cardinality(1 .. c)) <=> rank \in Surjection(At, 1 .. c)
    BY <1>9, <2>1, FS_Injection
  <2>3. rank \in Surjection(At, 1 .. c)
    BY <2>1, <2>2 DEF c
  <2> QED BY <2>3 DEF Surjection
<1>11. ASSUME NEW j \in 1 .. c
       PROVE  at(j) \in At /\ rank[at(j)] = j
  <2>1. PICK k \in At : rank[k] = j
    BY <1>10
  <2>2. Cardinality(Below(k)) = j
    BY <1>7, <2>1
  <2>3. at(j) \in At /\ Cardinality(Below(at(j))) = j
    <3> HIDE DEF Below
    <3> QED BY <2>2
  <2> HIDE DEF at, Below, rank
  <2> QED BY <1>7, <2>3
<1>12. ASSUME NEW k \in At
       PROVE  at(rank[k]) = k
  <2>1. rank[k] \in 1 .. c
    BY <1>7
  <2> HIDE DEF at, rank
  <2>2. at(rank[k]) \in At /\ rank[at(rank[k])] = rank[k]
    BY <1>11, <2>1
  <2> QED BY <1>9, <2>2 DEF Injection, IsInjective
<1> HIDE DEF at, rank, c
<1>13. r \in Seq(E) /\ DOMAIN r = 1 .. c /\ \A j \in 1 .. c : r[j] = s[at(j)]
  <2>1. r \in [1 .. c -> E]
    BY <1>4, <1>6, <1>11
  <2> QED BY <1>3, <1>4, <2>1
<1>14. ToSet(r) = {s[k] : k \in At}
  <2>1. ToSet(r) = {r[j] : j \in 1 .. c}
    BY <1>13 DEF ToSet
  <2>2. \A j \in 1 .. c : r[j] \in {s[k] : k \in At}
    BY <1>11, <1>13
  <2>3. \A k \in At : \E j \in 1 .. c : s[k] = r[j]
    BY <1>7, <1>12, <1>13
  <2> QED BY <2>1, <2>2, <2>3
<1>15. ASSUME IsInjective(s), NEW i \in 1 .. c, NEW j \in 1 .. c, r[i] = r[j]
       PROVE  i = j
  <2>1. at(i) \in DOMAIN s /\ at(j) \in DOMAIN s /\ s[at(i)] = s[at(j)]
    BY <1>1, <1>2, <1>11, <1>13, <1>15
  <2>2. at(i) = at(j)
    BY <1>15, <2>1 DEF IsInjective
  <2> QED BY <1>11, <2>2
<1> QED BY <1>5, <1>13, <1>14, <1>15 DEF r, IsInjective

------------------------------------------------------------------------------
(* What can be reached.                                                    *)

(* A closed set that holds the roots holds what can be reached. *)
LEMMA ReachWithin ==
  ASSUME NEW S, NEW next, NEW C \in SUBSET Objects,
         S \subseteq C, \A y \in C : next[y] \subseteq C
  PROVE  Reach(S, next) \subseteq C
BY DEF Reach

(* What can be reached is such a set. *)
LEMMA ReachClosed ==
  ASSUME NEW S \in SUBSET Objects, NEW next \in [Objects -> SUBSET Objects]
  PROVE  /\ S \subseteq Reach(S, next) /\ Reach(S, next) \subseteq Objects
         /\ \A y \in Reach(S, next) : next[y] \subseteq Reach(S, next)
BY DEF Reach

------------------------------------------------------------------------------
(* PreHandleWeakRefs.                                                      *)

WalkState == [moved : SUBSET Objects, marka : SUBSET Objects]

(* A set that is isolated stays so when more is moved. *)
LEMMA IsolatedMonotone ==
  ASSUME NEW w, NEW M, NEW N, M \subseteq N, Isolated(w, M)
  PROVE  Isolated(w, N)
<1>1. PICK F \in SUBSET Objects : /\ w \in F /\ F \cap weak \subseteq M \cup {w}
                                  /\ \A y \in F \ M : refs[y] \subseteq F \cup M
  BY DEF Isolated
<1> SUFFICES /\ w \in F /\ F \cap weak \subseteq N \cup {w}
             /\ \A y \in F \ N : refs[y] \subseteq F \cup N
  BY DEF Isolated
<1> QED BY <1>1

LEMMA WalkType ==
  ASSUME NEW walk \in WalkState, NEW i
  PROVE  WeakWalk(walk, i) \in WalkState
<1>1. \A S, next : Reach(S, next) \subseteq Objects
  BY DEF Reach
<1> QED BY <1>1 DEF WeakWalk, WalkState

(* WeakWalk1 and 2 leave the object they start from isolated, and with it  *)
(* those of the entries before.                                            *)
LEMMA WalkStep ==
  ASSUME refs \in [Objects -> SUBSET Objects], heap \subseteq Objects,
         \A x \in heap : refs[x] \subseteq heap,
         NEW walk \in WalkState, NEW i, NEW R,
         weakTable[i].r \in heap, weakTable[i].p = "NIL" \/ weakTable[i].r \in weak,
         walk.moved \subseteq heap,
         walk.marka \cap weak \subseteq R,
         \A w \in R : w \in walk.moved \/ Isolated(w, walk.moved)
  PROVE  LET next == WeakWalk(walk, i)
             N    == IF weakTable[i].p = "NIL" THEN R ELSE R \cup {weakTable[i].r}
         IN  /\ walk.moved \subseteq next.moved /\ next.moved \subseteq heap
             /\ next.marka \cap weak \subseteq N
             /\ \A w \in N : w \in next.moved \/ Isolated(w, next.moved)
<1> DEFINE r == weakTable[i].r
           Stop == walk.moved \cup walk.marka \cup (weak \ {r})
           nxt == [x \in Objects |-> IF x \in Stop THEN {} ELSE refs[x]]
           Found == Reach({r}, nxt)
           N == IF weakTable[i].p = "NIL" THEN R ELSE R \cup {r}
           M2 == walk.moved \cup (Found \cap Stop)
           A2 == walk.marka \cup (Found \ Stop)
<1>1. CASE weakTable[i].p = "NIL"
  BY <1>1 DEF WeakWalk
<1>2. CASE weakTable[i].p # "NIL" /\ r \in walk.moved
  BY <1>2 DEF WeakWalk
<1>3. CASE weakTable[i].p # "NIL" /\ r \notin walk.moved /\ r \in walk.marka
  <2>1. WeakWalk(walk, i) = walk /\ N = R \cup {r}
    BY <1>3 DEF WeakWalk
  <2>2. r \in R
    BY <1>3
  <2> QED BY <2>1, <2>2
<1>4. CASE weakTable[i].p # "NIL" /\ r \notin walk.moved \cup walk.marka
  <2>1. WeakWalk(walk, i) = [moved |-> M2, marka |-> A2] /\ N = R \cup {r}
    BY <1>4 DEF WeakWalk
  <2>2. r \in Objects /\ nxt \in [Objects -> SUBSET Objects]
    OBVIOUS
  <2>3. /\ r \in Found /\ Found \subseteq Objects
        /\ \A y \in Found : nxt[y] \subseteq Found
    <3> HIDE DEF nxt, r
    <3> QED BY <2>2, ReachClosed
  <2>4. Found \subseteq heap
    <3>1. \A y \in heap : nxt[y] \subseteq heap
      OBVIOUS
    <3> HIDE DEF nxt
    <3> QED BY <3>1, ReachWithin
  <2>5. \A y \in Found \ Stop : refs[y] \subseteq Found
    BY <2>3
  <2> HIDE DEF Found, nxt
  <2>6. Isolated(r, M2)
    <3> SUFFICES /\ r \in Found /\ Found \cap weak \subseteq M2 \cup {r}
                 /\ \A y \in Found \ M2 : refs[y] \subseteq Found \cup M2
      BY <2>3 DEF Isolated
    <3> QED BY <2>3, <2>5
  <2>7. \A w \in R : w \in M2 \/ Isolated(w, M2)
    <3>1. walk.moved \subseteq M2
      OBVIOUS
    <3> HIDE DEF M2
    <3> QED BY <3>1, IsolatedMonotone
  <2>8. walk.moved \subseteq M2 /\ M2 \subseteq heap /\ A2 \cap weak \subseteq R \cup {r}
    BY <2>4
  <2> HIDE DEF M2, A2, r, N
  <2> QED BY <2>1, <2>6, <2>7, <2>8 DEF r, N
<1> QED BY <1>1, <1>2, <1>3, <1>4

(* There is a function as Walks is defined. *)
LEMMA WalksExist ==
  ASSUME moved \subseteq Objects, weakLive \in Seq(Indices)
  PROVE  \E f \in [0 .. Len(weakLive) -> WalkState] :
           /\ f[0] = [moved |-> moved, marka |-> {}]
           /\ \A k \in 1 .. Len(weakLive) : f[k] = WeakWalk(f[k - 1], weakLive[k])
<1> DEFINE n == Len(weakLive)
           b == [moved |-> moved, marka |-> {}]
           Good(m) == \E f \in [0 .. m -> WalkState] :
                        /\ f[0] = b
                        /\ \A k \in 1 .. m : f[k] = WeakWalk(f[k - 1], weakLive[k])
           T == {m \in 0 .. n : Good(m)}
<1>0. n \in Nat /\ b \in WalkState
  BY DEF WalkState
<1> HIDE DEF n, b
<1>1. 0 \in T
  <2>1. [k \in 0 .. 0 |-> b] \in [0 .. 0 -> WalkState] /\ [k \in 0 .. 0 |-> b][0] = b
    BY <1>0
  <2>2. \A k \in 1 .. 0 : FALSE
    OBVIOUS
  <2>3. Good(0)
    <3> DEFINE f == [k \in 0 .. 0 |-> b]
    <3>1. f \in [0 .. 0 -> WalkState] /\ f[0] = b
      BY <2>1
    <3> HIDE DEF f
    <3> QED BY <2>2, <3>1
  <2> HIDE DEF Good
  <2> QED BY <1>0, <2>3
<1>2. ASSUME NEW m \in 1 .. n, m - 1 \in T
      PROVE  m \in T
  <2>1. PICK f \in [0 .. m - 1 -> WalkState] :
          f[0] = b /\ \A k \in 1 .. m - 1 : f[k] = WeakWalk(f[k - 1], weakLive[k])
    BY <1>2
  <2> DEFINE g == [k \in 0 .. m |-> IF k = m THEN WeakWalk(f[m - 1], weakLive[m]) ELSE f[k]]
  <2>2. WeakWalk(f[m - 1], weakLive[m]) \in WalkState
    BY <2>1, WalkType
  <2>3. g \in [0 .. m -> WalkState] /\ g[0] = b
    BY <2>1, <2>2
  <2>4. ASSUME NEW k \in 1 .. m
        PROVE  g[k] = WeakWalk(g[k - 1], weakLive[k])
    <3>1. k - 1 \in 0 .. m - 1 /\ k - 1 # m /\ g[k - 1] = f[k - 1]
      OBVIOUS
    <3>2. CASE k = m
      BY <3>1, <3>2
    <3>3. CASE k # m
      BY <2>1, <3>1, <3>3
    <3> QED BY <3>2, <3>3
  <2>5. Good(m)
    <3> HIDE DEF g
    <3> QED BY <2>3, <2>4
  <2> HIDE DEF Good
  <2> QED BY <2>5
<1> HIDE DEF T
<1>3. 0 .. n \subseteq T
  BY <1>0, <1>1, <1>2, UpTo
<1>4. n \in T
  BY <1>0, <1>3
<1>5. Good(n)
  BY <1>4 DEF T
<1> QED BY <1>5 DEF n, b

(* Walks is the function its definition describes. *)
LEMMA WalksFunction ==
  ASSUME moved \subseteq Objects, weakLive \in Seq(Indices)
  PROVE  /\ Walks \in [0 .. Len(weakLive) -> WalkState]
         /\ Walks[0] = [moved |-> moved, marka |-> {}]
         /\ \A k \in 1 .. Len(weakLive) : Walks[k] = WeakWalk(Walks[k - 1], weakLive[k])
<1> DEFINE n == Len(weakLive)
           b == [moved |-> moved, marka |-> {}]
           G(f) == [k \in 0 .. n |-> IF k = 0 THEN b ELSE WeakWalk(f[k - 1], weakLive[k])]
<1>1. n \in Nat /\ b \in WalkState
  BY DEF WalkState
<1> HIDE DEF b
<1>2. PICK f \in [0 .. n -> WalkState] :
        /\ f[0] = b
        /\ \A k \in 1 .. n : f[k] = WeakWalk(f[k - 1], weakLive[k])
  BY WalksExist DEF b
<1>3. f = G(f)
  <2>1. \A k \in 0 .. n : f[k] = IF k = 0 THEN b ELSE WeakWalk(f[k - 1], weakLive[k])
    <3> SUFFICES ASSUME NEW k \in 0 .. n, k # 0 PROVE k \in 1 .. n
      BY <1>2
    <3> QED BY <1>1
  <2> QED BY <1>2, <2>1
<1>4. Walks = CHOOSE g : g = G(g)
  BY DEF Walks, b
<1>5. Walks = G(Walks)
  <2> HIDE DEF G
  <2> QED BY <1>3, <1>4
<1>6. Walks[0] = b /\ DOMAIN Walks = 0 .. n
  BY <1>1, <1>5
<1>7. \A k \in 1 .. n : Walks[k] = WeakWalk(Walks[k - 1], weakLive[k])
  <2> SUFFICES ASSUME NEW k \in 1 .. n PROVE Walks[k] = WeakWalk(Walks[k - 1], weakLive[k])
    OBVIOUS
  <2>1. k \in 0 .. n /\ k # 0
    BY <1>1
  <2> QED BY <1>5, <2>1
<1> DEFINE T == {k \in 0 .. n : Walks[k] \in WalkState}
<1>8. 0 .. n \subseteq T
  <2>1. 0 \in T
    BY <1>1, <1>6
  <2>2. ASSUME NEW k \in 1 .. n, k - 1 \in T
        PROVE  k \in T
    <3>1. Walks[k] \in WalkState
      BY <1>7, <2>2, WalkType
    <3> QED BY <1>1, <3>1
  <2> HIDE DEF T, n
  <2> QED BY <1>1, <2>1, <2>2, UpTo
<1>9. Walks \in [0 .. n -> WalkState]
  <2>1. \A k \in 0 .. n : Walks[k] \in WalkState
    BY <1>8
  <2>2. Walks = [k \in 0 .. n |-> Walks[k]]
    BY <1>5
  <2> QED BY <2>1, <2>2
<1> QED BY <1>6, <1>7, <1>9 DEF b

(* After the walk every object with a cleanup is moved or isolated. *)
LEMMA PreHandled ==
  ASSUME TypeOK, InHeap, EntriesOK, WeakBit
  PROVE  LET M == PreHandleWeakRefs.moved
         IN  /\ moved \subseteq M /\ M \subseteq heap
             /\ \A w \in weak \ M : Isolated(w, M)
<1> DEFINE n == Len(weakLive)
           At(k) == {j \in 1 .. k : weakTable[weakLive[j]].p # "NIL"}
           Seen(k) == {weakTable[weakLive[j]].r : j \in At(k)}
           Good(k) == /\ moved \subseteq Walks[k].moved /\ Walks[k].moved \subseteq heap
                      /\ Walks[k].marka \cap weak \subseteq Seen(k)
                      /\ \A w \in Seen(k) : w \in Walks[k].moved \/ Isolated(w, Walks[k].moved)
           T == {k \in 0 .. n : Good(k)}
<1>1. /\ moved \subseteq Objects /\ weakLive \in Seq(Indices) /\ n \in Nat
      /\ refs \in [Objects -> SUBSET Objects] /\ heap \subseteq Objects /\ moved \subseteq heap
      /\ \A x \in heap : refs[x] \subseteq heap
  BY DEF TypeOK, InHeap
<1>2. /\ Walks \in [0 .. n -> WalkState] /\ Walks[0] = [moved |-> moved, marka |-> {}]
      /\ \A k \in 1 .. n : Walks[k] = WeakWalk(Walks[k - 1], weakLive[k])
  BY <1>1, WalksFunction
<1>3. \A j \in 1 .. n : weakLive[j] \in ToSet(weakLive)
  BY <1>1 DEF ToSet
<1>4. \A i \in ToSet(weakLive) :
        /\ weakTable[i].r \in heap
        /\ weakTable[i].p = "NIL" \/ weakTable[i].r \in weak
  <2> SUFFICES ASSUME NEW i \in ToSet(weakLive)
               PROVE  /\ weakTable[i].r \in heap
                      /\ weakTable[i].p = "NIL" \/ weakTable[i].r \in weak
    OBVIOUS
  <2>2. weakTable[i].r \in heap
    BY DEF InHeap, TableReferents, Referents
  <2>3. weakTable[i].p \in {"NIL", "cleanup"}
    BY DEF EntriesOK
  <2>4. weakTable[i].p = "cleanup" => weakTable[i].r \in weak
    BY DEF WeakBit
  <2> QED BY <2>2, <2>3, <2>4
<1>5. 0 \in T
  <2>1. At(0) = {}
    OBVIOUS
  <2>2. Seen(0) = {}
    BY <2>1
  <2>3. Good(0)
    <3> HIDE DEF Seen
    <3> QED BY <1>1, <1>2, <2>2
  <2> HIDE DEF Good
  <2> QED BY <1>1, <2>3
<1>6. ASSUME NEW k \in 1 .. n, k - 1 \in T
      PROVE  k \in T
  <2> DEFINE walk == Walks[k - 1]
             i == weakLive[k]
             N == IF weakTable[i].p = "NIL" THEN Seen(k - 1) ELSE Seen(k - 1) \cup {weakTable[i].r}
  <2>1. Good(k - 1) /\ walk \in WalkState /\ Walks[k] = WeakWalk(walk, i)
    BY <1>2, <1>6
  <2>2. At(k) = IF weakTable[i].p = "NIL" THEN At(k - 1) ELSE At(k - 1) \cup {k}
    <3>1. \A j \in 1 .. k : j = k \/ j \in 1 .. k - 1
      OBVIOUS
    <3>2. \A j \in 1 .. k - 1 : j \in 1 .. k /\ j # k
      OBVIOUS
    <3>3. k \in 1 .. k
      OBVIOUS
    <3> QED BY <3>1, <3>2, <3>3
  <2>3. Seen(k) = N
    <3> HIDE DEF At
    <3> QED BY <2>2
  <2>4. weakTable[i].r \in heap /\ (weakTable[i].p = "NIL" \/ weakTable[i].r \in weak)
    BY <1>3, <1>4
  <2>5. Walks[k].moved \in SUBSET Objects
    BY <1>1, <1>2 DEF WalkState
  <2> HIDE DEF Seen
  <2>6. LET next == WeakWalk(walk, i)
        IN  /\ walk.moved \subseteq next.moved /\ next.moved \subseteq heap
            /\ next.marka \cap weak \subseteq N
            /\ \A w \in N : w \in next.moved \/ Isolated(w, next.moved)
    <3> HIDE DEF i
    <3> DEFINE R == Seen(k - 1)
    <3>1. /\ walk.moved \subseteq heap /\ walk.marka \cap weak \subseteq R
          /\ \A w \in R : w \in walk.moved \/ Isolated(w, walk.moved)
      BY <2>1
    <3> HIDE DEF walk
    <3> QED BY <1>1, <2>1, <2>4, <3>1, WalkStep
  <2>7. Good(k)
    <3> HIDE DEF N
    <3> QED BY <2>1, <2>3, <2>6
  <2> HIDE DEF Good
  <2> QED BY <1>1, <2>7
<1>7. Good(n)
  <2> HIDE DEF T
  <2>1. 0 .. n \subseteq T
    <3> HIDE DEF n
    <3> QED BY <1>1, <1>5, <1>6, UpTo
  <2>2. n \in T
    BY <1>1, <2>1
  <2> HIDE DEF Good
  <2> QED BY <2>2 DEF T
<1>8. weak \subseteq Seen(n)
  <2> SUFFICES ASSUME NEW w \in weak PROVE w \in Seen(n)
    OBVIOUS
  <2>1. PICK i \in ToSet(weakLive) : weakTable[i].p = "cleanup" /\ w = weakTable[i].r
    BY DEF WeakBit
  <2>2. PICK j \in 1 .. n : weakLive[j] = i
    BY <1>1 DEF ToSet
  <2> QED BY <2>1, <2>2
<1> HIDE DEF Seen
<1> QED BY <1>7, <1>8 DEF PreHandleWeakRefs

------------------------------------------------------------------------------
(* Moving and cleaning.                                                    *)

(* What is not gray of the new space refers only to the new space. *)
Colours ==
  /\ gray \subseteq moved /\ moved \subseteq heap
  /\ \A x \in moved \ gray : refs[x] \subseteq moved

(* The new space has only grown, and what was cleaned remains so. *)
Darker == moved \subseteq moved' /\ moved \ gray \subseteq moved' \ gray'

LEMMA InvColours ==
  ASSUME Inv
  PROVE  /\ Colours /\ \A x \in heap : refs[x] \subseteq heap
         /\ refs \in [Objects -> SUBSET Objects] /\ heap \subseteq Objects
BY DEF Inv, TypeOK, InHeap, TriColour, PhaseOK, Colours

LEMMA CleanKeeps ==
  ASSUME Colours, \A y \in heap : refs[y] \subseteq heap, UNCHANGED <<heap, refs>>,
         NEW x \in gray, Clean(x)
  PROVE  Colours' /\ Darker /\ x \in moved' \ gray'
BY DEF Colours, Darker, Clean

LEMMA CheckLoadKeeps ==
  ASSUME Colours, \A y \in heap : refs[y] \subseteq heap, UNCHANGED <<heap, refs>>,
         NEW x, CheckLoad(x)
  PROVE  /\ Colours' /\ Darker
         /\ x \in moved => x \in moved' \ gray'
         /\ gray = {} => UNCHANGED <<moved, gray>>
<1>1. CASE x \in gray
  BY <1>1, CleanKeeps DEF CheckLoad, Colours
<1>2. CASE x \notin gray
  BY <1>2 DEF CheckLoad, Colours, Darker
<1> QED BY <1>1, <1>2

LEMMA MoveKeeps ==
  ASSUME Colours, UNCHANGED <<heap, refs>>, NEW S \in SUBSET heap, Move(S)
  PROVE  /\ Colours' /\ Darker
         /\ moved' = IF Collecting THEN moved \cup S ELSE moved
         /\ S \subseteq moved => gray' = gray
<1>1. CASE Collecting
  BY <1>1 DEF Move, Colours, Darker
<1>2. CASE ~Collecting
  BY <1>2 DEF Move, Colours, Darker
<1> QED BY <1>1, <1>2

(* What a step within a phase has to observe to keep Inv. *)
LEMMA SamePhase ==
  ASSUME Inv, TypeOK', UNCHANGED collectorState,
         ListsOK', EntriesOK', WeakBit',
         TableReferents' \subseteq heap',
         collectorState \in {4, 5} => TableReferents' \subseteq moved',
         Colours', Darker,
         ~Collecting => moved' = {},
         collectorState = 5 => gray' = {},
         \A x \in heap' : refs'[x] \subseteq heap',
         roots' \cup Copy' \subseteq heap',
         Collecting => roots' \subseteq roots \cup (moved' \ gray') /\ Copy' \subseteq moved',
         collectorState = 3 => /\ weak' \subseteq weak \cup moved
                               /\ \A y \in Objects \ moved' : refs'[y] = refs[y],
         cleaner' = "calling" => copy' # NIL
  PROVE  Inv'
<1>1. InHeap'
  BY DEF InHeap, Colours
<1>2. TriColour'
  <2> SUFFICES ASSUME Collecting
               PROVE  /\ roots' \subseteq moved' \ gray'
                      /\ \A x \in moved' \ gray' : refs'[x] \subseteq moved'
    BY DEF TriColour, Collecting
  <2>1. roots \subseteq moved' \ gray'
    BY DEF Inv, TriColour, Darker
  <2> QED BY <2>1 DEF Colours
<1>3. PhaseOK'
  BY DEF PhaseOK, Collecting
<1>4. WalkOK'
  <2> SUFFICES ASSUME collectorState = 3, NEW w \in weak' \ moved'
               PROVE  Isolated(w, moved)'
    BY DEF WalkOK
  <2>1. w \in weak \ moved /\ moved \subseteq moved'
    BY DEF Darker
  <2>2. Isolated(w, moved)
    BY <2>1 DEF Inv, WalkOK
  <2>3. PICK F \in SUBSET Objects : /\ w \in F /\ F \cap weak \subseteq moved \cup {w}
                                    /\ \A y \in F \ moved : refs[y] \subseteq F \cup moved
    BY <2>2 DEF Isolated
  <2>4. \A y \in F \ moved' : refs'[y] \subseteq F \cup moved'
    BY <2>1, <2>3
  <2>5. F \cap weak' \subseteq moved' \cup {w}
    BY <2>1, <2>3
  <2> QED BY <2>3, <2>4, <2>5 DEF Isolated
<1> QED BY <1>1, <1>2, <1>3, <1>4 DEF Inv

(* What depends on the table alone. *)
LEMMA TableKept ==
  ASSUME Inv, UNCHANGED weakVars
  PROVE  /\ ListsOK' /\ EntriesOK' /\ WeakBit'
         /\ TableReferents' = TableReferents /\ TableReferents \subseteq heap
         /\ collectorState \in {4, 5} => TableReferents \subseteq moved
         /\ weak' = weak
         /\ size' \in 0 .. MaxEntries /\ weakTable' \in [Indices -> Entry]
         /\ weakLive' \in Seq(Indices) /\ weakFinal' \in Seq(Indices)
         /\ weakDead' \in Seq(Indices) /\ weakFree' \in Seq(Indices)
<1>1. /\ size' = size /\ weakTable' = weakTable /\ weakLive' = weakLive /\ weakFinal' = weakFinal
      /\ weakDead' = weakDead /\ weakFree' = weakFree /\ weak' = weak
  BY DEF weakVars
<1>2. ListsOK'
  BY <1>1 DEF Inv, ListsOK
<1>3. EntriesOK'
  BY <1>1 DEF Inv, EntriesOK, Resolves
<1>4. WeakBit'
  BY <1>1 DEF Inv, WeakBit
<1>5. TableReferents' = TableReferents
  BY <1>1 DEF TableReferents, Referents
<1>6. TableReferents \subseteq heap /\ (collectorState \in {4, 5} => TableReferents \subseteq moved)
  BY DEF Inv, InHeap, PhaseOK
<1> QED BY <1>1, <1>2, <1>3, <1>4, <1>5, <1>6 DEF Inv, TypeOK

(* The same for a step that leaves the table alone. *)
LEMMA SameTable ==
  ASSUME Inv, UNCHANGED weakVars, UNCHANGED collectorState,
         heap \subseteq heap', heap' \subseteq Objects,
         refs' \in [Objects -> SUBSET Objects],
         cleaner' \in {"unborn", "ready", "waiting", "calling", "called"},
         copy' \in Objects \cup {NIL}, finalised' \subseteq Objects,
         Colours', Darker,
         ~Collecting => moved' = {},
         collectorState = 5 => gray' = {},
         \A x \in heap' : refs'[x] \subseteq heap',
         roots' \cup Copy' \subseteq heap',
         Collecting => roots' \subseteq roots \cup (moved' \ gray') /\ Copy' \subseteq moved',
         collectorState = 3 => \A y \in Objects \ moved' : refs'[y] = refs[y],
         cleaner' = "calling" => copy' # NIL
  PROVE  Inv'
<1>1. /\ ListsOK' /\ EntriesOK' /\ WeakBit'
      /\ TableReferents' = TableReferents /\ TableReferents \subseteq heap
      /\ collectorState \in {4, 5} => TableReferents \subseteq moved
      /\ weak' = weak
      /\ size' \in 0 .. MaxEntries /\ weakTable' \in [Indices -> Entry]
      /\ weakLive' \in Seq(Indices) /\ weakFinal' \in Seq(Indices)
      /\ weakDead' \in Seq(Indices) /\ weakFree' \in Seq(Indices)
  BY TableKept
<1>2. TypeOK'
  <2>1. roots' \subseteq Objects /\ moved' \subseteq Objects /\ gray' \subseteq moved'
    BY DEF Colours
  <2>2. collectorState' \in 0 .. 5 /\ weak' \subseteq heap'
    BY <1>1 DEF Inv, TypeOK
  <2> QED BY <1>1, <2>1, <2>2 DEF TypeOK
<1>3. TableReferents' \subseteq heap' /\ (collectorState \in {4, 5} => TableReferents' \subseteq moved')
  BY <1>1 DEF Darker
<1> QED BY <1>1, <1>2, <1>3, SamePhase

(* Facts about a state that satisfies the invariant, for use below. *)
LEMMA InvFacts ==
  ASSUME Inv
  PROVE  /\ heap \subseteq Objects /\ refs \in [Objects -> SUBSET Objects]
         /\ cleaner \in {"unborn", "ready", "waiting", "calling", "called"}
         /\ copy \in Objects \cup {NIL} /\ finalised \subseteq Objects
         /\ Colours /\ \A x \in heap : refs[x] \subseteq heap
         /\ roots \cup Copy \subseteq heap
         /\ IF Collecting THEN roots \subseteq moved \ gray /\ Copy \subseteq moved ELSE moved = {}
         /\ collectorState = 5 => gray = {}
         /\ cleaner = "calling" => copy # NIL
BY InvColours DEF Inv, TypeOK, InHeap, TriColour, PhaseOK

LEMMA NewStep ==
  ASSUME Inv, NEW x \in Objects, New(x)
  PROVE  Inv'
<1>1. Copy' = Copy
  BY DEF New, Copy, cleanerVars
<1> QED BY <1>1, InvFacts, SameTable DEF New, Colours, Darker, cleanerVars, Collecting

LEMMA DropStep ==
  ASSUME Inv, NEW x \in Objects, Drop(x)
  PROVE  Inv'
<1>1. Copy' = Copy
  BY DEF Drop, Copy, cleanerVars
<1> QED BY <1>1, InvFacts, SameTable DEF Drop, Colours, Darker, cleanerVars, Collecting

LEMMA StoreStep ==
  ASSUME Inv, NEW x \in Objects, NEW y \in Objects, Store(x, y)
  PROVE  Inv'
<1>1. Copy' = Copy
  BY DEF Store, Copy, cleanerVars
<1> QED BY <1>1, InvFacts, SameTable DEF Store, Colours, Darker, cleanerVars, Collecting

LEMMA ClearStep ==
  ASSUME Inv, NEW x \in Objects, NEW y \in Objects, Clear(x, y)
  PROVE  Inv'
<1>1. Copy' = Copy
  BY DEF Clear, Copy, cleanerVars
<1> QED BY <1>1, InvFacts, SameTable DEF Clear, Colours, Darker, cleanerVars, Collecting

LEMMA LoadStep ==
  ASSUME Inv, NEW x \in Objects, NEW y \in Objects, Load(x, y)
  PROVE  Inv'
<1>1. /\ CheckLoad(y) /\ UNCHANGED <<heap, refs>> /\ Copy' = Copy
      /\ y \in heap /\ (Collecting => y \in moved)
  BY InvFacts DEF Load, Copy, cleanerVars, Colours
<1>2. /\ Colours' /\ Darker /\ (y \in moved => y \in moved' \ gray')
      /\ gray = {} => UNCHANGED <<moved, gray>>
  BY <1>1, InvFacts, CheckLoadKeeps
<1> QED BY <1>1, <1>2, InvFacts, SameTable DEF Load, Darker, cleanerVars, Colours

LEMMA ToRefStep ==
  ASSUME Inv, NEW i \in Indices, WeakRefToRef(i)
  PROVE  Inv'
<1> DEFINE x == weakTable[i].r
<1>1. i \in ToSet(weakLive)
  BY DEF Inv, EntriesOK, WeakRefToRef
<1>2. x \in TableReferents
  BY <1>1 DEF TableReferents, Referents
<1>3. x \in heap /\ (collectorState \in {4, 5} => x \in moved)
  BY <1>2 DEF Inv, InHeap, PhaseOK
<1>4. /\ UNCHANGED <<heap, refs, collectorState, weakVars, cleanerVars, finalised>>
      /\ roots' = roots \cup {x} /\ Copy' = Copy
  BY DEF WeakRefToRef, Copy, cleanerVars
<1>5. /\ Colours' /\ Darker /\ (Collecting => x \in moved' \ gray')
      /\ (~Collecting => moved' = {}) /\ (collectorState = 5 => gray' = {})
  <2>1. CASE Collecting /\ x \notin moved
    <3>1. /\ moved' = moved \cup {x} \cup refs[x]
          /\ gray' = gray \cup (refs[x] \ (moved \cup {x}))
      BY <2>1 DEF WeakRefToRef
    <3> HIDE DEF x
    <3> QED BY <1>3, <1>4, <2>1, <3>1, InvFacts DEF Colours, Darker
  <2>2. CASE ~ (Collecting /\ x \notin moved)
    <3>1. CheckLoad(x)
      BY <2>2 DEF WeakRefToRef
    <3> HIDE DEF x
    <3>2. /\ Colours' /\ Darker /\ (x \in moved => x \in moved' \ gray')
          /\ gray = {} => UNCHANGED <<moved, gray>>
      BY <1>4, <3>1, InvFacts, CheckLoadKeeps
    <3> QED BY <2>2, <3>2, InvFacts DEF Colours
  <2> QED BY <2>1, <2>2
<1> HIDE DEF x
<1> QED BY <1>3, <1>4, <1>5, InvFacts, SameTable DEF cleanerVars, Darker, Colours

LEMMA CopySomeStep ==
  ASSUME Inv, NEW x \in Objects, CopySome(x)
  PROVE  Inv'
<1>1. /\ x \in gray /\ Clean(x) /\ collectorState # 5 /\ collectorState # 0
      /\ UNCHANGED <<collectorState, heapVars, weakVars, cleanerVars, finalised>> /\ Copy' = Copy
  BY DEF CopySome, Copy, cleanerVars
<1>2. Colours' /\ Darker
  BY <1>1, InvFacts, CleanKeeps DEF heapVars
<1> QED BY <1>1, <1>2, InvFacts, SameTable DEF heapVars, cleanerVars, Darker, Colours, Collecting

LEMMA CleanerStep ==
  ASSUME Inv, WaitHeap \/ WaitHeapReturns \/ CallCleanup \/ CleanupReturns
  PROVE  Inv'
<1>1. CASE WaitHeap \/ WaitHeapReturns
  <2>1. Copy' = Copy
    BY <1>1 DEF WaitHeap, WaitHeapReturns, Copy
  <2> QED BY <1>1, <2>1, InvFacts, SameTable
          DEF WaitHeap, WaitHeapReturns, heapVars, Darker, Colours, Collecting
<1>2. CASE CallCleanup
  <2>1. /\ CheckLoad(copy) /\ UNCHANGED <<heap, refs, collectorState, weakVars, copy, finalised>>
        /\ roots' = roots \cup {copy} /\ cleaner' = "called" /\ Copy' = Copy /\ copy \in Copy
    BY <1>2, InvFacts DEF CallCleanup, Copy
  <2>2. /\ Colours' /\ Darker /\ (copy \in moved => copy \in moved' \ gray')
        /\ gray = {} => UNCHANGED <<moved, gray>>
    BY <2>1, InvFacts, CheckLoadKeeps
  <2> QED BY <2>1, <2>2, InvFacts, SameTable DEF Darker, Colours
<1>3. CASE CleanupReturns
  <2>1. Copy' = {}
    BY <1>3 DEF CleanupReturns, Copy
  <2> QED BY <1>3, <2>1, InvFacts, SameTable
          DEF CleanupReturns, heapVars, Darker, Colours, Collecting
<1> QED BY <1>1, <1>2, <1>3

------------------------------------------------------------------------------
(* From phase to phase.                                                    *)

LEMMA StateZeroStep ==
  ASSUME Inv, CollectSomeInStateZero
  PROVE  Inv'
<1> DEFINE Held == roots \cup Copy
<1>1. PICK Others \in SUBSET heap :
        /\ moved' = Held \cup Others \cup UNION {refs[x] : x \in Held}
        /\ \E S \in SUBSET {x \in Others : refs[x] \subseteq moved'} :
             gray' = moved' \ (Held \cup S)
  BY DEF CollectSomeInStateZero
<1>2. /\ collectorState = 0 /\ collectorState' = 1 /\ Copy' = Copy
      /\ UNCHANGED <<heap, refs, roots, weakVars, cleaner, copy, finalised>>
  BY DEF CollectSomeInStateZero, heapVars, cleanerVars, Copy
<1>3. Held \subseteq heap /\ \A x \in heap : refs[x] \subseteq heap
  BY InvFacts
<1> HIDE DEF Held
<1>4. moved' \subseteq heap /\ Held \subseteq moved'
  BY <1>1, <1>3
<1>5. /\ moved' \subseteq heap /\ gray' \subseteq moved' /\ Held \subseteq moved'
      /\ Held \cap gray' = {} /\ \A x \in moved' \ gray' : refs[x] \subseteq moved'
  BY <1>1, <1>4
<1> USE DEF Held
<1>6. /\ ListsOK' /\ EntriesOK' /\ WeakBit' /\ TableReferents' \subseteq heap /\ weak' = weak
      /\ size' \in 0 .. MaxEntries /\ weakTable' \in [Indices -> Entry]
      /\ weakLive' \in Seq(Indices) /\ weakFinal' \in Seq(Indices)
      /\ weakDead' \in Seq(Indices) /\ weakFree' \in Seq(Indices)
  BY <1>2, TableKept
<1>7. TypeOK'
  BY <1>2, <1>5, <1>6, InvFacts DEF Inv, TypeOK
<1>8. InHeap'
  BY <1>2, <1>3, <1>5, <1>6 DEF InHeap
<1>9. TriColour'
  BY <1>2, <1>5 DEF TriColour
<1>10. PhaseOK'
  BY <1>2, <1>5, InvFacts DEF PhaseOK, Collecting
<1>11. WalkOK'
  BY <1>2 DEF WalkOK
<1> QED BY <1>6, <1>7, <1>8, <1>9, <1>10, <1>11 DEF Inv

LEMMA CopiedAllStep ==
  ASSUME Inv, CopiedAll
  PROVE  Inv'
<1>1. /\ collectorState \in {1, 4} /\ gray = {} /\ collectorState' = collectorState + 1
      /\ UNCHANGED <<moved, gray, heap, refs, roots, weakVars, cleaner, copy, finalised>>
      /\ Copy' = Copy
  BY DEF CopiedAll, heapVars, cleanerVars, Copy
<1>2. collectorState' \in {2, 5} /\ (collectorState' = 5 => collectorState = 4)
  BY <1>1
<1>3. /\ ListsOK' /\ EntriesOK' /\ WeakBit' /\ weak' = weak
      /\ TableReferents' = TableReferents /\ TableReferents \subseteq heap
      /\ collectorState \in {4, 5} => TableReferents \subseteq moved
      /\ size' \in 0 .. MaxEntries /\ weakTable' \in [Indices -> Entry]
      /\ weakLive' \in Seq(Indices) /\ weakFinal' \in Seq(Indices)
      /\ weakDead' \in Seq(Indices) /\ weakFree' \in Seq(Indices)
  BY <1>1, TableKept
<1>4. TypeOK'
  BY <1>1, <1>2, <1>3 DEF Inv, TypeOK
<1>5. InHeap'
  BY <1>1, <1>3 DEF Inv, InHeap
<1>6. TriColour'
  BY <1>1, InvFacts DEF TriColour, Collecting, Colours
<1>7. PhaseOK'
  BY <1>1, <1>2, <1>3, InvFacts DEF PhaseOK, Collecting
<1>8. WalkOK'
  BY <1>2 DEF WalkOK
<1> QED BY <1>3, <1>4, <1>5, <1>6, <1>7, <1>8 DEF Inv

LEMMA StateTwoStep ==
  ASSUME Inv, CollectSomeInStateTwo
  PROVE  Inv'
<1> DEFINE M == PreHandleWeakRefs.moved
<1>1. /\ collectorState = 2 /\ collectorState' = 3 /\ Move(M) /\ Copy' = Copy
      /\ UNCHANGED <<heap, refs, roots, weakVars, cleaner, copy, finalised>>
  BY DEF CollectSomeInStateTwo, heapVars, cleanerVars, Copy
<1>2. /\ moved \subseteq M /\ M \subseteq heap
      /\ \A w \in weak \ M : Isolated(w, M)
  BY PreHandled DEF Inv
<1> HIDE DEF M
<1>3. /\ ListsOK' /\ EntriesOK' /\ WeakBit' /\ weak' = weak
      /\ TableReferents' = TableReferents /\ TableReferents \subseteq heap
      /\ size' \in 0 .. MaxEntries /\ weakTable' \in [Indices -> Entry]
      /\ weakLive' \in Seq(Indices) /\ weakFinal' \in Seq(Indices)
      /\ weakDead' \in Seq(Indices) /\ weakFree' \in Seq(Indices)
  BY <1>1, TableKept
<1>4. Colours' /\ Darker /\ moved' = M
  BY <1>1, <1>2, InvFacts, MoveKeeps DEF Collecting
<1>5. TypeOK'
  BY <1>1, <1>3, <1>4 DEF Inv, TypeOK, Colours
<1>6. InHeap'
  BY <1>1, <1>3, <1>4 DEF Inv, InHeap, Colours
<1>7. TriColour'
  BY <1>1, <1>4, InvFacts DEF TriColour, Collecting, Colours, Darker
<1>8. PhaseOK'
  BY <1>1, <1>4, InvFacts DEF PhaseOK, Collecting, Darker
<1>9. WalkOK'
  BY <1>1, <1>2, <1>3, <1>4 DEF WalkOK, Isolated
<1> QED BY <1>3, <1>5, <1>6, <1>7, <1>8, <1>9 DEF Inv

LEMMA StateFiveStep ==
  ASSUME Inv, CollectSomeInStateFive
  PROVE  Inv'
<1>1. /\ collectorState = 5 /\ collectorState' = 0 /\ moved' = {} /\ gray' = {}
      /\ heap' = heap \cap moved /\ weak' = weak \cap moved
      /\ refs' = [x \in Objects |-> IF x \in moved THEN refs[x] ELSE {}]
      /\ UNCHANGED <<roots, size, weakTable, weakLive, weakFinal, weakDead, weakFree>>
      /\ UNCHANGED <<cleaner, copy, finalised>> /\ Copy' = Copy
  BY DEF CollectSomeInStateFive, cleanerVars, Copy
<1>2. /\ gray = {} /\ TableReferents \subseteq moved /\ roots \cup Copy \subseteq moved
      /\ TableReferents \subseteq heap /\ moved \subseteq heap
      /\ \A x \in moved : refs[x] \subseteq moved
  BY <1>1, InvFacts DEF Inv, PhaseOK, InHeap, Collecting, Colours
<1>3. TableReferents' = TableReferents
  BY <1>1 DEF TableReferents, Referents
<1>4. weak \subseteq moved
  <2>1. weak \subseteq Referents(weakLive)
    BY DEF Inv, WeakBit, Referents
  <2> QED BY <1>2, <2>1 DEF TableReferents
<1>5. weak' = weak
  BY <1>1, <1>4
<1>6. TypeOK'
  BY <1>1, InvFacts DEF Inv, TypeOK
<1>7. InHeap'
  BY <1>1, <1>2, <1>3, InvFacts DEF InHeap
<1>8. TriColour' /\ PhaseOK' /\ WalkOK'
  BY <1>1, InvFacts DEF TriColour, PhaseOK, WalkOK, Collecting
<1>9. ListsOK'
  BY <1>1 DEF Inv, ListsOK
<1>10. EntriesOK'
  BY <1>1 DEF Inv, EntriesOK, Resolves
<1>11. WeakBit'
  BY <1>1, <1>5 DEF Inv, WeakBit
<1> QED BY <1>6, <1>7, <1>8, <1>9, <1>10, <1>11 DEF Inv

------------------------------------------------------------------------------
(* The table.                                                              *)

(* Four lists that part the numbers below n. *)
Parted(live, final, dead, free, n) ==
  /\ IsInjective(live) /\ IsInjective(final) /\ IsInjective(dead) /\ IsInjective(free)
  /\ ToSet(live) \cap ToSet(final) = {} /\ ToSet(live) \cap ToSet(dead) = {}
  /\ ToSet(live) \cap ToSet(free) = {} /\ ToSet(final) \cap ToSet(dead) = {}
  /\ ToSet(final) \cap ToSet(free) = {} /\ ToSet(dead) \cap ToSet(free) = {}
  /\ ToSet(live) \cup ToSet(final) \cup ToSet(dead) \cup ToSet(free) = 0 .. n - 1

LEMMA ListsParted == ListsOK <=> Parted(weakLive, weakFinal, weakDead, weakFree, size)
<1> DEFINE lists == <<weakLive, weakFinal, weakDead, weakFree>>
<1>1. /\ lists[1] = weakLive /\ lists[2] = weakFinal /\ lists[3] = weakDead /\ lists[4] = weakFree
      /\ 1 .. 4 = {1, 2, 3, 4}
  OBVIOUS
<1> HIDE DEF lists
<1>2. UNION {ToSet(lists[j]) : j \in 1 .. 4}
        = ToSet(weakLive) \cup ToSet(weakFinal) \cup ToSet(weakDead) \cup ToSet(weakFree)
  <2>1. \A S : (\E j \in 1 .. 4 : S = ToSet(lists[j]))
                 <=> S \in {ToSet(weakLive), ToSet(weakFinal), ToSet(weakDead), ToSet(weakFree)}
    BY <1>1
  <2> QED BY <2>1
<1>3. ListsOK <=> /\ \A j \in 1 .. 4 : IsInjective(lists[j])
                  /\ \A j, k \in 1 .. 4 : j # k => ToSet(lists[j]) \cap ToSet(lists[k]) = {}
                  /\ UNION {ToSet(lists[j]) : j \in 1 .. 4} = 0 .. size - 1
  BY DEF ListsOK, lists
<1> QED BY <1>1, <1>2, <1>3 DEF Parted

LEMMA ListsPartedNext == ListsOK' <=> Parted(weakLive', weakFinal', weakDead', weakFree', size')
<1>1. (ListsOK <=> Parted(weakLive, weakFinal, weakDead, weakFree, size))'
  BY ListsParted, PTL
<1> QED BY <1>1

(* The free list after ExpandWeakTable. *)
LEMMA Expanded ==
  ASSUME Inv, ExpandedSize <= MaxEntries
  PROVE  /\ ExpandedSize \in 0 .. MaxEntries
         /\ ExpandedFree \in Seq(Indices) /\ ExpandedFree # <<>>
         /\ Parted(weakLive, weakFinal, weakDead, ExpandedFree, ExpandedSize)
<1>1. /\ Parted(weakLive, weakFinal, weakDead, weakFree, size)
      /\ size \in 0 .. MaxEntries /\ weakFree \in Seq(Indices) /\ MaxEntries \in Nat
  BY ListsParted, BoundsAssumption DEF Inv, TypeOK
<1>2. CASE weakFree # <<>>
  BY <1>1, <1>2 DEF ExpandedSize, ExpandedFree
<1>3. CASE weakFree = <<>>
  <2> DEFINE new == [j \in 1 .. size + 1 |-> 2 * size + 1 - j]
  <2>1. ExpandedSize = 2 * size + 1 /\ ExpandedFree = new
    BY <1>3 DEF ExpandedSize, ExpandedFree
  <2>2. new \in Seq(Indices) /\ DOMAIN new = 1 .. size + 1
    <3>1. \A j \in 1 .. size + 1 : 2 * size + 1 - j \in Indices
      BY <1>1, <2>1 DEF Indices
    <3>2. size + 1 \in Nat
      BY <1>1
    <3> QED BY <3>1, <3>2
  <2>3. new # <<>> /\ IsInjective(new)
    <3>1. new[1] = 2 * size /\ 1 \in DOMAIN new
      BY <1>1
    <3>2. IsInjective(new)
      BY <1>1 DEF IsInjective
    <3> QED BY <3>1, <3>2
  <2>4. ToSet(new) = size .. 2 * size
    <3>1. ToSet(new) \subseteq size .. 2 * size
      BY <1>1 DEF ToSet
    <3>2. ASSUME NEW m \in size .. 2 * size
          PROVE  m \in ToSet(new)
      <4>1. 2 * size + 1 - m \in 1 .. size + 1 /\ new[2 * size + 1 - m] = m
        BY <1>1
      <4> QED BY <2>2, <4>1 DEF ToSet
    <3> QED BY <3>1, <3>2
  <2>5. ToSet(weakFree) = {}
    BY <1>3 DEF ToSet
  <2> DEFINE Old == ToSet(weakLive) \cup ToSet(weakFinal) \cup ToSet(weakDead)
  <2>6. Old = 0 .. size - 1
    BY <1>1, <2>5 DEF Parted
  <2>7. Old \cap ToSet(new) = {} /\ Old \cup ToSet(new) = 0 .. 2 * size
    BY <1>1, <2>4, <2>6
  <2>8. (2 * size + 1) - 1 = 2 * size /\ 2 * size + 1 \in 0 .. MaxEntries
    BY <1>1, <2>1
  <2>9. Parted(weakLive, weakFinal, weakDead, new, 2 * size + 1)
    <3> HIDE DEF new
    <3> QED BY <1>1, <2>3, <2>7, <2>8 DEF Parted
  <2> QED BY <2>1, <2>2, <2>3, <2>8, <2>9
<1> QED BY <1>2, <1>3

(* Taking the first free entry for a list. *)
LEMMA EntryTaken ==
  ASSUME Inv, ExpandedSize <= MaxEntries
  PROVE  LET i == Head(ExpandedFree) IN
           /\ i \in Indices
           /\ i \notin ToSet(weakLive) \cup ToSet(weakFinal) \cup ToSet(weakDead)
           /\ Tail(ExpandedFree) \in Seq(Indices)
           /\ <<i>> \o weakLive \in Seq(Indices) /\ ToSet(<<i>> \o weakLive) = {i} \cup ToSet(weakLive)
           /\ <<i>> \o weakFinal \in Seq(Indices) /\ ToSet(<<i>> \o weakFinal) = {i} \cup ToSet(weakFinal)
           /\ Parted(<<i>> \o weakLive, weakFinal, weakDead, Tail(ExpandedFree), ExpandedSize)
           /\ Parted(weakLive, <<i>> \o weakFinal, weakDead, Tail(ExpandedFree), ExpandedSize)
<1> DEFINE i == Head(ExpandedFree)
<1>1. /\ ExpandedFree \in Seq(Indices) /\ ExpandedFree # <<>>
      /\ Parted(weakLive, weakFinal, weakDead, ExpandedFree, ExpandedSize)
  BY Expanded
<1>2. weakLive \in Seq(Indices) /\ weakFinal \in Seq(Indices)
  BY DEF Inv, TypeOK
<1>3. /\ i \in Indices /\ i \in ToSet(ExpandedFree) /\ Tail(ExpandedFree) \in Seq(Indices)
      /\ ToSet(ExpandedFree) = {i} \cup ToSet(Tail(ExpandedFree))
      /\ IsInjective(Tail(ExpandedFree)) /\ ToSet(Tail(ExpandedFree)) = ToSet(ExpandedFree) \ {i}
  BY <1>1, TailList DEF Parted
<1> HIDE DEF i
<1>4. i \notin ToSet(weakLive) \cup ToSet(weakFinal) \cup ToSet(weakDead)
  BY <1>1, <1>3 DEF Parted
<1>5. /\ <<i>> \o weakLive \in Seq(Indices) /\ ToSet(<<i>> \o weakLive) = {i} \cup ToSet(weakLive)
      /\ IsInjective(<<i>> \o weakLive)
  BY <1>1, <1>2, <1>3, <1>4, ConsList DEF Parted
<1>6. /\ <<i>> \o weakFinal \in Seq(Indices) /\ ToSet(<<i>> \o weakFinal) = {i} \cup ToSet(weakFinal)
      /\ IsInjective(<<i>> \o weakFinal)
  BY <1>1, <1>2, <1>3, <1>4, ConsList DEF Parted
<1>7. Parted(<<i>> \o weakLive, weakFinal, weakDead, Tail(ExpandedFree), ExpandedSize)
  BY <1>1, <1>3, <1>4, <1>5 DEF Parted
<1>8. Parted(weakLive, <<i>> \o weakFinal, weakDead, Tail(ExpandedFree), ExpandedSize)
  BY <1>1, <1>3, <1>4, <1>6 DEF Parted
<1> QED BY <1>3, <1>4, <1>5, <1>6, <1>7, <1>8 DEF i

LEMMA FromRefStep ==
  ASSUME Inv, NEW x \in Objects, NEW p \in {"NIL", "cleanup"}, WeakRefFromRef(x, p)
  PROVE  Inv'
<1> DEFINE i == Head(ExpandedFree)
           entry == NewEntry(i, x, p)
<1>1. /\ x \in roots /\ ExpandedSize <= MaxEntries
      /\ weakTable' = [weakTable EXCEPT ![i] = entry] /\ weakLive' = <<i>> \o weakLive
      /\ weakFree' = Tail(ExpandedFree) /\ size' = ExpandedSize
      /\ weak' = IF p = "NIL" THEN weak ELSE weak \cup {x}
      /\ cleaner' = IF p # "NIL" /\ cleaner = "unborn" THEN "ready" ELSE cleaner
      /\ UNCHANGED <<heap, refs, roots, collectorState, moved, gray, weakFinal, weakDead, copy, finalised>>
      /\ Copy' = Copy
  BY DEF WeakRefFromRef, heapVars, Copy
<1>2. /\ i \in Indices
      /\ i \notin ToSet(weakLive) \cup ToSet(weakFinal) \cup ToSet(weakDead)
      /\ weakLive' \in Seq(Indices) /\ ToSet(weakLive') = {i} \cup ToSet(weakLive)
      /\ weakFree' \in Seq(Indices)
      /\ Parted(weakLive', weakFinal, weakDead, weakFree', size')
      /\ size' \in 0 .. MaxEntries
  BY <1>1, EntryTaken, Expanded
<1>3. /\ weakTable \in [Indices -> Entry] /\ weakFinal \in Seq(Indices) /\ weakDead \in Seq(Indices)
      /\ ToSet(weakLive) \subseteq Indices
      /\ weak \subseteq heap /\ collectorState \in 0 .. 5
  BY DEF Inv, TypeOK, ToSet
<1> HIDE DEF i
<1>4. /\ entry.a = i /\ entry.b > 0 /\ entry.r = x /\ entry.p = p
      /\ entry \in Entry
  <2>1. weakTable[i].b \in Nat /\ i \in Indices \cup {-1}
    BY <1>2, <1>3 DEF Entry
  <2> QED BY <2>1 DEF NewEntry, Entry
<1> HIDE DEF entry
<1>5. /\ weakTable' \in [Indices -> Entry] /\ weakTable'[i] = entry
      /\ \A j \in Indices : j # i => weakTable'[j] = weakTable[j]
  BY <1>1, <1>2, <1>3, <1>4
<1>6. x \in heap /\ (Collecting => x \in moved \ gray)
  BY <1>1, InvFacts
<1>7. TypeOK'
  BY <1>1, <1>2, <1>3, <1>5, <1>6, InvFacts DEF Inv, TypeOK
<1>8. ListsOK'
  BY <1>1, <1>2, ListsPartedNext
<1>9. EntriesOK'
  <2>1. \A j \in ToSet(weakLive') :
          weakTable'[j].a = j /\ weakTable'[j].b > 0 /\ weakTable'[j].p \in {"NIL", "cleanup"}
    BY <1>2, <1>3, <1>4, <1>5 DEF Inv, EntriesOK
  <2>2. \A j \in Indices : weakTable'[j].a = j /\ weakTable'[j].b > 0 => j \in ToSet(weakLive')
    BY <1>2, <1>5 DEF Inv, EntriesOK, Resolves
  <2> QED BY <2>1, <2>2 DEF EntriesOK, Resolves
<1>10. WeakBit'
  <2>1. weak = {weakTable[j].r : j \in {k \in ToSet(weakLive) : weakTable[k].p = "cleanup"}}
    BY DEF Inv, WeakBit
  <2>2. ASSUME NEW w \in weak'
        PROVE  \E j \in ToSet(weakLive') : weakTable'[j].p = "cleanup" /\ w = weakTable'[j].r
    <3>1. CASE w \in weak
      <4>1. PICK j \in ToSet(weakLive) : weakTable[j].p = "cleanup" /\ w = weakTable[j].r
        BY <2>1, <3>1
      <4>2. j \in ToSet(weakLive') /\ weakTable'[j] = weakTable[j]
        BY <1>2, <1>3, <1>5
      <4> QED BY <4>1, <4>2
    <3>2. CASE w \notin weak
      <4>1. w = x /\ p = "cleanup"
        BY <1>1, <3>2
      <4> QED BY <1>2, <1>4, <1>5, <4>1
    <3> QED BY <3>1, <3>2
  <2>3. ASSUME NEW j \in ToSet(weakLive'), weakTable'[j].p = "cleanup"
        PROVE  weakTable'[j].r \in weak'
    <3>1. CASE j = i
      BY <1>1, <1>4, <1>5, <2>3, <3>1
    <3>2. CASE j # i
      <4>1. j \in ToSet(weakLive) /\ weakTable'[j] = weakTable[j]
        BY <1>2, <1>3, <1>5, <3>2
      <4>2. weakTable[j].r \in weak
        BY <2>1, <2>3, <4>1
      <4> QED BY <1>1, <4>1, <4>2
    <3> QED BY <3>1, <3>2
  <2> QED BY <2>2, <2>3 DEF WeakBit
<1>11. TableReferents' \subseteq TableReferents \cup {x}
  <2>1. ToSet(weakFinal) \subseteq Indices /\ ToSet(weakDead) \subseteq Indices
    BY <1>3 DEF ToSet
  <2>2. \A j \in ToSet(weakFinal) \cup ToSet(weakDead) : weakTable'[j] = weakTable[j]
    BY <1>2, <1>5, <2>1
  <2>3. \A j \in ToSet(weakLive') : weakTable'[j].r = x \/ (j \in ToSet(weakLive) /\ weakTable'[j] = weakTable[j])
    BY <1>2, <1>3, <1>4, <1>5
  <2> QED BY <1>1, <2>2, <2>3 DEF TableReferents, Referents
<1>12. /\ TableReferents' \subseteq heap
       /\ collectorState \in {4, 5} => TableReferents' \subseteq moved
  BY <1>6, <1>11 DEF Inv, InHeap, PhaseOK, Collecting
<1>13. Colours' /\ Darker
  BY <1>1, InvFacts DEF Colours, Darker
<1>14. collectorState = 3 => weak' \subseteq weak \cup moved
  BY <1>1, <1>6 DEF Collecting
<1> QED BY <1>1, <1>7, <1>8, <1>9, <1>10, <1>12, <1>13, <1>14, InvFacts, SamePhase
        DEF Collecting

LEMMA RegisterStep ==
  ASSUME Inv, NEW x \in Objects, RegisterFinalCleanup(x)
  PROVE  Inv'
<1> DEFINE i == Head(ExpandedFree)
<1>1. /\ x \in roots /\ ExpandedSize <= MaxEntries
      /\ weakTable' = [weakTable EXCEPT ![i].r = x, ![i].p = "final"]
      /\ weakFinal' = <<i>> \o weakFinal
      /\ weakFree' = Tail(ExpandedFree) /\ size' = ExpandedSize
      /\ finalised' = finalised \ {x}
      /\ UNCHANGED <<heap, refs, roots, collectorState, moved, gray, weakLive, weakDead, weak, cleaner, copy>>
      /\ Copy' = Copy
  BY DEF RegisterFinalCleanup, heapVars, cleanerVars, Copy
<1>2. /\ i \in Indices
      /\ i \notin ToSet(weakLive) \cup ToSet(weakFinal) \cup ToSet(weakDead)
      /\ weakFinal' \in Seq(Indices) /\ ToSet(weakFinal') = {i} \cup ToSet(weakFinal)
      /\ weakFree' \in Seq(Indices)
      /\ Parted(weakLive, weakFinal', weakDead, weakFree', size')
      /\ size' \in 0 .. MaxEntries
  BY <1>1, EntryTaken, Expanded
<1>3. /\ weakTable \in [Indices -> Entry] /\ weakFinal \in Seq(Indices)
      /\ ToSet(weakLive) \subseteq Indices /\ ToSet(weakFinal) \subseteq Indices
      /\ ToSet(weakDead) \subseteq Indices
      /\ weak \subseteq heap /\ collectorState \in 0 .. 5
  BY DEF Inv, TypeOK, ToSet
<1> HIDE DEF i
<1>4. /\ weakTable' \in [Indices -> Entry] /\ weakTable'[i].r = x
      /\ weakTable'[i].a = weakTable[i].a /\ weakTable'[i].b = weakTable[i].b
      /\ \A j \in Indices : j # i => weakTable'[j] = weakTable[j]
  <2> DEFINE entry == [weakTable[i] EXCEPT !.r = x, !.p = "final"]
  <2>1. weakTable' = [weakTable EXCEPT ![i] = entry]
    BY <1>1, <1>2, <1>3
  <2>2. weakTable[i] \in Entry
    BY <1>2, <1>3
  <2>3. entry \in Entry /\ entry.r = x /\ entry.a = weakTable[i].a /\ entry.b = weakTable[i].b
    BY <2>2 DEF Entry
  <2> HIDE DEF entry
  <2> QED BY <1>2, <1>3, <2>1, <2>3
<1>5. x \in heap /\ (Collecting => x \in moved \ gray)
  BY <1>1, InvFacts
<1>6. TypeOK'
  BY <1>1, <1>2, <1>3, <1>4, InvFacts DEF Inv, TypeOK
<1>7. ListsOK'
  BY <1>1, <1>2, ListsPartedNext
<1>8. \A j \in ToSet(weakLive) \cup ToSet(weakDead) \cup ToSet(weakFinal) : weakTable'[j] = weakTable[j]
  BY <1>2, <1>3, <1>4
<1>9. EntriesOK'
  <2>1. \A j \in ToSet(weakLive) :
          weakTable'[j].a = j /\ weakTable'[j].b > 0 /\ weakTable'[j].p \in {"NIL", "cleanup"}
    BY <1>8 DEF Inv, EntriesOK
  <2>2. \A j \in Indices : weakTable'[j].a = j /\ weakTable'[j].b > 0 => j \in ToSet(weakLive)
    BY <1>4 DEF Inv, EntriesOK, Resolves
  <2> QED BY <1>1, <2>1, <2>2 DEF EntriesOK, Resolves
<1>10. WeakBit'
  <2>1. weak = {weakTable[j].r : j \in {k \in ToSet(weakLive) : weakTable[k].p = "cleanup"}}
    BY DEF Inv, WeakBit
  <2>2. weak = {weakTable'[j].r : j \in {k \in ToSet(weakLive) : weakTable'[k].p = "cleanup"}}
    BY <1>8, <2>1
  <2> QED BY <1>1, <2>2 DEF WeakBit
<1>11. TableReferents' \subseteq TableReferents \cup {x}
  <2>1. weakLive' = weakLive /\ weakDead' = weakDead
    BY <1>1
  <2>2. \A j \in ToSet(weakFinal') : weakTable'[j].r = x \/ (j \in ToSet(weakFinal) /\ weakTable'[j] = weakTable[j])
    BY <1>2, <1>4, <1>8
  <2> QED BY <1>8, <2>1, <2>2 DEF TableReferents, Referents
<1>12. /\ TableReferents' \subseteq heap
       /\ collectorState \in {4, 5} => TableReferents' \subseteq moved
  BY <1>5, <1>11 DEF Inv, InHeap, PhaseOK, Collecting
<1>13. Colours' /\ Darker
  BY <1>1, InvFacts DEF Colours, Darker
<1> QED BY <1>1, <1>6, <1>7, <1>9, <1>10, <1>12, <1>13, InvFacts, SamePhase
        DEF Collecting

LEMMA TakeDeadStep ==
  ASSUME Inv, TakeDead
  PROVE  Inv'
<1> DEFINE i == Head(weakDead)
           r == weakTable[i].r
<1>1. /\ weakDead # <<>> /\ copy' = r /\ Move({r})
      /\ weakTable' = [weakTable EXCEPT ![i] = Freed(@)]
      /\ weakFree' = <<i>> \o weakFree /\ weakDead' = Tail(weakDead)
      /\ cleaner' = "calling"
      /\ UNCHANGED <<heap, refs, roots, collectorState, size, weakLive, weakFinal, weak, finalised>>
  BY DEF TakeDead, heapVars
<1>2. /\ weakTable \in [Indices -> Entry]
      /\ weakDead \in Seq(Indices) /\ weakFree \in Seq(Indices)
      /\ ToSet(weakLive) \subseteq Indices /\ ToSet(weakFinal) \subseteq Indices
      /\ weak \subseteq heap /\ collectorState \in 0 .. 5
      /\ Parted(weakLive, weakFinal, weakDead, weakFree, size)
  BY ListsParted DEF Inv, TypeOK, ToSet
<1>3. /\ i \in Indices /\ i \in ToSet(weakDead)
      /\ weakDead' \in Seq(Indices) /\ IsInjective(weakDead')
      /\ ToSet(weakDead) = {i} \cup ToSet(weakDead') /\ ToSet(weakDead') = ToSet(weakDead) \ {i}
  BY <1>1, <1>2, TailList DEF Parted
<1>4. /\ weakFree' \in Seq(Indices) /\ ToSet(weakFree') = {i} \cup ToSet(weakFree)
      /\ IsInjective(weakFree')
  <2>1. i \notin ToSet(weakFree)
    BY <1>2, <1>3 DEF Parted
  <2> HIDE DEF i
  <2> QED BY <1>1, <1>2, <1>3, <2>1, ConsList DEF Parted
<1>5. r \in TableReferents
  BY <1>3 DEF TableReferents, Referents
<1> HIDE DEF i
<1>6. /\ i \notin ToSet(weakLive) /\ i \notin ToSet(weakFinal)
      /\ Parted(weakLive, weakFinal, weakDead', weakFree', size)
  BY <1>2, <1>3, <1>4 DEF Parted
<1>7. /\ weakTable' \in [Indices -> Entry]
      /\ weakTable'[i].a = weakTable[i].a /\ weakTable'[i].b = weakTable[i].b
      /\ \A j \in Indices : j # i => weakTable'[j] = weakTable[j]
  <2>1. weakTable[i] \in Entry /\ weakTable' = [weakTable EXCEPT ![i] = Freed(weakTable[i])]
    BY <1>1, <1>2, <1>3
  <2>2. /\ Freed(weakTable[i]) \in Entry
        /\ Freed(weakTable[i]).a = weakTable[i].a /\ Freed(weakTable[i]).b = weakTable[i].b
    BY <2>1 DEF Freed, Entry
  <2> QED BY <1>2, <1>3, <2>1, <2>2
<1> HIDE DEF r
<1>8. r \in heap /\ (collectorState \in {4, 5} => r \in moved)
  BY <1>5 DEF Inv, InHeap, PhaseOK
<1>9. /\ Colours' /\ Darker
      /\ moved' = IF Collecting THEN moved \cup {r} ELSE moved
      /\ r \in moved => gray' = gray
  <2>1. {r} \in SUBSET heap
    BY <1>8
  <2> QED BY <1>1, <2>1, InvFacts, MoveKeeps
<1>10. Copy' = {r} /\ r \in Objects /\ r # NIL
  BY <1>1, <1>8, InvFacts, ObjectsAssumption DEF Copy
<1>11. TypeOK'
  BY <1>1, <1>2, <1>3, <1>4, <1>7, <1>9, <1>10, InvFacts DEF Inv, TypeOK, Colours
<1>12. ListsOK'
  BY <1>1, <1>6, ListsPartedNext
<1>13. \A j \in ToSet(weakLive) \cup ToSet(weakFinal) \cup ToSet(weakDead') : weakTable'[j] = weakTable[j]
  <2>1. ToSet(weakDead') \subseteq Indices
    BY <1>3 DEF ToSet
  <2> QED BY <1>2, <1>3, <1>6, <1>7, <2>1
<1>14. EntriesOK'
  <2>1. \A j \in ToSet(weakLive) :
          weakTable'[j].a = j /\ weakTable'[j].b > 0 /\ weakTable'[j].p \in {"NIL", "cleanup"}
    BY <1>13 DEF Inv, EntriesOK
  <2>2. \A j \in Indices : weakTable'[j].a = j /\ weakTable'[j].b > 0 => j \in ToSet(weakLive)
    BY <1>7 DEF Inv, EntriesOK, Resolves
  <2> QED BY <1>1, <2>1, <2>2 DEF EntriesOK, Resolves
<1>15. WeakBit'
  <2>1. weak = {weakTable[j].r : j \in {k \in ToSet(weakLive) : weakTable[k].p = "cleanup"}}
    BY DEF Inv, WeakBit
  <2>2. weak = {weakTable'[j].r : j \in {k \in ToSet(weakLive) : weakTable'[k].p = "cleanup"}}
    BY <1>13, <2>1
  <2> QED BY <1>1, <2>2 DEF WeakBit
<1>16. TableReferents' \subseteq TableReferents
  BY <1>1, <1>3, <1>13 DEF TableReferents, Referents
<1>17. /\ TableReferents' \subseteq heap
       /\ collectorState \in {4, 5} => TableReferents' \subseteq moved'
  BY <1>9, <1>16 DEF Inv, InHeap, PhaseOK, Darker
<1>18. collectorState = 5 => gray' = {}
  BY <1>8, <1>9, InvFacts
<1> QED BY <1>1, <1>9, <1>10, <1>8, <1>11, <1>12, <1>14, <1>15, <1>17, <1>18, InvFacts, SamePhase
        DEF Collecting

------------------------------------------------------------------------------
(* PostHandleWeakRefs.                                                     *)

DyingSet(p) == {i \in ToSet(weakLive) : Unmoved(i) /\ weakTable[i].p = p}

DeadObjects == Referents(weakDead) \cup {weakTable[i].r : i \in DyingSet("cleanup")}

FinalisingSet == {i \in ToSet(weakFinal) : Unmoved(i) /\ weakTable[i].r \notin DeadObjects}

LEMMA DyingList ==
  ASSUME weakLive \in Seq(Indices), NEW p
  PROVE  /\ Dying(p) \in Seq(Indices) /\ ToSet(Dying(p)) = DyingSet(p)
         /\ IsInjective(weakLive) => IsInjective(Dying(p))
<1> DEFINE S == {i \in Indices : Unmoved(i) /\ weakTable[i].p = p}
           s == Selected(weakLive, S)
<1>1. ToSet(weakLive) \subseteq Indices
  BY DEF ToSet
<1>2. ToSet(weakLive) \cap S = DyingSet(p)
  BY <1>1 DEF DyingSet
<1> HIDE DEF S
<1>3. /\ s \in Seq(Indices) /\ ToSet(s) = DyingSet(p)
      /\ IsInjective(weakLive) => IsInjective(s)
  BY <1>2, SelectedList
<1> HIDE DEF s
<1>4. /\ Reverse(s) \in Seq(Indices) /\ ToSet(Reverse(s)) = ToSet(s)
      /\ IsInjective(s) => IsInjective(Reverse(s))
  BY <1>3, ReverseList
<1>5. Dying(p) = Reverse(s)
  BY DEF Dying, s, S
<1> QED BY <1>3, <1>4, <1>5

(* The objects that PostHandleWeakRefs moves. *)
LEMMA DeadReferents ==
  ASSUME weakLive \in Seq(Indices), weakDead \in Seq(Indices)
  PROVE  Referents(weakDead \o Dying("cleanup")) = DeadObjects
<1>1. Dying("cleanup") \in Seq(Indices) /\ ToSet(Dying("cleanup")) = DyingSet("cleanup")
  BY DyingList
<1>2. ToSet(weakDead \o Dying("cleanup")) = ToSet(weakDead) \cup DyingSet("cleanup")
  BY <1>1, ConcatList
<1> QED BY <1>2 DEF Referents, DeadObjects

LEMMA FinalisingList ==
  ASSUME weakLive \in Seq(Indices), weakDead \in Seq(Indices), weakFinal \in Seq(Indices)
  PROVE  /\ Finalising \in Seq(Indices) /\ ToSet(Finalising) = FinalisingSet
         /\ IsInjective(weakFinal) => IsInjective(Finalising)
<1> DEFINE S == {i \in Indices : Unmoved(i) /\ weakTable[i].r \notin DeadObjects}
           s == Selected(weakFinal, S)
<1>1. ToSet(weakFinal) \subseteq Indices
  BY DEF ToSet
<1>2. ToSet(weakFinal) \cap S = FinalisingSet
  BY <1>1 DEF FinalisingSet
<1>3. Finalising = Reverse(s)
  BY DeadReferents DEF Finalising
<1> HIDE DEF S
<1>4. /\ s \in Seq(Indices) /\ ToSet(s) = FinalisingSet
      /\ IsInjective(weakFinal) => IsInjective(s)
  BY <1>2, SelectedList
<1> HIDE DEF s
<1>5. /\ Reverse(s) \in Seq(Indices) /\ ToSet(Reverse(s)) = ToSet(s)
      /\ IsInjective(s) => IsInjective(Reverse(s))
  BY <1>4, ReverseList
<1> QED BY <1>4, <1>5, <1>3

(* The lists afterwards. *)
LEMMA ThreeLists ==
  ASSUME Inv, CollectSomeInStateThree
  PROVE  /\ weakLive' \in Seq(Indices) /\ weakFinal' \in Seq(Indices)
         /\ weakDead' \in Seq(Indices) /\ weakFree' \in Seq(Indices)
         /\ ToSet(weakLive') = {i \in ToSet(weakLive) : ~Unmoved(i)}
         /\ ToSet(weakFinal') = ToSet(weakFinal) \ FinalisingSet
         /\ ToSet(weakDead') = DyingSet("cleanup") \cup ToSet(weakDead)
         /\ Parted(weakLive', weakFinal', weakDead', weakFree', size)
<1>1. /\ weakLive \in Seq(Indices) /\ weakFinal \in Seq(Indices)
      /\ weakDead \in Seq(Indices) /\ weakFree \in Seq(Indices)
      /\ ToSet(weakLive) \subseteq Indices /\ ToSet(weakFinal) \subseteq Indices
      /\ Parted(weakLive, weakFinal, weakDead, weakFree, size)
  BY ListsParted DEF Inv, TypeOK, ToSet
<1>2. /\ Dying("NIL") \in Seq(Indices) /\ ToSet(Dying("NIL")) = DyingSet("NIL")
      /\ IsInjective(Dying("NIL"))
      /\ Dying("cleanup") \in Seq(Indices) /\ ToSet(Dying("cleanup")) = DyingSet("cleanup")
      /\ IsInjective(Dying("cleanup"))
  BY <1>1, DyingList DEF Parted
<1>3. /\ Finalising \in Seq(Indices) /\ ToSet(Finalising) = FinalisingSet
      /\ IsInjective(Finalising)
  BY <1>1, FinalisingList DEF Parted
<1>4. /\ weakLive' \in Seq(Indices) /\ IsInjective(weakLive')
      /\ ToSet(weakLive') = {i \in ToSet(weakLive) : ~Unmoved(i)}
  <2> DEFINE S == {i \in Indices : ~Unmoved(i)}
  <2>1. ToSet(weakLive) \cap S = {i \in ToSet(weakLive) : ~Unmoved(i)}
    BY <1>1
  <2>2. weakLive' = Selected(weakLive, S)
    BY DEF CollectSomeInStateThree
  <2> HIDE DEF S
  <2> QED BY <1>1, <2>1, <2>2, SelectedList DEF Parted
<1>5. /\ weakFinal' \in Seq(Indices) /\ IsInjective(weakFinal')
      /\ ToSet(weakFinal') = ToSet(weakFinal) \ FinalisingSet
  <2> DEFINE S == Indices \ ToSet(Finalising)
  <2>1. ToSet(weakFinal) \cap S = ToSet(weakFinal) \ FinalisingSet
    BY <1>1, <1>3
  <2>2. weakFinal' = Selected(weakFinal, S)
    BY DEF CollectSomeInStateThree
  <2> HIDE DEF S
  <2> QED BY <1>1, <2>1, <2>2, SelectedList DEF Parted
<1>6. /\ DyingSet("cleanup") \subseteq ToSet(weakLive) /\ DyingSet("NIL") \subseteq ToSet(weakLive)
      /\ FinalisingSet \subseteq ToSet(weakFinal)
      /\ DyingSet("cleanup") \cap DyingSet("NIL") = {}
      /\ ToSet(weakLive) = {i \in ToSet(weakLive) : ~Unmoved(i)} \cup DyingSet("cleanup") \cup DyingSet("NIL")
      /\ (DyingSet("cleanup") \cup DyingSet("NIL")) \cap {i \in ToSet(weakLive) : ~Unmoved(i)} = {}
  BY DEF DyingSet, FinalisingSet, Inv, EntriesOK
<1>7. /\ weakDead' \in Seq(Indices) /\ IsInjective(weakDead')
      /\ ToSet(weakDead') = DyingSet("cleanup") \cup ToSet(weakDead)
  <2>1. weakDead' = Dying("cleanup") \o weakDead
    BY DEF CollectSomeInStateThree
  <2>2. DyingSet("cleanup") \cap ToSet(weakDead) = {}
    BY <1>1, <1>6 DEF Parted
  <2> QED BY <1>1, <1>2, <2>1, <2>2, ConcatList DEF Parted
<1>8. /\ weakFree' \in Seq(Indices) /\ IsInjective(weakFree')
      /\ ToSet(weakFree') = FinalisingSet \cup DyingSet("NIL") \cup ToSet(weakFree)
  <2> DEFINE some == Finalising \o Dying("NIL")
  <2>1. weakFree' = some \o weakFree
    BY DEF CollectSomeInStateThree
  <2>2. FinalisingSet \cap DyingSet("NIL") = {}
    BY <1>1, <1>6 DEF Parted
  <2>3. /\ some \in Seq(Indices) /\ IsInjective(some)
        /\ ToSet(some) = FinalisingSet \cup DyingSet("NIL")
    BY <1>2, <1>3, <2>2, ConcatList
  <2> HIDE DEF some
  <2>4. ToSet(some) \cap ToSet(weakFree) = {}
    BY <1>1, <1>6, <2>3 DEF Parted
  <2> QED BY <1>1, <2>1, <2>3, <2>4, ConcatList DEF Parted
<1> HIDE DEF CollectSomeInStateThree
<1>9. Parted(weakLive', weakFinal', weakDead', weakFree', size)
  BY <1>1, <1>4, <1>5, <1>6, <1>7, <1>8 DEF Parted
<1> QED BY <1>4, <1>5, <1>7, <1>8, <1>9

(* The entries afterwards. *)
LEMMA ThreeEntries ==
  ASSUME Inv, CollectSomeInStateThree
  PROVE  /\ weakTable' \in [Indices -> Entry]
         /\ \A i \in Indices : weakTable'[i].b = weakTable[i].b
         /\ \A i \in DyingSet("cleanup") : /\ weakTable'[i].a = -1
                                           /\ weakTable'[i].r = weakTable[i].r
         /\ \A i \in DyingSet("NIL") : weakTable'[i].a = -1
         /\ \A i \in FinalisingSet : weakTable'[i].a = weakTable[i].a
         /\ \A i \in Indices \ (DyingSet("cleanup") \cup DyingSet("NIL") \cup FinalisingSet) :
              weakTable'[i] = weakTable[i]
<1>1. /\ weakLive \in Seq(Indices) /\ weakFinal \in Seq(Indices) /\ weakDead \in Seq(Indices)
      /\ ToSet(weakLive) \subseteq Indices /\ ToSet(weakFinal) \subseteq Indices
      /\ weakTable \in [Indices -> Entry]
      /\ Parted(weakLive, weakFinal, weakDead, weakFree, size)
  BY ListsParted DEF Inv, TypeOK, ToSet
<1>2. /\ ToSet(Finalising) = FinalisingSet /\ ToSet(Dying("NIL")) = DyingSet("NIL")
      /\ ToSet(Dying("cleanup")) = DyingSet("cleanup")
  BY <1>1, DyingList, FinalisingList
<1>3. /\ DyingSet("cleanup") \subseteq ToSet(weakLive) /\ DyingSet("NIL") \subseteq ToSet(weakLive)
      /\ FinalisingSet \subseteq ToSet(weakFinal)
      /\ DyingSet("cleanup") \cap DyingSet("NIL") = {}
  BY DEF DyingSet, FinalisingSet
<1>4. /\ FinalisingSet \cap DyingSet("NIL") = {} /\ FinalisingSet \cap DyingSet("cleanup") = {}
  BY <1>1, <1>3 DEF Parted
<1>5. weakTable' = [i \in Indices |->
        CASE i \in FinalisingSet       -> Freed(weakTable[i])
          [] i \in DyingSet("NIL")     -> [Freed(weakTable[i]) EXCEPT !.a = -1]
          [] i \in DyingSet("cleanup") -> [weakTable[i] EXCEPT !.a = -1]
          [] OTHER                     -> weakTable[i]]
  BY <1>2 DEF CollectSomeInStateThree
<1>6. ASSUME NEW i \in Indices
      PROVE  /\ weakTable'[i] \in Entry /\ weakTable'[i].b = weakTable[i].b
             /\ i \in DyingSet("cleanup") => weakTable'[i].a = -1 /\ weakTable'[i].r = weakTable[i].r
             /\ i \in DyingSet("NIL") => weakTable'[i].a = -1
             /\ i \in FinalisingSet => weakTable'[i].a = weakTable[i].a
             /\ i \notin DyingSet("cleanup") \cup DyingSet("NIL") \cup FinalisingSet
                  => weakTable'[i] = weakTable[i]
  <2> DEFINE freed == Freed(weakTable[i])
             cleared == [freed EXCEPT !.a = -1]
             dead == [weakTable[i] EXCEPT !.a = -1]
  <2>0. weakTable'[i] = CASE i \in FinalisingSet       -> freed
                          [] i \in DyingSet("NIL")     -> cleared
                          [] i \in DyingSet("cleanup") -> dead
                          [] OTHER                     -> weakTable[i]
    BY <1>5
  <2>1. weakTable[i] \in Entry
    BY <1>1
  <2> HIDE DEF freed, cleared, dead
  <2>2. CASE i \in FinalisingSet
    <3>1. weakTable'[i] = freed
      BY <1>4, <2>0, <2>2
    <3> QED BY <1>4, <2>1, <2>2, <3>1 DEF freed, Freed, Entry
  <2>3. CASE i \in DyingSet("NIL")
    <3>1. weakTable'[i] = cleared
      BY <1>3, <1>4, <2>0, <2>3
    <3> QED BY <1>3, <1>4, <2>1, <2>3, <3>1 DEF cleared, freed, Freed, Entry
  <2>4. CASE i \in DyingSet("cleanup")
    <3>1. weakTable'[i] = dead
      BY <1>3, <1>4, <2>0, <2>4
    <3> QED BY <1>3, <1>4, <2>1, <2>4, <3>1 DEF dead, Entry
  <2>5. CASE i \notin DyingSet("cleanup") \cup DyingSet("NIL") \cup FinalisingSet
    <3>1. weakTable'[i] = weakTable[i]
      BY <1>5, <2>5
    <3> QED BY <2>1, <2>5, <3>1
  <2> QED BY <2>2, <2>3, <2>4, <2>5
<1>7. weakTable' \in [Indices -> Entry]
  BY <1>5, <1>6
<1> QED BY <1>1, <1>3, <1>6, <1>7

LEMMA StateThreeStep ==
  ASSUME Inv, CollectSomeInStateThree
  PROVE  Inv'
<1>1. /\ collectorState = 3 /\ gray = {} /\ collectorState' = 4
      /\ Move(Referents(weakDead \o Dying("cleanup"))) /\ weak' = ClearWeak
      /\ finalised' = finalised \cup Referents(Finalising)
      /\ cleaner' = IF cleaner = "waiting" THEN "ready" ELSE cleaner
      /\ UNCHANGED <<heap, refs, roots, size, copy>> /\ Copy' = Copy
  BY DEF CollectSomeInStateThree, heapVars, Copy, BroadcastHeap
<1>2. /\ weakLive \in Seq(Indices) /\ weakFinal \in Seq(Indices) /\ weakDead \in Seq(Indices)
      /\ ToSet(weakLive) \subseteq Indices /\ ToSet(weakFinal) \subseteq Indices
      /\ ToSet(weakDead) \subseteq Indices
      /\ Parted(weakLive, weakFinal, weakDead, weakFree, size)
      /\ size \in 0 .. MaxEntries /\ weak \subseteq heap
  BY ListsParted DEF Inv, TypeOK, ToSet
<1>3. /\ weakLive' \in Seq(Indices) /\ weakFinal' \in Seq(Indices)
      /\ weakDead' \in Seq(Indices) /\ weakFree' \in Seq(Indices)
      /\ ToSet(weakLive') = {i \in ToSet(weakLive) : ~Unmoved(i)}
      /\ ToSet(weakFinal') = ToSet(weakFinal) \ FinalisingSet
      /\ ToSet(weakDead') = DyingSet("cleanup") \cup ToSet(weakDead)
      /\ Parted(weakLive', weakFinal', weakDead', weakFree', size)
  BY ThreeLists
<1>4. /\ weakTable' \in [Indices -> Entry]
      /\ \A i \in DyingSet("cleanup") : weakTable'[i].a = -1 /\ weakTable'[i].r = weakTable[i].r
      /\ \A i \in DyingSet("NIL") : weakTable'[i].a = -1
      /\ \A i \in FinalisingSet : weakTable'[i].a = weakTable[i].a
      /\ \A i \in Indices : weakTable'[i].b = weakTable[i].b
      /\ \A i \in Indices \ (DyingSet("cleanup") \cup DyingSet("NIL") \cup FinalisingSet) :
           weakTable'[i] = weakTable[i]
  BY ThreeEntries
<1>5. /\ DyingSet("cleanup") \subseteq ToSet(weakLive) /\ DyingSet("NIL") \subseteq ToSet(weakLive)
      /\ FinalisingSet \subseteq ToSet(weakFinal)
      /\ \A i \in DyingSet("cleanup") \cup DyingSet("NIL") \cup FinalisingSet : Unmoved(i)
      /\ \A i \in ToSet(weakLive) : Unmoved(i) => i \in DyingSet("cleanup") \cup DyingSet("NIL")
  BY DEF DyingSet, FinalisingSet, Inv, EntriesOK
<1>6. DeadObjects \subseteq TableReferents /\ TableReferents \subseteq heap
  BY <1>5 DEF DeadObjects, TableReferents, Referents, Inv, InHeap
<1>7. Colours' /\ Darker /\ moved' = moved \cup DeadObjects
  <2>1. Move(DeadObjects)
    BY <1>1, <1>2, DeadReferents
  <2> QED BY <1>1, <1>6, <2>1, InvFacts, MoveKeeps DEF Collecting
<1>8. /\ \A i \in ToSet(weakLive') \cup ToSet(weakFinal') \cup ToSet(weakDead) : weakTable'[i] = weakTable[i]
      /\ \A i \in ToSet(weakLive') : ~Unmoved(i)
  BY <1>2, <1>3, <1>4, <1>5 DEF Parted
<1>9. TypeOK'
  <2>1. Referents(Finalising) \subseteq Objects
    <3>1. \A i \in ToSet(Finalising) : weakTable[i].r \in heap
      BY <1>2, <1>5, <1>6, FinalisingList DEF TableReferents, Referents
    <3> QED BY <3>1, InvFacts DEF Referents
  <2>2. weak' \subseteq heap'
    BY <1>1, <1>2 DEF ClearWeak
  <2> QED BY <1>1, <1>2, <1>3, <1>4, <1>7, <2>1, <2>2, InvFacts DEF Inv, TypeOK, Colours
<1>10. TableReferents' \subseteq moved' /\ TableReferents' \subseteq heap'
  <2>1. \A i \in ToSet(weakLive') : weakTable'[i].r \in moved'
    BY <1>7, <1>8 DEF Unmoved
  <2>2. \A i \in ToSet(weakDead') : weakTable'[i].r \in DeadObjects
    BY <1>3, <1>4, <1>8 DEF DeadObjects, Referents
  <2>3. \A i \in ToSet(weakFinal') : weakTable'[i].r \in moved'
    BY <1>3, <1>7, <1>8 DEF FinalisingSet, Unmoved
  <2>4. TableReferents' \subseteq moved'
    BY <1>7, <2>1, <2>2, <2>3 DEF TableReferents, Referents
  <2> QED BY <1>7, <2>4 DEF Colours
<1>11. InHeap'
  BY <1>1, <1>7, <1>10, InvFacts DEF InHeap, Colours
<1>12. TriColour'
  BY <1>1, <1>7, InvFacts DEF TriColour, Collecting, Colours, Darker
<1>13. PhaseOK'
  BY <1>1, <1>7, <1>10, InvFacts DEF PhaseOK, Collecting
<1>14. WalkOK'
  BY <1>1 DEF WalkOK
<1>15. ListsOK'
  BY <1>1, <1>3, ListsPartedNext
<1>16. EntriesOK'
  <2>1. \A i \in ToSet(weakLive') :
          weakTable'[i].a = i /\ weakTable'[i].b > 0 /\ weakTable'[i].p \in {"NIL", "cleanup"}
    BY <1>3, <1>8 DEF Inv, EntriesOK
  <2>2. ASSUME NEW i \in Indices, weakTable'[i].a = i, weakTable'[i].b > 0
        PROVE  i \in ToSet(weakLive')
    <3>1. i # -1
      BY BoundsAssumption DEF Indices
    <3>2. i \notin DyingSet("cleanup") \cup DyingSet("NIL")
      BY <1>4, <2>2, <3>1
    <3>3. weakTable[i].a = i /\ weakTable[i].b > 0
      BY <1>4, <2>2, <3>2
    <3>4. i \in ToSet(weakLive)
      BY <3>3 DEF Inv, EntriesOK, Resolves
    <3> QED BY <1>3, <1>5, <3>2, <3>4
  <2> QED BY <2>1, <2>2 DEF EntriesOK, Resolves
<1>17. WeakBit'
  <2>1. weak = {weakTable[i].r : i \in {j \in ToSet(weakLive) : weakTable[j].p = "cleanup"}}
    BY DEF Inv, WeakBit
  <2>2. weak' = weak \ (Referents(weakLive) \ moved)
    BY <1>1 DEF ClearWeak
  <2>3. ASSUME NEW w \in weak'
        PROVE  \E i \in ToSet(weakLive') : weakTable'[i].p = "cleanup" /\ w = weakTable'[i].r
    <3>1. PICK i \in ToSet(weakLive) : weakTable[i].p = "cleanup" /\ w = weakTable[i].r
      BY <2>1, <2>2
    <3>2. w \in moved
      BY <2>2, <3>1 DEF Referents
    <3>3. i \in ToSet(weakLive')
      BY <1>3, <3>1, <3>2 DEF Unmoved
    <3> QED BY <1>8, <3>1, <3>3
  <2>4. ASSUME NEW i \in ToSet(weakLive'), weakTable'[i].p = "cleanup"
        PROVE  weakTable'[i].r \in weak'
    <3>1. /\ weakTable'[i] = weakTable[i] /\ weakTable[i].r \in moved /\ i \in ToSet(weakLive)
      BY <1>3, <1>8 DEF Unmoved
    <3> QED BY <2>1, <2>2, <2>4, <3>1
  <2> QED BY <2>3, <2>4 DEF WeakBit
<1> QED BY <1>9, <1>11, <1>12, <1>13, <1>14, <1>15, <1>16, <1>17 DEF Inv

------------------------------------------------------------------------------
(* The invariant.                                                          *)

LEMMA InitInv == Init => Inv
<1> SUFFICES ASSUME Init PROVE Inv
  OBVIOUS
<1>1. /\ <<>> \in Seq(Indices) /\ ToSet(<<>>) = {} /\ IsInjective(<<>>)
  BY DEF ToSet, IsInjective
<1>2. /\ heap = {} /\ refs = [x \in Objects |-> {}] /\ roots = {}
      /\ collectorState = 0 /\ moved = {} /\ gray = {} /\ size = 0 /\ weak = {}
      /\ weakTable = [i \in Indices |-> [a |-> 0, b |-> 0, r |-> NIL, p |-> "NIL"]]
      /\ weakLive = <<>> /\ weakFinal = <<>> /\ weakDead = <<>> /\ weakFree = <<>>
      /\ cleaner = "unborn" /\ copy = NIL /\ finalised = {}
  BY DEF Init
<1>3. Copy = {} /\ TableReferents = {}
  BY <1>1, <1>2 DEF Copy, TableReferents, Referents
<1>4. TypeOK
  <2>1. weakTable \in [Indices -> Entry]
    <3>1. \A i \in Indices : 0 \in Indices \cup {-1}
      BY BoundsAssumption DEF Indices
    <3> QED BY <1>2, <3>1 DEF Entry
  <2>2. size \in 0 .. MaxEntries
    BY <1>2, BoundsAssumption
  <2>3. refs \in [Objects -> SUBSET Objects]
    BY <1>2
  <2> QED BY <1>1, <1>2, <2>1, <2>2, <2>3 DEF TypeOK
<1>5. InHeap /\ TriColour /\ PhaseOK /\ WalkOK
  BY <1>2, <1>3 DEF InHeap, TriColour, PhaseOK, WalkOK, Collecting
<1>6. ListsOK
  <2>1. Parted(<<>>, <<>>, <<>>, <<>>, 0)
    BY <1>1 DEF Parted
  <2> QED BY <1>2, <2>1, ListsParted
<1>7. EntriesOK /\ WeakBit
  BY <1>1, <1>2 DEF EntriesOK, WeakBit, Resolves
<1> QED BY <1>4, <1>5, <1>6, <1>7 DEF Inv

LEMMA NextInv == Inv /\ [Next]_vars => Inv'
<1> SUFFICES ASSUME Inv, [Next]_vars PROVE Inv'
  OBVIOUS
<1>1. ASSUME NEW x \in Objects, New(x) \/ Drop(x) \/ RegisterFinalCleanup(x)
      PROVE  Inv'
  BY <1>1, NewStep, DropStep, RegisterStep
<1>2. ASSUME NEW x \in Objects, NEW y \in Objects, Load(x, y) \/ Store(x, y) \/ Clear(x, y)
      PROVE  Inv'
  BY <1>2, LoadStep, StoreStep, ClearStep
<1>3. ASSUME NEW x \in Objects, NEW p \in {"NIL", "cleanup"}, WeakRefFromRef(x, p)
      PROVE  Inv'
  BY <1>3, FromRefStep
<1>4. ASSUME NEW i \in Indices, WeakRefToRef(i)
      PROVE  Inv'
  BY <1>4, ToRefStep
<1>5. ASSUME NEW x \in Objects, CopySome(x)
      PROVE  Inv'
  BY <1>5, CopySomeStep
<1>6. CASE CollectSomeInStateZero \/ CopiedAll \/ CollectSomeInStateTwo
           \/ CollectSomeInStateThree \/ CollectSomeInStateFive
  BY <1>6, StateZeroStep, CopiedAllStep, StateTwoStep, StateThreeStep, StateFiveStep
<1>7. CASE WaitHeapReturns \/ WeakCleaner
  BY <1>7, CleanerStep, TakeDeadStep DEF WeakCleaner
<1>8. CASE UNCHANGED vars
  <2>1. /\ UNCHANGED <<heap, refs, roots, collectorState, moved, gray, weakVars, cleaner, copy, finalised>>
        /\ Copy' = Copy
    BY <1>8 DEF vars, heapVars, weakVars, cleanerVars, Copy
  <2> QED BY <2>1, InvFacts, SameTable DEF Darker, Colours, Collecting
<1>9. CASE Program
  BY <1>1, <1>2, <1>3, <1>4, <1>9 DEF Program
<1>10. CASE CollectSome
  BY <1>5, <1>6, <1>10 DEF CollectSome
<1> QED BY <1>7, <1>8, <1>9, <1>10 DEF Next

(* Every reachable state satisfies the inductive invariant: nothing the    *)
(* program or the table refers to is outside the heap, the colours of the  *)
(* collector are sound, and table and Weak bits agree, with any number of  *)
(* objects and weak refs.                                                  *)
THEOREM Invariance == Spec => []Inv
<1>1. Init => Inv
  BY InitInv
<1>2. Inv /\ [Next]_vars => Inv'
  BY NextInv
<1> QED BY <1>1, <1>2, PTL DEF Spec

(* Every variable keeps its type. *)
THEOREM TypeCorrect == Spec => []TypeOK
<1>1. Inv => TypeOK
  BY DEF Inv
<1> QED BY <1>1, Invariance, PTL

(* The collector frees nothing that the program can reach, from a stack or *)
(* through an object that awaits its cleanup procedure.                    *)
THEOREM NothingLostHolds == Spec => []NothingLost
<1>1. Inv => NothingLost
  <2> SUFFICES ASSUME Inv PROVE NothingLost
    OBVIOUS
  <2>1. /\ heap \in SUBSET Objects /\ \A y \in heap : refs[y] \subseteq heap
        /\ roots \cup Copy \cup Referents(weakDead) \subseteq heap
    BY DEF Inv, TypeOK, InHeap, TableReferents
  <2> QED BY <2>1, ReachWithin DEF NothingLost
<1> QED BY <1>1, Invariance, PTL

(* Weak refs and final cleanups in use are for objects that exist. *)
THEOREM EntriesInHeapHolds == Spec => []EntriesInHeap
<1>1. Inv => EntriesInHeap
  BY DEF Inv, InHeap, TableReferents, EntriesInHeap
<1> QED BY <1>1, Invariance, PTL

(* During a collection the program holds only black objects, and no black  *)
(* object refers to a white one, whatever it loads and stores.             *)
THEOREM TriColourHolds == Spec => []TriColour
<1>1. Inv => TriColour
  BY DEF Inv
<1> QED BY <1>1, Invariance, PTL

(* A list without duplicates is as long as its set of elements is large. *)
LEMMA ListLength ==
  ASSUME NEW S, NEW s \in Seq(S), IsInjective(s)
  PROVE  IsFiniteSet(ToSet(s)) /\ Cardinality(ToSet(s)) = Len(s)
<1>1. Len(s) \in Nat /\ DOMAIN s = 1 .. Len(s) /\ s \in [1 .. Len(s) -> ToSet(s)]
  BY DEF ToSet
<1>2. s \in Bijection(1 .. Len(s), ToSet(s))
  BY <1>1 DEF Bijection, Injection, Surjection, IsInjective, ToSet
<1>3. ExistsBijection(1 .. Len(s), ToSet(s))
  BY <1>2 DEF ExistsBijection
<1>4. IsFiniteSet(1 .. Len(s)) /\ Cardinality(1 .. Len(s)) = Len(s)
  BY <1>1, FS_Interval
<1> QED BY <1>3, <1>4, FS_Bijection

(* No entry of the table is lost or on two lists, and the Weak bit of an   *)
(* object tells whether it has a live cleanup, across expansions of the    *)
(* table, deaths and reuse.                                                *)
THEOREM TableSoundHolds == Spec => []TableSound
<1>1. Inv => TableSound
  <2> SUFFICES ASSUME Inv PROVE ListsPartition
    BY DEF TableSound, Inv
  <2> DEFINE two == weakLive \o weakFinal
             three == two \o weakDead
             all == three \o weakFree
  <2>1. /\ weakLive \in Seq(Indices) /\ weakFinal \in Seq(Indices)
        /\ weakDead \in Seq(Indices) /\ weakFree \in Seq(Indices) /\ size \in Nat
        /\ Parted(weakLive, weakFinal, weakDead, weakFree, size)
    BY ListsParted, BoundsAssumption DEF Inv, TypeOK
  <2>2. /\ two \in Seq(Indices) /\ IsInjective(two)
        /\ ToSet(two) = ToSet(weakLive) \cup ToSet(weakFinal)
    BY <2>1, ConcatList DEF Parted
  <2> HIDE DEF two
  <2>3. /\ three \in Seq(Indices) /\ IsInjective(three)
        /\ ToSet(three) = ToSet(weakLive) \cup ToSet(weakFinal) \cup ToSet(weakDead)
    <3>1. ToSet(two) \cap ToSet(weakDead) = {}
      BY <2>1, <2>2 DEF Parted
    <3> QED BY <2>1, <2>2, <3>1, ConcatList DEF Parted
  <2> HIDE DEF three
  <2>4. all \in Seq(Indices) /\ IsInjective(all) /\ ToSet(all) = 0 .. size - 1
    <3>1. ToSet(three) \cap ToSet(weakFree) = {}
      BY <2>1, <2>3 DEF Parted
    <3>2. IsInjective(weakFree)
      BY <2>1 DEF Parted
    <3>3. all \in Seq(Indices) /\ IsInjective(all) /\ ToSet(all) = ToSet(three) \cup ToSet(weakFree)
      BY <2>1, <2>3, <3>1, <3>2, ConcatList
    <3>4. ToSet(three) \cup ToSet(weakFree) = 0 .. size - 1
      BY <2>1, <2>3 DEF Parted
    <3> QED BY <3>3, <3>4
  <2> HIDE DEF all
  <2>5. Cardinality(0 .. size - 1) = size
    BY <2>1, FS_Interval
  <2>6. Len(all) = size
    BY <2>4, <2>5, ListLength
  <2> QED BY <2>4, <2>6 DEF ListsPartition, all, three, two
<1> QED BY <1>1, Invariance, PTL

------------------------------------------------------------------------------
(* The death of weak refs.                                                 *)

(* What steps may change the table or call a final cleanup. *)
LEMMA TableChanges ==
  ASSUME [Next]_vars
  PROVE  \/ \E x \in Objects : RegisterFinalCleanup(x)
         \/ \E x \in Objects, p \in {"NIL", "cleanup"} : WeakRefFromRef(x, p)
         \/ TakeDead
         \/ CollectSomeInStateThree
         \/ weakTable' = weakTable /\ weakLive' = weakLive /\ finalised' \subseteq finalised
<1>1. ASSUME NEW x \in Objects, New(x) \/ Drop(x)
      PROVE  weakTable' = weakTable /\ weakLive' = weakLive /\ finalised' \subseteq finalised
  BY <1>1 DEF New, Drop, weakVars
<1>2. ASSUME NEW x \in Objects, NEW y \in Objects, Load(x, y) \/ Store(x, y) \/ Clear(x, y)
      PROVE  weakTable' = weakTable /\ weakLive' = weakLive /\ finalised' \subseteq finalised
  BY <1>2 DEF Load, Store, Clear, weakVars
<1>3. ASSUME NEW i \in Indices, WeakRefToRef(i)
      PROVE  weakTable' = weakTable /\ weakLive' = weakLive /\ finalised' \subseteq finalised
  BY <1>3 DEF WeakRefToRef, weakVars
<1>4. ASSUME NEW x \in Objects, CopySome(x)
      PROVE  weakTable' = weakTable /\ weakLive' = weakLive /\ finalised' \subseteq finalised
  BY <1>4 DEF CopySome, weakVars
<1>5. ASSUME CollectSomeInStateZero \/ CopiedAll \/ CollectSomeInStateTwo \/ CollectSomeInStateFive
      PROVE  weakTable' = weakTable /\ weakLive' = weakLive /\ finalised' \subseteq finalised
  BY <1>5 DEF CollectSomeInStateZero, CopiedAll, CollectSomeInStateTwo, CollectSomeInStateFive, weakVars
<1>6. ASSUME WaitHeapReturns \/ WaitHeap \/ CallCleanup \/ CleanupReturns
      PROVE  weakTable' = weakTable /\ weakLive' = weakLive /\ finalised' \subseteq finalised
  BY <1>6 DEF WaitHeapReturns, WaitHeap, CallCleanup, CleanupReturns, weakVars
<1>7. ASSUME UNCHANGED vars
      PROVE  weakTable' = weakTable /\ weakLive' = weakLive /\ finalised' \subseteq finalised
  BY <1>7 DEF vars, weakVars
<1>8. CASE Program
  BY <1>1, <1>2, <1>3, <1>8 DEF Program
<1>9. CASE CollectSome
  BY <1>4, <1>5, <1>9 DEF CollectSome
<1>10. CASE WeakCleaner \/ WaitHeapReturns
  BY <1>6, <1>10 DEF WeakCleaner
<1> QED BY <1>7, <1>8, <1>9, <1>10 DEF Next

(* When PostHandleWeakRefs runs, nothing of the old space can be reached   *)
(* from the stacks or from what is about to be cleaned up.                 *)
LEMMA OldUnreachable ==
  ASSUME Inv, CollectSomeInStateThree
  PROVE  Reach(roots \cup Copy, refs) \subseteq moved
<1>1. collectorState = 3 /\ gray = {}
  BY DEF CollectSomeInStateThree
<1>2. /\ moved \in SUBSET Objects /\ roots \cup Copy \subseteq moved
      /\ \A x \in moved : refs[x] \subseteq moved
  BY <1>1, InvFacts DEF Collecting, Colours
<1> QED BY <1>2, ReachWithin

(* Nor can an object that is left behind be reached from another one with  *)
(* a live cleanup: the new space and the sets around those others are      *)
(* closed and do not hold it.                                              *)
LEMMA DyingIsolated ==
  ASSUME Inv, CollectSomeInStateThree, NEW r \in weak \ moved
  PROVE  r \notin Reach(weak \ {r}, refs)
<1> DEFINE Around(F, w) == /\ w \in F /\ F \cap weak \subseteq moved \cup {w}
                           /\ \A y \in F \ moved : refs[y] \subseteq F \cup moved
           C == {x \in Objects : \/ x \in moved
                                 \/ \E w \in weak \ {r} : \E F \in SUBSET Objects :
                                      Around(F, w) /\ w \notin moved /\ x \in F}
<1>1. collectorState = 3 /\ gray = {}
  BY DEF CollectSomeInStateThree
<1>2. moved \subseteq Objects /\ \A x \in moved : refs[x] \subseteq moved
  BY <1>1, InvFacts DEF Collecting, Colours
<1>3. weak \subseteq Objects /\ refs \in [Objects -> SUBSET Objects]
  BY DEF Inv, TypeOK
<1>4. weak \ {r} \subseteq C
  <2> SUFFICES ASSUME NEW w \in weak \ {r}, w \notin moved PROVE w \in C
    BY <1>3
  <2>1. Isolated(w, moved)
    BY <1>1 DEF Inv, WalkOK
  <2>2. PICK F \in SUBSET Objects : Around(F, w)
    BY <2>1 DEF Isolated
  <2> QED BY <1>3, <2>2
<1>5. r \notin C
  <2> SUFFICES ASSUME NEW w \in weak \ {r}, NEW F \in SUBSET Objects, Around(F, w), r \in F
               PROVE  FALSE
    OBVIOUS
  <2> QED OBVIOUS
<1>6. ASSUME NEW y \in C
      PROVE  refs[y] \subseteq C
  <2>1. CASE y \in moved
    BY <1>2, <2>1
  <2>2. CASE y \notin moved
    <3>1. PICK w \in weak \ {r} : \E F \in SUBSET Objects :
            Around(F, w) /\ w \notin moved /\ y \in F
      BY <2>2
    <3>2. PICK F \in SUBSET Objects : Around(F, w) /\ w \notin moved /\ y \in F
      BY <3>1
    <3>3. refs[y] \subseteq F \cup moved
      BY <2>2, <3>2
    <3>4. F \subseteq C /\ moved \subseteq C
      BY <1>2, <3>2
    <3> QED BY <3>3, <3>4
  <2> QED BY <2>1, <2>2
<1>7. C \in SUBSET Objects
  OBVIOUS
<1> HIDE DEF C
<1>8. Reach(weak \ {r}, refs) \subseteq C
  BY <1>4, <1>6, <1>7, ReachWithin
<1> QED BY <1>5, <1>8

(* A weak ref dies only when its object is unreachable, in the words of    *)
(* WeakRef.i3, or at least no stack leads to it and it has no cleanup or   *)
(* no other object with a live cleanup leads to it.                        *)
THEOREM DiesUnreachableHolds == Spec => DiesUnreachable
<1> DEFINE Good == \A i \in ToSet(weakLive) \ ToSet(weakLive') :
                     LET r == weakTable[i].r IN
                       /\ r \notin Reach(roots \cup Copy, refs)
                       /\ \/ r \notin Reach(ReachRoots(r), refs)
                          \/ weakTable[i].p = "NIL"
                          \/ r \notin Reach(weak \ {r}, refs)
<1>1. Inv /\ [Next]_vars => Good
  <2> SUFFICES ASSUME Inv, [Next]_vars, NEW i \in ToSet(weakLive), i \notin ToSet(weakLive')
               PROVE  /\ weakTable[i].r \notin Reach(roots \cup Copy, refs)
                      /\ weakTable[i].p = "cleanup"
                           => weakTable[i].r \notin Reach(weak \ {weakTable[i].r}, refs)
    BY DEF Inv, EntriesOK
  <2>1. CASE CollectSomeInStateThree
    <3>1. weakTable[i].r \notin moved
      BY <2>1, ThreeLists DEF Unmoved
    <3>2. weakTable[i].p = "cleanup" => weakTable[i].r \in weak
      BY DEF Inv, WeakBit
    <3>3. weakTable[i].r \notin Reach(roots \cup Copy, refs)
      BY <2>1, <3>1, OldUnreachable
    <3>4. ASSUME weakTable[i].p = "cleanup"
          PROVE  weakTable[i].r \notin Reach(weak \ {weakTable[i].r}, refs)
      <4>1. weakTable[i].r \in weak \ moved
        BY <3>1, <3>2, <3>4
      <4> QED BY <2>1, <4>1, DyingIsolated
    <3> QED BY <3>3, <3>4
  <2>2. ASSUME NEW x \in Objects, NEW p \in {"NIL", "cleanup"}, WeakRefFromRef(x, p)
        PROVE  FALSE
    <3>1. /\ ExpandedSize <= MaxEntries /\ weakLive' = <<Head(ExpandedFree)>> \o weakLive
      BY <2>2 DEF WeakRefFromRef
    <3>2. ToSet(weakLive') = {Head(ExpandedFree)} \cup ToSet(weakLive)
      BY <3>1, EntryTaken
    <3> QED BY <3>2
  <2>3. weakLive' = weakLive => FALSE
    OBVIOUS
  <2>4. ASSUME TakeDead \/ \E x \in Objects : RegisterFinalCleanup(x)
        PROVE  weakLive' = weakLive
    BY <2>4 DEF TakeDead, RegisterFinalCleanup
  <2> QED BY <2>1, <2>2, <2>3, <2>4, TableChanges
<1> HIDE DEF Good
<1>2. Spec => [][Good]_vars
  BY <1>1, Invariance, PTL DEF Spec
<1> QED BY <1>2 DEF DiesUnreachable, Good

(* Final cleanup is called only for objects that no stack leads to.        *)
THEOREM FinalUnreachableHolds == Spec => FinalUnreachable
<1> DEFINE Good == (finalised' \ finalised) \cap Reach(roots \cup Copy, refs) = {}
<1>1. Inv /\ [Next]_vars => Good
  <2> SUFFICES ASSUME Inv, [Next]_vars, NEW x \in finalised' \ finalised
               PROVE  x \notin Reach(roots \cup Copy, refs)
    OBVIOUS
  <2>1. CASE CollectSomeInStateThree
    <3>1. finalised' = finalised \cup Referents(Finalising)
      BY <2>1 DEF CollectSomeInStateThree
    <3>2. ToSet(Finalising) = FinalisingSet
      BY FinalisingList DEF Inv, TypeOK
    <3>3. x \notin moved
      BY <3>1, <3>2 DEF Referents, FinalisingSet, Unmoved
    <3> QED BY <2>1, <3>3, OldUnreachable
  <2>2. ASSUME \/ TakeDead
               \/ \E y \in Objects : RegisterFinalCleanup(y)
               \/ \E y \in Objects, p \in {"NIL", "cleanup"} : WeakRefFromRef(y, p)
        PROVE  FALSE
    BY <2>2 DEF TakeDead, RegisterFinalCleanup, WeakRefFromRef
  <2> QED BY <2>1, <2>2, TableChanges
<1> HIDE DEF Good
<1>2. Spec => [][Good]_vars
  BY <1>1, Invariance, PTL DEF Spec
<1> QED BY <1>2 DEF FinalUnreachable, Good

(* A weak ref resolves to one object only, and never again once its object *)
(* has died, although entries are freed, reused and the table grows.       *)
THEOREM DeadStaysDeadHolds == Spec => DeadStaysDead
<1> DEFINE Good == \A i \in Indices :
                     Resolves(i)' /\ weakTable'[i].b = weakTable[i].b
                       => Resolves(i) /\ weakTable'[i].r = weakTable[i].r
<1>1. Inv /\ [Next]_vars => Good
  <2> SUFFICES ASSUME Inv, [Next]_vars, NEW i \in Indices,
                      weakTable'[i].a = i, weakTable'[i].b > 0,
                      weakTable'[i].b = weakTable[i].b
               PROVE  Resolves(i) /\ weakTable'[i].r = weakTable[i].r
    BY DEF Resolves
  <2>1. /\ weakTable \in [Indices -> Entry] /\ ToSet(weakLive) \subseteq Indices
        /\ Parted(weakLive, weakFinal, weakDead, weakFree, size)
    BY ListsParted DEF Inv, TypeOK, ToSet
  <2>2. \A j \in Indices : Resolves(j) => j \in ToSet(weakLive)
    BY DEF Inv, EntriesOK
  <2>3. ASSUME NEW x \in Objects, NEW p \in {"NIL", "cleanup"}, WeakRefFromRef(x, p)
        PROVE  weakTable'[i] = weakTable[i]
    <3> DEFINE j == Head(ExpandedFree)
    <3>1. /\ ExpandedSize <= MaxEntries
          /\ weakTable' = [weakTable EXCEPT ![j] = NewEntry(j, x, p)]
      BY <2>3 DEF WeakRefFromRef
    <3>2. j \in Indices
      BY <3>1, EntryTaken
    <3> HIDE DEF j
    <3>3. weakTable[j].b \in Nat /\ NewEntry(j, x, p).b = weakTable[j].b + 1
      BY <2>1, <3>2 DEF Entry, NewEntry
    <3>4. i # j
      BY <2>1, <3>1, <3>2, <3>3
    <3> QED BY <2>1, <3>1, <3>4
  <2>4. ASSUME NEW x \in Objects, RegisterFinalCleanup(x)
        PROVE  weakTable'[i] = weakTable[i]
    <3> DEFINE j == Head(ExpandedFree)
    <3>1. /\ ExpandedSize <= MaxEntries
          /\ weakTable' = [weakTable EXCEPT ![j].r = x, ![j].p = "final"]
      BY <2>4 DEF RegisterFinalCleanup
    <3>2. j \in Indices /\ j \notin ToSet(weakLive)
      BY <3>1, EntryTaken
    <3> HIDE DEF j
    <3>3. /\ weakTable'[j].a = weakTable[j].a /\ weakTable'[j].b = weakTable[j].b
          /\ \A k \in Indices : k # j => weakTable'[k] = weakTable[k]
      BY <2>1, <3>1, <3>2 DEF Entry
    <3>4. i # j
      BY <2>2, <3>2, <3>3 DEF Resolves
    <3> QED BY <3>3, <3>4
  <2>5. CASE TakeDead
    <3> DEFINE j == Head(weakDead)
    <3>1. weakDead # <<>> /\ weakTable' = [weakTable EXCEPT ![j] = Freed(@)]
      BY <2>5 DEF TakeDead
    <3>2. j \in Indices /\ j \in ToSet(weakDead)
      BY <3>1, TailList DEF Inv, TypeOK
    <3>3. j \notin ToSet(weakLive)
      BY <2>1, <3>2 DEF Parted
    <3> HIDE DEF j
    <3>4. weakTable'[j] = Freed(weakTable[j]) /\ weakTable[j] \in Entry
      BY <2>1, <3>1, <3>2
    <3>5. weakTable'[j].a = weakTable[j].a /\ weakTable'[j].b = weakTable[j].b
      BY <3>4 DEF Freed, Entry
    <3>6. i # j
      BY <2>2, <3>3, <3>5 DEF Resolves
    <3>7. weakTable'[i] = weakTable[i]
      BY <2>1, <3>1, <3>6
    <3> QED BY <3>7 DEF Resolves
  <2>6. CASE CollectSomeInStateThree
    <3>1. /\ \A j \in DyingSet("cleanup") \cup DyingSet("NIL") : weakTable'[j].a = -1
          /\ \A j \in FinalisingSet : weakTable'[j].a = weakTable[j].a
          /\ \A j \in Indices \ (DyingSet("cleanup") \cup DyingSet("NIL") \cup FinalisingSet) :
               weakTable'[j] = weakTable[j]
      BY <2>6, ThreeEntries
    <3>2. i # -1
      BY BoundsAssumption DEF Indices
    <3>3. i \notin FinalisingSet
      <4>1. FinalisingSet \cap ToSet(weakLive) = {}
        BY <2>1 DEF FinalisingSet, Parted
      <4> QED BY <2>2, <3>1, <4>1 DEF Resolves
    <3>4. weakTable'[i] = weakTable[i]
      BY <3>1, <3>2, <3>3
    <3> QED BY <3>4 DEF Resolves
  <2>7. CASE weakTable'[i] = weakTable[i]
    BY <2>7 DEF Resolves
  <2> QED BY <2>3, <2>4, <2>5, <2>6, <2>7, TableChanges
<1> HIDE DEF Good
<1>2. Spec => [][Good]_vars
  BY <1>1, Invariance, PTL DEF Spec
<1> QED BY <1>2 DEF DeadStaysDead, Good
===============================================================================
