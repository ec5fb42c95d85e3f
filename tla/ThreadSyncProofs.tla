--------------------------- MODULE ThreadSyncProofs ---------------------------
(***************************************************************************)
(* Proofs about ThreadSync, for any number of threads, mutexes and         *)
(* conditions and any mix of the operations.                               *)
(***************************************************************************)
EXTENDS ThreadSync, SequenceTheorems, TLAPS

(***************************************************************************)
(* What the list operations do to the set of threads on a list.            *)
(***************************************************************************)
LEMMA EmptyList ==
  ASSUME NEW S
  PROVE  <<>> \in Seq(S) /\ ToSet(<<>>) = {} /\ IsInjective(<<>>)
BY DEF ToSet, IsInjective

LEMMA SingletonList ==
  ASSUME NEW S, NEW t \in S
  PROVE  <<t>> \in Seq(S) /\ ToSet(<<t>>) = {t} /\ IsInjective(<<t>>)
BY DEF ToSet, IsInjective

LEMMA AppendList ==
  ASSUME NEW S, NEW s \in Seq(S), NEW t \in S
  PROVE  /\ Append(s, t) \in Seq(S)
         /\ ToSet(Append(s, t)) = ToSet(s) \cup {t}
         /\ IsInjective(s) /\ t \notin ToSet(s) => IsInjective(Append(s, t))
<1> DEFINE r == Append(s, t)
<1>0. /\ Len(s) \in Nat /\ DOMAIN s = 1 .. Len(s)
      /\ r \in Seq(S) /\ DOMAIN r = 1 .. Len(s) + 1
      /\ r[Len(s) + 1] = t /\ \A i \in 1 .. Len(s) : r[i] = s[i]
  OBVIOUS
<1> HIDE DEF r
<1>1. r \in Seq(S) /\ ToSet(r) = ToSet(s) \cup {t}
  <2>1. ToSet(r) \subseteq ToSet(s) \cup {t}
    BY <1>0 DEF ToSet
  <2>2. ToSet(s) \subseteq ToSet(r)
    BY <1>0 DEF ToSet
  <2>3. t \in ToSet(r)
    BY <1>0 DEF ToSet
  <2> QED  BY <1>0, <2>1, <2>2, <2>3
<1>2. ASSUME IsInjective(s), t \notin ToSet(s)
      PROVE  IsInjective(r)
  BY <1>0, <1>2 DEF ToSet, IsInjective
<1> QED  BY <1>1, <1>2 DEF r

LEMMA HeadTailList ==
  ASSUME NEW S, NEW s \in Seq(S), s # <<>>
  PROVE  /\ Head(s) \in S
         /\ Tail(s) \in Seq(S)
         /\ ToSet(s) = {Head(s)} \cup ToSet(Tail(s))
         /\ IsInjective(s) => IsInjective(Tail(s)) /\ Head(s) \notin ToSet(Tail(s))
<1>0. /\ Len(s) \in Nat /\ Len(s) >= 1 /\ DOMAIN s = 1 .. Len(s)
      /\ Head(s) = s[1] /\ s[1] \in S
      /\ Tail(s) \in Seq(S)
      /\ DOMAIN Tail(s) = 1 .. Len(s) - 1
      /\ \A i \in 1 .. Len(s) - 1 : Tail(s)[i] = s[i + 1]
  OBVIOUS
<1>1. ASSUME NEW x \in ToSet(s), x # Head(s)
      PROVE  x \in ToSet(Tail(s))
  <2>1. PICK i \in DOMAIN s : s[i] = x
    BY <1>1 DEF ToSet
  <2>2. i - 1 \in 1 .. Len(s) - 1 /\ Tail(s)[i - 1] = x
    BY <1>0, <1>1, <2>1
  <2> QED  BY <1>0, <2>2 DEF ToSet
<1>2. ASSUME NEW x \in ToSet(Tail(s))
      PROVE  x \in ToSet(s)
  <2>1. PICK i \in DOMAIN Tail(s) : Tail(s)[i] = x
    BY <1>2 DEF ToSet
  <2> QED  BY <1>0, <2>1 DEF ToSet
<1>3. Head(s) \in ToSet(s)
  BY <1>0 DEF ToSet
<1>4. ASSUME IsInjective(s)
      PROVE  IsInjective(Tail(s)) /\ Head(s) \notin ToSet(Tail(s))
  BY <1>0, <1>4 DEF IsInjective, ToSet
<1> QED  BY <1>0, <1>1, <1>2, <1>3, <1>4

LEMMA RemoveAtList ==
  ASSUME NEW S, NEW s \in Seq(S), NEW i \in 1 .. Len(s), NEW r, r = RemoveAt(s, i)
  PROVE  /\ r \in Seq(S)
         /\ DOMAIN r = 1 .. Len(s) - 1
         /\ \A j \in 1 .. Len(s) - 1 : r[j] = IF j < i THEN s[j] ELSE s[j + 1]
<1>0. i \in 1 .. Len(s) /\ Len(s) \in Nat /\ DOMAIN s = 1 .. Len(s)
  OBVIOUS
<1>d. r = SubSeq(s, 1, i - 1) \o SubSeq(s, i + 1, Len(s))
  BY DEF RemoveAt
<1> DEFINE a == SubSeq(s, 1, i - 1)
           b == SubSeq(s, i + 1, Len(s))
<1>1. /\ a \in Seq(S) /\ Len(a) = i - 1
      /\ \A j \in 1 .. i - 1 : a[j] = s[j]
  BY <1>0
<1>2. /\ b \in Seq(S) /\ Len(b) = Len(s) - i
      /\ \A j \in 1 .. Len(s) - i : b[j] = s[i + j]
  <2>1. \A k \in i + 1 .. Len(s) : s[k] \in S
    BY <1>0
  <2>2. i + 1 \in Int /\ Len(s) \in Int
    BY <1>0
  <2>3. /\ b \in Seq(S) /\ Len(b) = IF i + 1 <= Len(s) THEN Len(s) - (i + 1) + 1 ELSE 0
        /\ \A k \in 1 .. Len(s) - (i + 1) + 1 : b[k] = s[(i + 1) + k - 1]
    BY <2>1, <2>2, SubSeqProperties
  <2> HIDE DEF a, b
  <2>4. Len(b) = Len(s) - i
    <3>1. Len(b) = IF i + 1 <= Len(s) THEN Len(s) - (i + 1) + 1 ELSE 0
      BY <2>3
    <3>2. i \in Nat /\ Len(s) \in Nat /\ i <= Len(s)
      BY <1>0
    <3> QED  BY <3>1, <3>2
  <2>5. ASSUME NEW k \in 1 .. Len(s) - i
        PROVE  b[k] = s[i + k]
    <3>1. k \in 1 .. Len(s) - (i + 1) + 1 /\ (i + 1) + k - 1 = i + k
      BY <1>0
    <3> QED  BY <2>3, <3>1
  <2> QED  BY <2>3, <2>4, <2>5
<1>3. r = a \o b
  BY <1>d
<1> HIDE DEF a, b
<1>4. r \in Seq(S) /\ Len(r) = Len(s) - 1 /\ DOMAIN r = 1 .. Len(s) - 1
  <2>0. a \in Seq(S) /\ b \in Seq(S)
    BY <1>1, <1>2
  <2>1. a \o b \in Seq(S) /\ Len(a \o b) = Len(a) + Len(b)
    BY <2>0, ConcatProperties
  <2>2. Len(a) + Len(b) = Len(s) - 1 /\ Len(s) - 1 \in Nat
    BY <1>0, <1>1, <1>2
  <2> QED  BY <1>3, <2>1, <2>2
<1>5. ASSUME NEW j \in 1 .. Len(s) - 1
      PROVE  r[j] = IF j < i THEN s[j] ELSE s[j + 1]
  <2>1. CASE j < i
    BY <1>0, <1>1, <1>2, <1>3, <2>1
  <2>2. CASE j >= i
    <3>1. r[j] = b[j - (i - 1)]
      BY <1>0, <1>1, <1>2, <1>3, <2>2
    <3>2. j - (i - 1) \in 1 .. Len(s) - i /\ i + (j - (i - 1)) = j + 1
      BY <1>0, <2>2
    <3> QED  BY <1>0, <1>2, <2>2, <3>1, <3>2
  <2> QED  BY <1>0, <2>1, <2>2
<1> QED  BY <1>4, <1>5

LEMMA WithoutList ==
  ASSUME NEW S, NEW s \in Seq(S), NEW t
  PROVE  /\ Without(s, t) \in Seq(S)
         /\ ToSet(Without(s, t)) \subseteq ToSet(s)
         /\ IsInjective(s) => IsInjective(Without(s, t)) /\ t \notin ToSet(Without(s, t))
<1>0. CASE Len(s) = 1
  BY <1>0, EmptyList DEF Without
<1>1. CASE Len(s) # 1 /\ t \notin ToSet(s)
  BY <1>1 DEF Without
<1>2. CASE Len(s) # 1 /\ t \in ToSet(s)
  <2> DEFINE i == CHOOSE j \in DOMAIN s : s[j] = t
             r == Without(s, t)
  <2>1. i \in 1 .. Len(s) /\ s[i] = t /\ Len(s) \in Nat /\ DOMAIN s = 1 .. Len(s)
    BY <1>2 DEF ToSet
  <2>2. r = RemoveAt(s, i)
    BY <1>2 DEF Without
  <2> HIDE DEF i, r
  <2>3. /\ r \in Seq(S)
        /\ DOMAIN r = 1 .. Len(s) - 1
        /\ \A j \in 1 .. Len(s) - 1 : r[j] = IF j < i THEN s[j] ELSE s[j + 1]
    BY <2>1, <2>2, RemoveAtList
  <2>4. ToSet(r) \subseteq ToSet(s)
    BY <2>1, <2>3 DEF ToSet
  <2>5. ASSUME IsInjective(s)
        PROVE  IsInjective(r) /\ t \notin ToSet(r)
    <3> DEFINE k(j) == IF j < i THEN j ELSE j + 1
    <3>1. \A j \in DOMAIN r : k(j) \in DOMAIN s /\ k(j) # i /\ r[j] = s[k(j)]
      BY <2>1, <2>3
    <3>2. \A j \in DOMAIN r : r[j] # t
      BY <2>1, <2>5, <3>1 DEF IsInjective
    <3>3. ASSUME NEW j \in DOMAIN r, NEW l \in DOMAIN r, r[j] = r[l]
          PROVE  j = l
      <4>1. k(j) = k(l)
        BY <2>5, <3>1, <3>3 DEF IsInjective
      <4> QED  BY <4>1, <2>1, <2>3
    <3> QED  BY <3>2, <3>3 DEF IsInjective, ToSet
  <2> QED  BY <2>3, <2>4, <2>5 DEF r
<1> QED  BY <1>0, <1>1, <1>2

LEMMA LastFirstList ==
  ASSUME NEW S, NEW s \in Seq(S)
  PROVE  /\ LastFirst(s) \in Seq(S)
         /\ LastFirst(s) = <<>> <=> s = <<>>
         /\ ToSet(LastFirst(s)) = ToSet(s)
         /\ IsInjective(s) => IsInjective(LastFirst(s))
<1>1. CASE s = <<>>
  BY <1>1 DEF LastFirst
<1>2. CASE s # <<>>
  <2> DEFINE r == LastFirst(s)
  <2>1. Len(s) \in Nat /\ Len(s) >= 1 /\ DOMAIN s = 1 .. Len(s)
    BY <1>2
  <2>2. r = <<s[Len(s)]>> \o SubSeq(s, 1, Len(s) - 1)
    BY <1>2 DEF LastFirst, Last, Front
  <2> HIDE DEF r
  <2>3. /\ r \in Seq(S)
        /\ DOMAIN r = 1 .. Len(s)
        /\ \A j \in 1 .. Len(s) : r[j] = IF j = 1 THEN s[Len(s)] ELSE s[j - 1]
    BY <2>1, <2>2
  <2>4. ToSet(r) \subseteq ToSet(s)
    BY <2>1, <2>3 DEF ToSet
  <2>5. ASSUME NEW x \in ToSet(s)
        PROVE  x \in ToSet(r)
    <3>1. PICK k \in DOMAIN s : s[k] = x
      BY <2>5 DEF ToSet
    <3>2. CASE k = Len(s)
      BY <3>1, <3>2, <2>1, <2>3 DEF ToSet
    <3>3. CASE k # Len(s)
      <4>1. k + 1 \in 1 .. Len(s) /\ r[k + 1] = x
        BY <3>1, <3>3, <2>1, <2>3
      <4> QED  BY <4>1, <2>3 DEF ToSet
    <3> QED  BY <3>2, <3>3
  <2>6. ASSUME IsInjective(s)
        PROVE  IsInjective(r)
    BY <2>1, <2>3, <2>6 DEF IsInjective
  <2>7. r # <<>>
    BY <2>1, <2>3
  <2> QED  BY <1>2, <2>3, <2>4, <2>5, <2>6, <2>7 DEF r
<1> QED  BY <1>1, <1>2

(***************************************************************************)
(* Inv is inductive.  One lemma per action, one step per conjunct.         *)
(***************************************************************************)
LEMMA InitInv == Init => Inv
<1> SUFFICES ASSUME Init PROVE Inv
  OBVIOUS
<1>1. /\ waiters \in [Lists -> Seq(Threads)] /\ chain \in [Threads -> Seq(Threads)]
      /\ \A q \in Lists : ToSet(waiters[q]) = {} /\ IsInjective(waiters[q])
      /\ \A t \in Threads : ToSet(chain[t]) = {} /\ IsInjective(chain[t])
  BY EmptyList DEF Init
<1>2. TypeOK
  BY <1>1 DEF Init, TypeOK
<1>3. FrameOK /\ HolderOK /\ WaitingOnOK /\ NoLostMutex /\ OnlyAlertRace
  BY NilAssumption DEF Init, FrameOK, HolderOK, Owns, WaitingOnOK, NoLostMutex,
     OnlyAlertRace, Lists
<1>4. QueuesOK /\ ChainsOK
  BY <1>1 DEF Init, QueuesOK, ChainsOK, Lists
<1> QED  BY <1>2, <1>3, <1>4 DEF Inv

(* A thread outside LockMutex's loop and XWait is on no list and in no     *)
(* waker's hands.                                                          *)
LEMMA Unlisted ==
  ASSUME Inv, NoFault, NEW t \in Threads, pc[t] \in {"run", "wake", "relock"}
  PROVE  /\ waitingOn[t] = NIL
         /\ \A q \in Lists : t \notin ToSet(waiters[q])
         /\ \A u \in Threads : t \notin ToSet(chain[u])
<1>1. waitingOn[t] = NIL /\ ~InWait(t) /\ pc[t] # "lockPark"
  BY DEF Inv, WaitingOnOK, InWait
<1>2. \A q \in Lists : t \notin ToSet(waiters[q])
  BY <1>1 DEF Inv, QueuesOK, Lists
<1>3. ASSUME NEW u \in Threads
      PROVE  t \notin ToSet(chain[u])
  <2>1. CASE pc[u] \in {"handoff", "wake"}
    BY <1>1, <2>1 DEF Inv, ChainsOK
  <2>2. CASE pc[u] \notin {"handoff", "wake"}
    BY <2>2, EmptyList DEF Inv, FrameOK
  <2> QED  BY <2>1, <2>2
<1> QED  BY <1>1, <1>2, <1>3

LEMMA ListKinds ==
  /\ \A m \in Mutexes : m \in Lists /\ m \notin Conditions /\ m # NIL
  /\ \A c \in Conditions : c \in Lists /\ c \notin Mutexes /\ c # NIL
  /\ \A q \in Lists : q \in Mutexes \/ q \in Conditions
  /\ NIL \notin Lists /\ NIL \notin Threads
BY NilAssumption, ListsAssumption DEF Lists

LEMMA TakeFreeStep ==
  ASSUME Inv, NoFault, NEW t \in Threads, NEW m \in Mutexes,
         pc[t] \in {"run", "relock"}, m \notin LL[t],
         TakeFree(t, m)
  PROVE  Inv'
<1> USE ListKinds
<1>0. /\ \A q \in Lists : t \notin ToSet(waiters[q])
      /\ \A u \in Threads : t \notin ToSet(chain[u])
      /\ chain[t] = <<>> /\ waitingOn[t] = NIL
  BY Unlisted DEF Inv, FrameOK
<1>1. TypeOK'
  BY DEF Inv, TypeOK, TakeFree, LockReturns, activation
<1>2. FrameOK'
  BY <1>0 DEF Inv, TypeOK, FrameOK, TakeFree, LockReturns, activation
<1>3. HolderOK'
  <2> SUFFICES ASSUME NEW u \in Threads, NEW n \in Mutexes
               PROVE  (holder[n] = u)' <=> Owns(u, n)'
    BY DEF HolderOK
  <2>1. (holder[n] = u) <=> Owns(u, n)
    BY DEF Inv, HolderOK
  <2>2. CASE u = t
    BY <2>1, <2>2 DEF Inv, TypeOK, Owns, TakeFree, LockReturns
  <2>3. CASE u # t
    BY <2>1, <2>3 DEF Inv, TypeOK, Owns, TakeFree, LockReturns
  <2> QED  BY <2>2, <2>3
<1>4. WaitingOnOK'
  BY <1>0 DEF Inv, TypeOK, WaitingOnOK, InWait, TakeFree, LockReturns, activation
<1>5. QueuesOK'
  <2>1. /\ UNCHANGED <<waiters, waitingOn>>
        /\ \A u \in Threads \ {t} : pc'[u] = pc[u] /\ mu'[u] = mu[u] /\ cv'[u] = cv[u]
    BY DEF Inv, TypeOK, TakeFree, LockReturns, activation
  <2> QED  BY <1>0, <2>1 DEF Inv, QueuesOK, InWait
<1>6. ChainsOK'
  BY <1>0 DEF Inv, TypeOK, ChainsOK, InWait, NoFault, TakeFree, LockReturns, activation
<1>7. NoLostMutex' /\ OnlyAlertRace'
  BY DEF Inv, TypeOK, NoLostMutex, OnlyAlertRace, TakeFree, LockReturns, activation
<1> QED  BY <1>1, <1>2, <1>3, <1>4, <1>5, <1>6, <1>7 DEF Inv

LEMMA EnqueueStep ==
  ASSUME Inv, NoFault, NEW t \in Threads, NEW m \in Mutexes,
         pc[t] \in {"run", "relock"}, m \notin LL[t],
         pc[t] = "relock" => mu[t] = m,
         EnqueueAndPark(t, m)
  PROVE  Inv'
<1> USE ListKinds
<1>0. /\ \A q \in Lists : t \notin ToSet(waiters[q])
      /\ \A u \in Threads : t \notin ToSet(chain[u])
      /\ chain[t] = <<>> /\ waitingOn[t] = NIL
  BY Unlisted DEF Inv, FrameOK
<1>a. /\ waiters' \in [Lists -> Seq(Threads)]
      /\ ToSet(waiters'[m]) = ToSet(waiters[m]) \cup {t}
      /\ \A q \in Lists : q # m => waiters'[q] = waiters[q]
      /\ \A q \in Lists : IsInjective(waiters'[q])
  <2>1. /\ m \in Lists /\ waiters[m] \in Seq(Threads)
        /\ IsInjective(waiters[m]) /\ t \notin ToSet(waiters[m])
    BY <1>0 DEF Inv, TypeOK, QueuesOK
  <2>2. waiters' = [waiters EXCEPT ![m] = Append(waiters[m], t)]
    BY DEF EnqueueAndPark
  <2>3. /\ Append(waiters[m], t) \in Seq(Threads)
        /\ ToSet(Append(waiters[m], t)) = ToSet(waiters[m]) \cup {t}
        /\ IsInjective(Append(waiters[m], t))
    BY <2>1, AppendList
  <2>4. waiters \in [Lists -> Seq(Threads)] /\ \A q \in Lists : IsInjective(waiters[q])
    BY DEF Inv, TypeOK, QueuesOK
  <2> QED  BY <2>1, <2>2, <2>3, <2>4
<1>c. /\ \A u \in Threads \ {t} : pc'[u] = pc[u] /\ mu'[u] = mu[u] /\ waitingOn'[u] = waitingOn[u]
      /\ pc'[t] = "lockPark" /\ mu'[t] = m /\ waitingOn'[t] = m
      /\ UNCHANGED <<holder, cv, chain, LL>>
  BY DEF EnqueueAndPark, Inv, TypeOK
<1>b. holder[m] # t
  BY DEF Inv, HolderOK, Owns
<1>d. \A u \in Threads \ {t}, q \in Lists :
        u \in ToSet(waiters'[q]) <=> u \in ToSet(waiters[q])
  BY <1>a
<1>1. TypeOK'
  BY <1>a DEF Inv, TypeOK, EnqueueAndPark, Ensure
<1>2. FrameOK'
  BY <1>0 DEF Inv, TypeOK, FrameOK, EnqueueAndPark
<1>3. HolderOK'
  <2> SUFFICES ASSUME NEW u \in Threads, NEW n \in Mutexes
               PROVE  (holder[n] = u)' <=> Owns(u, n)'
    BY DEF HolderOK
  <2>1. (holder[n] = u) <=> Owns(u, n)
    BY DEF Inv, HolderOK
  <2>2. CASE u = t
    BY <1>a, <1>b, <1>c, <2>1, <2>2 DEF Owns
  <2>3. CASE u # t
    BY <1>c, <1>d, <2>1, <2>3 DEF Owns
  <2> QED  BY <2>2, <2>3
<1>4. WaitingOnOK'
  BY <1>0 DEF Inv, TypeOK, WaitingOnOK, InWait, EnqueueAndPark
<1>5. QueuesOK'
  <2>1. ASSUME NEW n \in Mutexes, NEW u \in Threads, u \in ToSet(waiters'[n])
        PROVE  pc'[u] = "lockPark" /\ mu'[u] = n /\ waitingOn'[u] = n
    <3>1. CASE u = t
      BY <1>0, <1>a, <1>c, <2>1, <3>1
    <3>2. CASE u # t
      BY <1>a, <1>c, <2>1, <3>2 DEF Inv, QueuesOK
    <3> QED  BY <3>1, <3>2
  <2>2. ASSUME NEW c \in Conditions, NEW u \in Threads, u \in ToSet(waiters'[c])
        PROVE  InWait(u)' /\ cv'[u] = c /\ waitingOn'[u] = c
    BY <1>0, <1>a, <1>c, <2>2 DEF Inv, QueuesOK, InWait
  <2> QED  BY <1>a, <2>1, <2>2 DEF QueuesOK
<1>6. ChainsOK'
  <2>2. ASSUME NEW u \in Threads, pc'[u] = "handoff",
               NEW v \in Threads, v \in ToSet(chain'[u])
        PROVE  /\ pc'[v] = "lockPark" /\ mu'[v] = mu'[u] /\ waitingOn'[v] = mu'[u]
               /\ v \notin ToSet(waiters'[mu'[u]])
    BY <1>0, <1>a, <1>c, <2>2 DEF Inv, FrameOK, ChainsOK
  <2>3. ASSUME NEW u \in Threads, pc'[u] = "wake", NEW v \in Threads,
               v \in ToSet(chain'[u])
        PROVE  InWait(v)' /\ waitingOn'[v] = cv'[v] /\ v \notin ToSet(waiters'[cv'[v]])
    <3>1. u # t /\ v # t /\ pc[u] = "wake" /\ v \in ToSet(chain[u])
      BY <1>0, <1>c, <2>3
    <3>2. InWait(v) /\ waitingOn[v] = cv[v] /\ v \notin ToSet(waiters[cv[v]])
      BY <3>1 DEF Inv, ChainsOK
    <3>3. cv[v] \in Lists
      BY <3>2 DEF Inv, TypeOK, InWait
    <3> QED  BY <1>c, <1>d, <3>1, <3>2, <3>3 DEF InWait
  <2> QED  BY <1>c, <2>2, <2>3 DEF Inv, ChainsOK
<1>7. NoLostMutex' /\ OnlyAlertRace'
  BY <1>0, <1>a, <1>b DEF Inv, TypeOK, NoLostMutex, OnlyAlertRace, NoFault, Ensure, EnqueueAndPark
<1> QED  BY <1>1, <1>2, <1>3, <1>4, <1>5, <1>6, <1>7 DEF Inv

(***************************************************************************)
(* Steps that leave lists, owners and program points alone.                *)
(***************************************************************************)
LEMMA FlagsStep ==
  ASSUME Inv, alerted' \in [Threads -> BOOLEAN], wake' \in [Threads -> BOOLEAN],
         UNCHANGED <<holder, waiters, waitingOn, pc, frame, chain, LL, fault>>
  PROVE  Inv'
<1>1. TypeOK'
  BY DEF Inv, TypeOK, frame
<1>2. FrameOK' /\ HolderOK'
  BY DEF Inv, FrameOK, HolderOK, Owns, frame
<1>3. WaitingOnOK' /\ QueuesOK'
  BY DEF Inv, WaitingOnOK, QueuesOK, InWait, frame
<1>4. ChainsOK'
  BY DEF Inv, ChainsOK, InWait, NoFault, frame
<1>5. NoLostMutex' /\ OnlyAlertRace'
  BY DEF Inv, NoLostMutex, OnlyAlertRace, frame
<1> QED  BY <1>1, <1>2, <1>3, <1>4, <1>5 DEF Inv

LEMMA WakeInLockStep ==
  ASSUME Inv, NoFault, NEW t \in Threads, WakeInLock(t)
  PROVE  Inv'
<1> USE ListKinds
<1>1. CASE waitingOn[t] # NIL
  BY <1>1, FlagsStep DEF WakeInLock, Inv, TypeOK, frame
<1>2. CASE waitingOn[t] = NIL
  <2> DEFINE m == mu[t]
  <2>a. /\ LockReturns(t, m) /\ Ensure(holder[m] = t, "m.holder = self")
        /\ wake' = [wake EXCEPT ![t] = FALSE]
        /\ UNCHANGED <<holder, waiters, waitingOn, alerted, chain>>
        /\ pc[t] = "lockPark"
    BY <1>2 DEF WakeInLock, At
  <2>b. m \in Mutexes
    BY <2>a DEF Inv, FrameOK
  <2> HIDE DEF m
  <2>0. pc[t] = "lockPark" /\ m \in Mutexes /\ t \notin ToSet(waiters[m])
    BY <1>2, <2>a, <2>b DEF Inv, QueuesOK
  <2>1. holder[m] = t
    BY <2>0 DEF Inv, HolderOK, Owns, m
  <2>2. \A q \in Lists : t \notin ToSet(waiters[q])
    BY <1>2 DEF Inv, QueuesOK
  <2>3. /\ \A u \in Threads \ {t} :
             /\ pc'[u] = pc[u] /\ mu'[u] = mu[u] /\ cv'[u] = cv[u] /\ LL'[u] = LL[u]
        /\ pc'[t] = "run" /\ mu'[t] = NIL /\ cv'[t] = NIL /\ LL'[t] = LL[t] \cup {m}
        /\ UNCHANGED <<holder, waiters, waitingOn, chain, fault>>
    BY <2>a, <2>1 DEF LockReturns, Ensure, Inv, TypeOK
  <2>4. \A u \in Threads : t \notin ToSet(chain[u])
    <3> SUFFICES ASSUME NEW u \in Threads PROVE t \notin ToSet(chain[u])
      OBVIOUS
    <3>1. CASE pc[u] = "handoff"
      BY <1>2, <3>1 DEF Inv, FrameOK, ChainsOK
    <3>2. CASE pc[u] = "wake"
      BY <2>0, <3>2 DEF Inv, ChainsOK, InWait
    <3>3. CASE pc[u] \notin {"handoff", "wake"}
      BY <3>3, EmptyList DEF Inv, FrameOK
    <3> QED  BY <3>1, <3>2, <3>3
  <2>5. TypeOK'
    BY <2>a, <2>b, <2>1 DEF LockReturns, Ensure, Inv, TypeOK
  <2>6. FrameOK'
    BY <2>0, <2>3 DEF Inv, FrameOK
  <2>7. HolderOK'
    <3> SUFFICES ASSUME NEW u \in Threads, NEW n \in Mutexes
                 PROVE  (holder[n] = u)' <=> Owns(u, n)'
      BY DEF HolderOK
    <3>1. (holder[n] = u) <=> Owns(u, n)
      BY DEF Inv, HolderOK
    <3>2. CASE u = t
      BY <2>0, <2>1, <2>3, <3>1, <3>2 DEF Owns, m
    <3>3. CASE u # t
      BY <2>3, <3>1, <3>3 DEF Owns
    <3> QED  BY <3>2, <3>3
  <2>8. WaitingOnOK'
    BY <1>2, <2>3 DEF Inv, WaitingOnOK, InWait
  <2>9. QueuesOK'
    BY <2>2, <2>3 DEF Inv, QueuesOK, InWait
  <2>10. ChainsOK'
    BY <2>0, <2>3, <2>4 DEF Inv, ChainsOK, InWait, NoFault
  <2>11. NoLostMutex' /\ OnlyAlertRace'
    BY <2>3 DEF Inv, NoLostMutex, OnlyAlertRace
  <2> QED  BY <2>5, <2>6, <2>7, <2>8, <2>9, <2>10, <2>11 DEF Inv
<1> QED  BY <1>1, <1>2

LEMMA SignalledStep ==
  ASSUME Inv, NoFault, NEW t \in Threads, SignalledBranch(t)
  PROVE  Inv'
<1> USE ListKinds
<1>0. pc[t] \in {"check", "park"} /\ waitingOn[t] = NIL
  BY DEF SignalledBranch, AtLoopTop, At
<1>1. /\ \A q \in Lists : t \notin ToSet(waiters[q])
      /\ cv[t] \in Conditions \/ cv[t] = NIL
  <2>1. \A q \in Lists : t \notin ToSet(waiters[q])
    BY <1>0 DEF Inv, QueuesOK
  <2>2. cv[t] \in Conditions \/ cv[t] = NIL
    BY DEF Inv, TypeOK
  <2> QED  BY <2>1, <2>2
<1>2. \A u \in Threads : t \notin ToSet(chain[u])
  <2> SUFFICES ASSUME NEW u \in Threads PROVE t \notin ToSet(chain[u])
    OBVIOUS
  <2>1. CASE pc[u] = "handoff"
    BY <1>0, <2>1 DEF Inv, FrameOK, ChainsOK
  <2>2. CASE pc[u] = "wake"
    BY <1>0, <1>1, <2>2 DEF Inv, ChainsOK, InWait
  <2>3. CASE pc[u] \notin {"handoff", "wake"}
    BY <2>3, EmptyList DEF Inv, FrameOK
  <2> QED  BY <2>1, <2>2, <2>3
<1>3. /\ \A u \in Threads \ {t} : pc'[u] = pc[u]
      /\ pc'[t] = "relock"
      /\ UNCHANGED <<holder, waiters, waitingOn, mu, cv, chain, LL, fault>>
  BY DEF SignalledBranch, frame, Inv, TypeOK
<1>4. TypeOK'
  BY DEF SignalledBranch, frame, Inv, TypeOK
<1>5. FrameOK'
  BY <1>0, <1>3 DEF Inv, FrameOK
<1>6. HolderOK'
  BY <1>0, <1>3 DEF Inv, HolderOK, Owns
<1>7. WaitingOnOK'
  BY <1>0, <1>3 DEF Inv, WaitingOnOK, InWait
<1>8. QueuesOK'
  BY <1>1, <1>3 DEF Inv, QueuesOK, InWait
<1>9. ChainsOK'
  BY <1>0, <1>2, <1>3 DEF Inv, ChainsOK, InWait, NoFault
<1>10. NoLostMutex' /\ OnlyAlertRace'
  BY <1>3 DEF Inv, NoLostMutex, OnlyAlertRace
<1> QED  BY <1>4, <1>5, <1>6, <1>7, <1>8, <1>9, <1>10 DEF Inv

LEMMA ParkStep ==
  ASSUME Inv, NoFault, NEW t \in Threads, ParkBranch(t)
  PROVE  Inv'
<1>0. pc[t] \in {"check", "park"}
  BY DEF ParkBranch, AtLoopTop, At
<1>3. /\ \A u \in Threads \ {t} : pc'[u] = pc[u]
      /\ pc'[t] = "park"
      /\ UNCHANGED <<holder, waiters, waitingOn, mu, cv, chain, LL, fault>>
  BY DEF ParkBranch, frame, Inv, TypeOK
<1>4. TypeOK'
  BY DEF ParkBranch, frame, Inv, TypeOK
<1>5. FrameOK'
  BY <1>0, <1>3 DEF Inv, FrameOK
<1>6. HolderOK'
  BY <1>0, <1>3 DEF Inv, HolderOK, Owns
<1>7. WaitingOnOK'
  BY <1>0, <1>3 DEF Inv, WaitingOnOK, InWait
<1>8. QueuesOK'
  BY <1>0, <1>3 DEF Inv, QueuesOK, InWait
<1>9. ChainsOK'
  BY <1>0, <1>3 DEF Inv, ChainsOK, InWait, NoFault
<1>10. NoLostMutex' /\ OnlyAlertRace'
  BY <1>3 DEF Inv, NoLostMutex, OnlyAlertRace
<1> QED  BY <1>4, <1>5, <1>6, <1>7, <1>8, <1>9, <1>10 DEF Inv

LEMMA UnlockStep ==
  ASSUME Inv, NoFault, NEW t \in Threads, NEW m \in Mutexes, UnlockMutex(t, m),
         \/ pc[t] = "run" /\ m \in LL[t] /\ LL' = [LL EXCEPT ![t] = @ \ {m}]
         \/ pc[t] = "release" /\ mu[t] = m /\ UNCHANGED LL
  PROVE  Inv'
<1> USE ListKinds
<1>1. /\ holder[m] = t /\ Owns(t, m)
      /\ \A u \in Threads \ {t} : ~Owns(u, m)
  BY DEF Inv, HolderOK, Owns
<1>2. /\ m \notin LL'[t] /\ \A n \in Mutexes \ {m} : n \in LL'[t] <=> n \in LL[t]
      /\ \A u \in Threads \ {t} : LL'[u] = LL[u]
      /\ LL' \in [Threads -> SUBSET Mutexes]
  <2>1. LL \in [Threads -> SUBSET Mutexes]
    BY DEF Inv, TypeOK
  <2>2. CASE pc[t] = "run" /\ LL' = [LL EXCEPT ![t] = @ \ {m}]
    BY <2>1, <2>2
  <2>3. CASE pc[t] = "release" /\ mu[t] = m /\ UNCHANGED LL
    <3>1. m \notin LL[t]
      BY <2>3 DEF Inv, FrameOK
    <3> QED  BY <2>1, <2>3, <3>1
  <2> QED  BY <2>2, <2>3
<1>3. /\ fault' = fault /\ UNCHANGED <<waitingOn, alerted, wake, cv, alertable, raise>>
      /\ \A n \in Mutexes \ {m} : holder'[n] = holder[n]
      /\ \A u \in Threads \ {t} : pc'[u] = pc[u] /\ mu'[u] = mu[u] /\ chain'[u] = chain[u]
      /\ chain[t] = <<>> /\ pc'[t] \notin {"lockPark", "release", "wake", "relock", "park"}
      /\ pc[t] = "run" => cv[t] = NIL
      /\ pc[t] = "release" => cv[t] \in Conditions
      /\ waitingOn[t] # NIL => InWait(t) /\ waitingOn[t] = cv[t]
  <2>1. fault' = fault /\ UNCHANGED <<waitingOn, alerted, wake, cv, alertable, raise>>
    BY <1>1 DEF UnlockMutex, Ensure, activation
  <2>2. /\ \A n \in Mutexes \ {m} : holder'[n] = holder[n]
        /\ \A u \in Threads \ {t} : pc'[u] = pc[u] /\ mu'[u] = mu[u] /\ chain'[u] = chain[u]
        /\ pc'[t] \notin {"lockPark", "release", "wake", "relock", "park"}
    BY DEF UnlockMutex, AfterRelease, Inv, TypeOK
  <2>3. /\ chain[t] = <<>>
        /\ pc[t] = "run" => cv[t] = NIL
        /\ pc[t] = "release" => cv[t] \in Conditions
    BY DEF Inv, FrameOK
  <2>4. waitingOn[t] # NIL => InWait(t) /\ waitingOn[t] = cv[t]
    BY DEF Inv, WaitingOnOK
  <2> QED  BY <2>1, <2>2, <2>3, <2>4
<1>4. InWait(t) => InWait(t)'
  BY <1>3, <1>1 DEF InWait, UnlockMutex, AfterRelease, Inv, TypeOK
<1>5. WaitingOnOK'
  BY <1>3, <1>4 DEF Inv, WaitingOnOK, InWait
<1>6. CASE waiters[m] = <<>>
  <2>1. /\ holder'[m] = NIL /\ pc'[t] = AfterRelease(t)
        /\ UNCHANGED <<waiters, mu, chain>>
    BY <1>6 DEF UnlockMutex, Inv, TypeOK
  <2>2. TypeOK'
    BY <1>2, <1>3, <1>6 DEF UnlockMutex, AfterRelease, Inv, TypeOK, activation
  <2>3. FrameOK'
    BY <1>2, <1>3, <2>1 DEF AfterRelease, Inv, FrameOK
  <2>4. HolderOK'
    <3> SUFFICES ASSUME NEW u \in Threads, NEW n \in Mutexes
                 PROVE  (holder[n] = u)' <=> Owns(u, n)'
      BY DEF HolderOK
    <3>1. (holder[n] = u) <=> Owns(u, n)
      BY DEF Inv, HolderOK
    <3>2. CASE u = t
      BY <1>2, <1>3, <2>1, <3>1, <3>2 DEF Owns
    <3>3. CASE u # t
      BY <1>1, <1>2, <1>3, <2>1, <3>1, <3>3 DEF Owns
    <3> QED  BY <3>2, <3>3
  <2>5. QueuesOK'
    BY <1>3, <1>4, <2>1 DEF Inv, QueuesOK, InWait
  <2>6. ChainsOK'
    BY <1>3, <1>4, <2>1 DEF AfterRelease, Inv, ChainsOK, InWait, NoFault
  <2>7. NoLostMutex' /\ OnlyAlertRace'
    BY <1>3, <1>6, <2>1 DEF Inv, NoLostMutex, OnlyAlertRace
  <2> QED  BY <1>5, <2>2, <2>3, <2>4, <2>5, <2>6, <2>7 DEF Inv
<1>7. CASE waiters[m] # <<>>
  <2> DEFINE h == Head(waiters[m])
  <2>1. /\ h \in Threads /\ Tail(waiters[m]) \in Seq(Threads)
        /\ ToSet(waiters[m]) = {h} \cup ToSet(Tail(waiters[m]))
        /\ IsInjective(Tail(waiters[m])) /\ h \notin ToSet(Tail(waiters[m]))
        /\ <<h>> \in Seq(Threads) /\ ToSet(<<h>>) = {h} /\ IsInjective(<<h>>)
    BY <1>7, HeadTailList, SingletonList DEF Inv, TypeOK, QueuesOK
  <2>2. /\ holder' = [holder EXCEPT ![m] = h]
        /\ waiters' = [waiters EXCEPT ![m] = Tail(waiters[m])]
        /\ chain' = [chain EXCEPT ![t] = <<h>>]
        /\ pc' = [pc EXCEPT ![t] = "handoff"]
        /\ mu' = [mu EXCEPT ![t] = m]
    BY <1>7 DEF UnlockMutex
  <2> HIDE DEF h
  <2>3. pc[h] = "lockPark" /\ mu[h] = m /\ waitingOn[h] = m /\ h # t
    BY <2>1 DEF Inv, QueuesOK
  <2>4. TypeOK'
    BY <1>2, <1>3, <2>1, <2>2 DEF Inv, TypeOK
  <2>5. /\ holder'[m] = h /\ chain'[t] = <<h>> /\ pc'[t] = "handoff" /\ mu'[t] = m
        /\ \A q \in Lists \ {m} : waiters'[q] = waiters[q]
        /\ waiters'[m] = Tail(waiters[m])
    BY <2>2 DEF Inv, TypeOK
  <2>6. \A q \in Lists, u \in Threads :
          u \in ToSet(waiters'[q]) <=> u \in ToSet(waiters[q]) /\ ~(q = m /\ u = h)
    BY <2>1, <2>5
  <2>7. FrameOK'
    <3> SUFFICES ASSUME NEW u \in Threads
                 PROVE  /\ pc'[u] \notin {"run", "wake"} => mu'[u] \in Mutexes
                        /\ pc'[u] \in {"release", "check", "park", "relock"}
                             => cv'[u] \in Conditions
                        /\ pc'[u] \in {"run", "wake"} => cv'[u] = NIL
                        /\ cv'[u] # NIL => mu'[u] \notin LL'[u]
                        /\ pc'[u] \in {"handoff", "wake"} <=> chain'[u] # <<>>
                        /\ pc'[u] = "handoff" => Len(chain'[u]) = 1
      BY DEF FrameOK
    <3>1. CASE u = t
      <4>1. <<h>> # <<>> /\ Len(<<h>>) = 1
        OBVIOUS
      <4> QED  BY <1>2, <2>5, <3>1, <4>1
    <3>2. CASE u # t
      BY <1>2, <1>3, <3>2 DEF Inv, FrameOK
    <3> QED  BY <3>1, <3>2
  <2>8. HolderOK'
    <3> SUFFICES ASSUME NEW u \in Threads, NEW n \in Mutexes
                 PROVE  (holder[n] = u)' <=> Owns(u, n)'
      BY DEF HolderOK
    <3>1. (holder[n] = u) <=> Owns(u, n)
      BY DEF Inv, HolderOK
    <3>2. CASE u = t
      BY <1>2, <1>3, <2>3, <2>5, <3>1, <3>2 DEF Owns
    <3>3. CASE u = h
      BY <1>2, <1>3, <2>1, <2>3, <2>5, <2>6, <3>1, <3>3 DEF Owns
    <3>4. CASE u # t /\ u # h
      BY <1>1, <1>2, <1>3, <2>5, <2>6, <3>1, <3>4 DEF Owns
    <3> QED  BY <3>2, <3>3, <3>4
  <2>9. QueuesOK'
    <3>1. \A q \in Lists : IsInjective(waiters'[q])
      BY <2>1, <2>5 DEF Inv, QueuesOK
    <3>2. ASSUME NEW n \in Mutexes, NEW u \in Threads, u \in ToSet(waiters'[n])
          PROVE  pc'[u] = "lockPark" /\ mu'[u] = n /\ waitingOn'[u] = n
      BY <1>3, <2>6, <3>2 DEF Inv, QueuesOK
    <3>3. ASSUME NEW c \in Conditions, NEW u \in Threads, u \in ToSet(waiters'[c])
          PROVE  InWait(u)' /\ cv'[u] = c /\ waitingOn'[u] = c
      BY <1>3, <1>4, <2>6, <3>3 DEF Inv, QueuesOK, InWait
    <3> QED  BY <3>1, <3>2, <3>3 DEF QueuesOK
  <2>10. ChainsOK'
    <3>1. \A u \in Threads : h \notin ToSet(chain[u])
      <4> SUFFICES ASSUME NEW u \in Threads PROVE h \notin ToSet(chain[u])
        OBVIOUS
      <4>1. CASE pc[u] = "handoff"
        BY <2>1, <2>3, <4>1 DEF Inv, ChainsOK
      <4>2. CASE pc[u] = "wake"
        BY <2>1, <2>3, <4>2 DEF Inv, ChainsOK, InWait
      <4>3. CASE pc[u] \notin {"handoff", "wake"}
        BY <4>3, EmptyList DEF Inv, FrameOK
      <4> QED  BY <4>1, <4>2, <4>3
    <3>2. /\ \A u \in Threads : IsInjective(chain'[u])
          /\ \A u, v, w \in Threads :
               w \in ToSet(chain'[u]) /\ w \in ToSet(chain'[v]) => u = v
      BY <1>3, <2>1, <2>5, <3>1 DEF Inv, ChainsOK
    <3>3. ASSUME NEW u \in Threads, NEW v \in Threads,
                 pc'[u] = "handoff", v \in ToSet(chain'[u])
          PROVE  /\ pc'[v] = "lockPark" /\ mu'[v] = mu'[u] /\ waitingOn'[v] = mu'[u]
                 /\ v \notin ToSet(waiters'[mu'[u]])
      <4>1. CASE u = t
        BY <1>3, <2>1, <2>3, <2>5, <3>3, <4>1
      <4>2. CASE u # t
        <5>1. /\ pc[v] = "lockPark" /\ mu[v] = mu[u] /\ waitingOn[v] = mu[u]
              /\ v \notin ToSet(waiters[mu[u]]) /\ mu[u] \in Mutexes
          BY <1>3, <3>3, <4>2 DEF Inv, ChainsOK, FrameOK
        <5> QED  BY <1>3, <2>6, <4>2, <5>1
      <4> QED  BY <4>1, <4>2
    <3>4. ASSUME NEW u \in Threads, NEW v \in Threads,
                 pc'[u] = "wake", v \in ToSet(chain'[u])
          PROVE  InWait(v)' /\ waitingOn'[v] = cv'[v] /\ v \notin ToSet(waiters'[cv'[v]])
      <4>1. InWait(v) /\ waitingOn[v] = cv[v] /\ v \notin ToSet(waiters[cv[v]])
        BY <1>3, <2>5, <3>4 DEF Inv, ChainsOK
      <4>2. cv[v] \in Lists
        BY <4>1 DEF Inv, InWait, TypeOK
      <4> QED  BY <1>3, <1>4, <2>6, <4>1, <4>2 DEF InWait
    <3> QED  BY <3>2, <3>3, <3>4 DEF ChainsOK
  <2>11. NoLostMutex' /\ OnlyAlertRace'
    BY <1>3, <2>1, <2>5 DEF Inv, NoLostMutex, OnlyAlertRace
  <2> QED  BY <1>5, <2>4, <2>7, <2>8, <2>9, <2>10, <2>11 DEF Inv
<1> QED  BY <1>6, <1>7

LEMMA HandoffStep ==
  ASSUME Inv, NoFault, NEW t \in Threads, Handoff(t)
  PROVE  Inv'
<1> USE ListKinds
<1> DEFINE u == Head(chain[t])
<1>1. /\ pc[t] = "handoff" /\ chain[t] \in Seq(Threads) /\ chain[t] # <<>>
      /\ mu[t] \in Mutexes
  BY DEF Handoff, At, Inv, TypeOK, FrameOK
<1>2. u \in Threads /\ u \in ToSet(chain[t])
  BY <1>1, HeadTailList
<1>3. /\ waitingOn' = [waitingOn EXCEPT ![u] = NIL] /\ CondSignal(u)
      /\ chain' = [chain EXCEPT ![t] = <<>>]
      /\ pc' = [pc EXCEPT ![t] = AfterRelease(t)]
      /\ mu' = [mu EXCEPT ![t] = IF cv[t] = NIL THEN NIL ELSE @]
      /\ UNCHANGED <<holder, waiters, alerted, cv, alertable, raise, LL>>
      /\ Ensure(waitingOn[u] = mu[t], "t.waitingOn = m.mutex")
  BY DEF Handoff
<1> HIDE DEF u
<1>4. /\ pc[u] = "lockPark" /\ mu[u] = mu[t] /\ waitingOn[u] = mu[t] /\ u # t
      /\ u \notin ToSet(waiters[mu[t]])
      /\ \A v \in Threads \ {t} : u \notin ToSet(chain[v])
  BY <1>1, <1>2 DEF Inv, ChainsOK
<1>5. \A q \in Lists : u \notin ToSet(waiters[q])
  BY <1>2, <1>4 DEF Inv, QueuesOK, InWait
<1>6. /\ \A v \in Threads \ {t} : pc'[v] = pc[v] /\ mu'[v] = mu[v] /\ chain'[v] = chain[v]
      /\ \A v \in Threads \ {u} : waitingOn'[v] = waitingOn[v]
      /\ waitingOn'[u] = NIL /\ chain'[t] = <<>>
      /\ UNCHANGED <<holder, waiters, cv, LL, fault>>
  BY <1>2, <1>3, <1>4 DEF Inv, TypeOK, Ensure
<1>7. \/ pc'[t] = "run" /\ cv[t] = NIL /\ waitingOn[t] = NIL
      \/ pc'[t] = "check" /\ cv[t] \in Conditions /\ mu'[t] = mu[t]
  BY <1>1, <1>3 DEF AfterRelease, Inv, TypeOK, WaitingOnOK, InWait
<1>8. TypeOK'
  BY <1>2, <1>3, <1>6, EmptyList DEF Inv, TypeOK, AfterRelease, CondSignal, Parked
<1>9. FrameOK'
  BY <1>1, <1>6, <1>7 DEF Inv, FrameOK
<1>10. HolderOK'
  <2> SUFFICES ASSUME NEW v \in Threads, NEW n \in Mutexes
               PROVE  (holder[n] = v)' <=> Owns(v, n)'
    BY DEF HolderOK
  <2>1. (holder[n] = v) <=> Owns(v, n)
    BY DEF Inv, HolderOK
  <2>2. CASE v = t
    BY <1>1, <1>6, <1>7, <2>1, <2>2 DEF Owns
  <2>3. CASE v # t
    BY <1>6, <2>1, <2>3 DEF Owns
  <2> QED  BY <2>2, <2>3
<1>11. WaitingOnOK'
  <2> SUFFICES ASSUME NEW v \in Threads, waitingOn'[v] # NIL
               PROVE  \/ pc'[v] = "lockPark" /\ waitingOn'[v] = mu'[v]
                      \/ InWait(v)' /\ waitingOn'[v] = cv'[v]
    BY DEF WaitingOnOK
  <2>1. /\ v # u /\ waitingOn[v] # NIL
        /\ \/ pc[v] = "lockPark" /\ waitingOn[v] = mu[v]
           \/ InWait(v) /\ waitingOn[v] = cv[v]
    BY <1>6 DEF Inv, WaitingOnOK
  <2> QED  BY <1>1, <1>6, <1>7, <2>1 DEF InWait
<1>12. QueuesOK'
  BY <1>1, <1>5, <1>6, <1>7 DEF Inv, QueuesOK, InWait
<1>13. ChainsOK'
  <2>1. /\ \A v \in Threads : IsInjective(chain'[v])
        /\ \A v, w, x \in Threads :
             x \in ToSet(chain'[v]) /\ x \in ToSet(chain'[w]) => v = w
    BY <1>6, EmptyList DEF Inv, ChainsOK
  <2>2. ASSUME NEW v \in Threads, NEW w \in Threads,
               pc'[v] = "handoff", w \in ToSet(chain'[v])
        PROVE  /\ pc'[w] = "lockPark" /\ mu'[w] = mu'[v] /\ waitingOn'[w] = mu'[v]
               /\ w \notin ToSet(waiters'[mu'[v]])
    <3>1. v # t /\ w # u
      BY <1>4, <1>6, <1>7, <2>2, EmptyList
    <3> QED  BY <1>1, <1>6, <2>2, <3>1 DEF Inv, ChainsOK
  <2>3. ASSUME NEW v \in Threads, NEW w \in Threads,
               pc'[v] = "wake", w \in ToSet(chain'[v])
        PROVE  InWait(w)' /\ waitingOn'[w] = cv'[w] /\ w \notin ToSet(waiters'[cv'[w]])
    <3>1. v # t /\ w # u
      BY <1>4, <1>6, <1>7, <2>3, EmptyList
    <3>2. InWait(w) /\ waitingOn[w] = cv[w] /\ w \notin ToSet(waiters[cv[w]])
      BY <1>6, <2>3, <3>1 DEF Inv, ChainsOK
    <3> QED  BY <1>6, <1>7, <3>1, <3>2 DEF InWait
  <2> QED  BY <2>1, <2>2, <2>3 DEF ChainsOK
<1>14. NoLostMutex' /\ OnlyAlertRace'
  BY <1>6 DEF Inv, NoLostMutex, OnlyAlertRace
<1> QED  BY <1>8, <1>9, <1>10, <1>11, <1>12, <1>13, <1>14 DEF Inv

LEMMA XWaitStep ==
  ASSUME Inv, NoFault, NEW t \in Threads, NEW m \in Mutexes, NEW c \in Conditions,
         NEW al \in BOOLEAN, XWait(t, m, c, al)
  PROVE  Inv'
<1> USE ListKinds
<1>0. /\ pc[t] = "run" /\ m \in LL[t] /\ chain[t] = <<>> /\ waitingOn[t] = NIL
      /\ \A q \in Lists : t \notin ToSet(waiters[q])
      /\ \A u \in Threads : t \notin ToSet(chain[u])
      /\ holder[m] = t
  BY Unlisted DEF XWait, At, Inv, FrameOK, HolderOK, Owns
<1>1. /\ waiters' \in [Lists -> Seq(Threads)]
      /\ \A q \in Lists : IsInjective(waiters'[q])
      /\ \A q \in Lists, u \in Threads :
           u \in ToSet(waiters'[q]) <=> u \in ToSet(waiters[q]) \/ (u = t /\ q = c)
      /\ \A n \in Mutexes : waiters'[n] = waiters[n]
  <2>1. waiters \in [Lists -> Seq(Threads)] /\ \A q \in Lists : IsInjective(waiters[q])
    BY DEF Inv, TypeOK, QueuesOK
  <2>2. waiters' = [waiters EXCEPT ![c] = Append(waiters[c], t)]
    BY DEF XWait
  <2>3. /\ Append(waiters[c], t) \in Seq(Threads)
        /\ ToSet(Append(waiters[c], t)) = ToSet(waiters[c]) \cup {t}
        /\ IsInjective(Append(waiters[c], t))
    BY <1>0, <2>1, AppendList
  <2> QED  BY <2>1, <2>2, <2>3
<1>2. /\ \A u \in Threads \ {t} :
           /\ pc'[u] = pc[u] /\ mu'[u] = mu[u] /\ cv'[u] = cv[u] /\ LL'[u] = LL[u]
           /\ waitingOn'[u] = waitingOn[u]
      /\ pc'[t] = "release" /\ mu'[t] = m /\ cv'[t] = c /\ waitingOn'[t] = c
      /\ LL'[t] = LL[t] \ {m}
      /\ UNCHANGED <<holder, chain, fault>>
  BY <1>0 DEF XWait, Ensure, Inv, TypeOK
<1>3. TypeOK'
  BY <1>0, <1>1 DEF XWait, Ensure, Inv, TypeOK
<1>4. FrameOK'
  BY <1>0, <1>2 DEF Inv, FrameOK
<1>5. HolderOK'
  <2> SUFFICES ASSUME NEW v \in Threads, NEW n \in Mutexes
               PROVE  (holder[n] = v)' <=> Owns(v, n)'
    BY DEF HolderOK
  <2>1. (holder[n] = v) <=> Owns(v, n)
    BY DEF Inv, HolderOK
  <2>2. CASE v = t
    BY <1>0, <1>2, <2>1, <2>2 DEF Owns
  <2>3. CASE v # t
    BY <1>1, <1>2, <2>1, <2>3 DEF Owns
  <2> QED  BY <2>2, <2>3
<1>6. WaitingOnOK'
  BY <1>2 DEF Inv, WaitingOnOK, InWait
<1>7. QueuesOK'
  <2>1. ASSUME NEW n \in Mutexes, NEW v \in Threads, v \in ToSet(waiters'[n])
        PROVE  pc'[v] = "lockPark" /\ mu'[v] = n /\ waitingOn'[v] = n
    <3>1. v # t /\ v \in ToSet(waiters[n])
      BY <1>0, <1>1, <2>1
    <3> QED  BY <1>2, <3>1 DEF Inv, QueuesOK
  <2>2. ASSUME NEW q \in Conditions, NEW v \in Threads, v \in ToSet(waiters'[q])
        PROVE  InWait(v)' /\ cv'[v] = q /\ waitingOn'[v] = q
    <3>1. CASE v = t
      <4>1. q = c
        BY <1>0, <1>1, <2>2, <3>1
      <4> QED  BY <1>2, <3>1, <4>1, NilAssumption DEF InWait
    <3>2. CASE v # t
      <4>1. v \in ToSet(waiters[q])
        BY <1>1, <2>2, <3>2
      <4> QED  BY <1>2, <3>2, <4>1 DEF Inv, QueuesOK, InWait
    <3> QED  BY <3>1, <3>2
  <2> QED  BY <1>1, <2>1, <2>2 DEF QueuesOK
<1>8. ChainsOK'
  <2>2. ASSUME NEW v \in Threads, NEW w \in Threads,
               pc'[v] = "handoff", w \in ToSet(chain'[v])
        PROVE  /\ pc'[w] = "lockPark" /\ mu'[w] = mu'[v] /\ waitingOn'[w] = mu'[v]
               /\ w \notin ToSet(waiters'[mu'[v]])
    BY <1>0, <1>1, <1>2, <2>2 DEF Inv, FrameOK, ChainsOK
  <2>3. ASSUME NEW v \in Threads, NEW w \in Threads,
               pc'[v] = "wake", w \in ToSet(chain'[v])
        PROVE  InWait(w)' /\ waitingOn'[w] = cv'[w] /\ w \notin ToSet(waiters'[cv'[w]])
    <3>1. v # t /\ w # t
      BY <1>0, <1>2, <2>3
    <3>2. InWait(w) /\ waitingOn[w] = cv[w] /\ w \notin ToSet(waiters[cv[w]])
      BY <1>2, <2>3, <3>1 DEF Inv, ChainsOK
    <3>3. cv[w] \in Lists
      BY <3>2 DEF Inv, TypeOK, InWait
    <3> QED  BY <1>1, <1>2, <3>1, <3>2, <3>3 DEF InWait
  <2> QED  BY <1>2, <2>2, <2>3 DEF Inv, ChainsOK
<1>9. NoLostMutex' /\ OnlyAlertRace'
  BY <1>1, <1>2 DEF Inv, NoLostMutex, OnlyAlertRace
<1> QED  BY <1>3, <1>4, <1>5, <1>6, <1>7, <1>8, <1>9 DEF Inv

LEMMA AlertStep ==
  ASSUME Inv, NoFault, NEW t \in Threads, AlertBranch(t)
  PROVE  Inv'
<1> USE ListKinds
<1> DEFINE c == cv[t]
<1>1. /\ pc[t] \in {"check", "park"} /\ c \in Conditions /\ chain[t] = <<>>
      /\ waitingOn[t] \in {c, NIL}
  BY DEF AlertBranch, AtLoopTop, At, Inv, FrameOK, WaitingOnOK
<1>2. /\ Unlink(t, c)
      /\ \A u \in Threads \ {t} : pc'[u] = pc[u]
      /\ pc'[t] = "relock"
      /\ UNCHANGED <<holder, mu, cv, alertable, chain, LL>>
  BY DEF AlertBranch, Inv, TypeOK
<1> HIDE DEF c
<1>3. \A q \in Lists : t \in ToSet(waiters[q]) => q = waitingOn[t]
  BY DEF Inv, QueuesOK
<1>4. /\ waiters' \in [Lists -> Seq(Threads)]
      /\ \A q \in Lists : IsInjective(waiters'[q])
      /\ \A q \in Lists : t \notin ToSet(waiters'[q])
      /\ \A q \in Lists : ToSet(waiters'[q]) \subseteq ToSet(waiters[q])
      /\ \A m \in Mutexes : waiters'[m] = waiters[m]
  <2>1. waiters \in [Lists -> Seq(Threads)] /\ \A q \in Lists : IsInjective(waiters[q])
    BY DEF Inv, TypeOK, QueuesOK
  <2>2. CASE waitingOn[t] # NIL
    <3>1. waiters' = [waiters EXCEPT ![c] = Without(waiters[c], t)]
      BY <1>2, <2>2 DEF Unlink
    <3>2. /\ Without(waiters[c], t) \in Seq(Threads)
          /\ ToSet(Without(waiters[c], t)) \subseteq ToSet(waiters[c])
          /\ IsInjective(Without(waiters[c], t))
          /\ t \notin ToSet(Without(waiters[c], t))
      BY <1>1, <2>1, WithoutList
    <3> QED  BY <1>1, <1>3, <2>1, <3>1, <3>2
  <2>3. CASE waitingOn[t] = NIL
    BY <1>2, <1>3, <2>1, <2>3 DEF Unlink
  <2> QED  BY <2>2, <2>3
<1>5. /\ \A u \in Threads \ {t} : waitingOn'[u] = waitingOn[u]
      /\ waitingOn'[t] = NIL
  BY <1>2 DEF Unlink, Inv, TypeOK
<1>6. fault' \in {"none", "prev = NIL", "other waiter lost", "endless search"}
  BY <1>1, <1>2 DEF Unlink, Ensure, NoFault
<1>7. fault' = "none" => waitingOn[t] = NIL \/ t \in ToSet(waiters[c])
  BY <1>1, <1>2 DEF Unlink, Ensure, NoFault
<1>8. \A u \in Threads : pc[u] = "handoff" => t \notin ToSet(chain[u])
  BY <1>1 DEF Inv, ChainsOK
<1>9. fault' = "none" => \A u \in Threads : pc[u] = "wake" => t \notin ToSet(chain[u])
  BY <1>1, <1>7 DEF Inv, ChainsOK, InWait, c
<1>10. TypeOK'
  BY <1>4, <1>5, <1>6 DEF AlertBranch, Unlink, Inv, TypeOK
<1>11. FrameOK'
  BY <1>1, <1>2 DEF Inv, FrameOK, c
<1>12. HolderOK'
  BY <1>1, <1>2, <1>4 DEF Inv, HolderOK, Owns
<1>13. WaitingOnOK'
  BY <1>2, <1>5 DEF Inv, WaitingOnOK, InWait
<1>14. QueuesOK'
  <2>1. ASSUME NEW n \in Mutexes, NEW u \in Threads, u \in ToSet(waiters'[n])
        PROVE  pc'[u] = "lockPark" /\ mu'[u] = n /\ waitingOn'[u] = n
    BY <1>2, <1>4, <1>5, <2>1 DEF Inv, QueuesOK
  <2>2. ASSUME NEW q \in Conditions, NEW u \in Threads, u \in ToSet(waiters'[q])
        PROVE  InWait(u)' /\ cv'[u] = q /\ waitingOn'[u] = q
    <3>1. u # t /\ u \in ToSet(waiters[q])
      BY <1>4, <2>2
    <3> QED  BY <1>2, <1>5, <3>1 DEF Inv, QueuesOK, InWait
  <2> QED  BY <1>4, <2>1, <2>2 DEF QueuesOK
<1>15. ChainsOK'
  <2>1. ASSUME NEW v \in Threads, NEW w \in Threads,
               pc'[v] = "handoff", w \in ToSet(chain'[v])
        PROVE  /\ pc'[w] = "lockPark" /\ mu'[w] = mu'[v] /\ waitingOn'[w] = mu'[v]
               /\ w \notin ToSet(waiters'[mu'[v]])
    <3>1. v # t /\ w # t /\ pc[v] = "handoff" /\ mu[v] \in Mutexes
      BY <1>2, <1>8, <2>1 DEF Inv, FrameOK
    <3> QED  BY <1>2, <1>4, <1>5, <2>1, <3>1 DEF Inv, ChainsOK
  <2>2. ASSUME NEW v \in Threads, NEW w \in Threads, fault' = "none",
               pc'[v] = "wake", w \in ToSet(chain'[v])
        PROVE  InWait(w)' /\ waitingOn'[w] = cv'[w] /\ w \notin ToSet(waiters'[cv'[w]])
    <3>1. v # t /\ w # t /\ pc[v] = "wake"
      BY <1>2, <1>9, <2>2
    <3>2. InWait(w) /\ waitingOn[w] = cv[w] /\ w \notin ToSet(waiters[cv[w]])
      BY <1>2, <2>2, <3>1 DEF Inv, ChainsOK
    <3>3. cv[w] \in Lists
      BY <3>2 DEF Inv, TypeOK, InWait
    <3> QED  BY <1>2, <1>4, <1>5, <3>1, <3>2, <3>3 DEF InWait
  <2> QED  BY <1>2, <2>1, <2>2 DEF Inv, ChainsOK, NoFault
<1>16. NoLostMutex' /\ OnlyAlertRace'
  BY <1>2, <1>4, <1>6 DEF Inv, NoLostMutex, OnlyAlertRace
<1> QED  BY <1>10, <1>11, <1>12, <1>13, <1>14, <1>15, <1>16 DEF Inv

LEMMA DequeueStep ==
  ASSUME Inv, NoFault, NEW t \in Threads, NEW c \in Conditions,
         NEW woken \in Seq(Threads), NEW rest \in Seq(Threads),
         IsInjective(woken), IsInjective(rest),
         ToSet(woken) \cap ToSet(rest) = {},
         ToSet(woken) \subseteq ToSet(waiters[c]),
         ToSet(rest) \subseteq ToSet(waiters[c]),
         Dequeue(t, c, woken, rest)
  PROVE  Inv'
<1> USE ListKinds
<1>1. /\ pc[t] = "run" /\ cv[t] = NIL /\ chain[t] = <<>> /\ waitingOn[t] = NIL
      /\ \A q \in Lists : t \notin ToSet(waiters[q])
      /\ \A u \in Threads : t \notin ToSet(chain[u])
  BY Unlisted DEF Dequeue, At, Inv, FrameOK
<1>2. /\ \A u \in Threads \ {t} : pc'[u] = pc[u] /\ chain'[u] = chain[u]
      /\ pc'[t] = IF woken = <<>> THEN "run" ELSE "wake"
      /\ chain'[t] = woken
      /\ UNCHANGED <<holder, waitingOn, mu, cv, LL, fault>>
      /\ waiters' = [waiters EXCEPT ![c] = rest]
  BY DEF Dequeue, Inv, TypeOK, activation, frame
<1>3. /\ \A q \in Lists : IsInjective(waiters'[q])
      /\ \A q \in Lists : ToSet(waiters'[q]) \subseteq ToSet(waiters[q])
      /\ waiters'[c] = rest
      /\ \A m \in Mutexes : waiters'[m] = waiters[m]
  <2>1. waiters \in [Lists -> Seq(Threads)] /\ \A q \in Lists : IsInjective(waiters[q])
    BY DEF Inv, TypeOK, QueuesOK
  <2> QED  BY <1>2, <2>1
<1>4. \A w \in Threads : w \in ToSet(woken) =>
        /\ InWait(w) /\ cv[w] = c /\ waitingOn[w] = c /\ w # t
        /\ \A u \in Threads : w \notin ToSet(chain[u])
  <2> SUFFICES ASSUME NEW w \in Threads, w \in ToSet(woken)
               PROVE  /\ InWait(w) /\ cv[w] = c /\ waitingOn[w] = c /\ w # t
                      /\ \A u \in Threads : w \notin ToSet(chain[u])
    OBVIOUS
  <2>1. w \in ToSet(waiters[c]) /\ InWait(w) /\ cv[w] = c /\ waitingOn[w] = c /\ w # t
    BY <1>1 DEF Inv, QueuesOK
  <2>2. ASSUME NEW u \in Threads
        PROVE  w \notin ToSet(chain[u])
    <3>1. CASE pc[u] = "handoff"
      BY <2>1, <3>1 DEF Inv, ChainsOK, InWait
    <3>2. CASE pc[u] = "wake"
      BY <2>1, <3>2 DEF Inv, ChainsOK
    <3>3. CASE pc[u] \notin {"handoff", "wake"}
      BY <3>3, EmptyList DEF Inv, FrameOK
    <3> QED  BY <3>1, <3>2, <3>3
  <2> QED  BY <2>1, <2>2
<1>5. TypeOK'
  BY DEF Dequeue, Inv, TypeOK, activation, frame
<1>6. FrameOK'
  BY <1>1, <1>2 DEF Inv, FrameOK
<1>7. HolderOK'
  BY <1>1, <1>2, <1>3 DEF Inv, HolderOK, Owns
<1>8. WaitingOnOK'
  BY <1>1, <1>2 DEF Inv, WaitingOnOK, InWait
<1>9. QueuesOK'
  <2>1. ASSUME NEW n \in Mutexes, NEW u \in Threads, u \in ToSet(waiters'[n])
        PROVE  pc'[u] = "lockPark" /\ mu'[u] = n /\ waitingOn'[u] = n
    BY <1>1, <1>2, <1>3, <2>1 DEF Inv, QueuesOK
  <2>2. ASSUME NEW q \in Conditions, NEW u \in Threads, u \in ToSet(waiters'[q])
        PROVE  InWait(u)' /\ cv'[u] = q /\ waitingOn'[u] = q
    <3>1. u # t /\ u \in ToSet(waiters[q])
      BY <1>1, <1>3, <2>2
    <3> QED  BY <1>2, <3>1 DEF Inv, QueuesOK, InWait
  <2> QED  BY <1>3, <2>1, <2>2 DEF QueuesOK
<1>10. ChainsOK'
  <2>1. /\ \A v \in Threads : IsInjective(chain'[v])
        /\ \A v, w, x \in Threads :
             x \in ToSet(chain'[v]) /\ x \in ToSet(chain'[w]) => v = w
    BY <1>2, <1>4 DEF Inv, ChainsOK
  <2>2. ASSUME NEW v \in Threads, NEW w \in Threads,
               pc'[v] = "handoff", w \in ToSet(chain'[v])
        PROVE  /\ pc'[w] = "lockPark" /\ mu'[w] = mu'[v] /\ waitingOn'[w] = mu'[v]
               /\ w \notin ToSet(waiters'[mu'[v]])
    <3>1. v # t /\ w # t /\ mu[v] \in Mutexes
      BY <1>1, <1>2, <2>2 DEF Inv, FrameOK
    <3> QED  BY <1>2, <1>3, <2>2, <3>1 DEF Inv, ChainsOK
  <2>3. ASSUME NEW v \in Threads, NEW w \in Threads,
               pc'[v] = "wake", w \in ToSet(chain'[v])
        PROVE  InWait(w)' /\ waitingOn'[w] = cv'[w] /\ w \notin ToSet(waiters'[cv'[w]])
    <3>1. CASE v = t
      BY <1>2, <1>3, <1>4, <2>3, <3>1 DEF InWait
    <3>2. CASE v # t
      <4>1. w # t /\ InWait(w) /\ waitingOn[w] = cv[w] /\ w \notin ToSet(waiters[cv[w]])
        BY <1>1, <1>2, <2>3, <3>2 DEF Inv, ChainsOK
      <4>2. cv[w] \in Lists
        BY <4>1 DEF Inv, TypeOK, InWait
      <4> QED  BY <1>2, <1>3, <4>1, <4>2 DEF InWait
    <3> QED  BY <3>1, <3>2
  <2> QED  BY <2>1, <2>2, <2>3 DEF ChainsOK
<1>11. NoLostMutex' /\ OnlyAlertRace'
  BY <1>2, <1>3 DEF Inv, NoLostMutex, OnlyAlertRace
<1> QED  BY <1>5, <1>6, <1>7, <1>8, <1>9, <1>10, <1>11 DEF Inv

LEMMA WakeNextStep ==
  ASSUME Inv, NoFault, NEW t \in Threads, WakeNext(t)
  PROVE  Inv'
<1> USE ListKinds
<1> DEFINE u == Head(chain[t])
<1>1. /\ pc[t] = "wake" /\ chain[t] \in Seq(Threads) /\ chain[t] # <<>> /\ cv[t] = NIL
  BY DEF WakeNext, At, Inv, TypeOK, FrameOK
<1>2. /\ u \in Threads /\ u \in ToSet(chain[t]) /\ Tail(chain[t]) \in Seq(Threads)
      /\ ToSet(Tail(chain[t])) \subseteq ToSet(chain[t])
      /\ IsInjective(Tail(chain[t])) /\ u \notin ToSet(Tail(chain[t]))
      /\ Tail(chain[t]) = <<>> <=> Len(chain[t]) = 1
  <2>1. IsInjective(chain[t])
    BY DEF Inv, ChainsOK
  <2>2. Tail(chain[t]) = <<>> <=> Len(chain[t]) = 1
    <3>1. /\ Tail(chain[t]) \in Seq(Threads)
          /\ Len(Tail(chain[t])) = Len(chain[t]) - 1 /\ Len(chain[t]) \in Nat
      BY <1>1, HeadTailProperties
    <3>2. Tail(chain[t]) = <<>> <=> Len(Tail(chain[t])) = 0
      BY <3>1, EmptySeq
    <3> QED  BY <3>1, <3>2
  <2> QED  BY <1>1, <2>1, <2>2, HeadTailList
<1>3. /\ waitingOn' = [waitingOn EXCEPT ![u] = NIL] /\ CondSignal(u)
      /\ chain' = [chain EXCEPT ![t] = Tail(chain[t])]
      /\ pc' = [pc EXCEPT ![t] = IF Len(chain[t]) = 1 THEN "run" ELSE "wake"]
      /\ UNCHANGED <<holder, waiters, alerted, mu, cv, alertable, raise, LL, fault>>
  BY DEF WakeNext, frame
<1> HIDE DEF u
<1>4. /\ InWait(u) /\ waitingOn[u] = cv[u] /\ u # t
      /\ u \notin ToSet(waiters[cv[u]])
      /\ \A v \in Threads \ {t} : u \notin ToSet(chain[v])
  BY <1>1, <1>2 DEF Inv, ChainsOK, InWait
<1>5. \A q \in Lists : u \notin ToSet(waiters[q])
  BY <1>2, <1>4 DEF Inv, QueuesOK
<1>6. /\ \A v \in Threads \ {t} : pc'[v] = pc[v] /\ chain'[v] = chain[v]
      /\ \A v \in Threads \ {u} : waitingOn'[v] = waitingOn[v]
      /\ waitingOn'[u] = NIL /\ chain'[t] = Tail(chain[t])
      /\ pc'[t] = IF Len(chain[t]) = 1 THEN "run" ELSE "wake"
      /\ UNCHANGED <<holder, waiters, mu, cv, LL, fault>>
  BY <1>2, <1>3 DEF Inv, TypeOK
<1>7. waitingOn[t] = NIL
  BY <1>1 DEF Inv, WaitingOnOK, InWait
<1>8. TypeOK'
  BY <1>2, <1>3 DEF Inv, TypeOK, CondSignal, Parked
<1>9. FrameOK'
  <2>1. ASSUME NEW v \in Threads, v # t
        PROVE  /\ pc'[v] \notin {"run", "wake"} => mu'[v] \in Mutexes
               /\ pc'[v] \in {"release", "check", "park", "relock"} => cv'[v] \in Conditions
               /\ pc'[v] \in {"run", "wake"} => cv'[v] = NIL
               /\ cv'[v] # NIL => mu'[v] \notin LL'[v]
               /\ pc'[v] \in {"handoff", "wake"} <=> chain'[v] # <<>>
               /\ pc'[v] = "handoff" => Len(chain'[v]) = 1
    BY <1>6, <2>1 DEF Inv, FrameOK
  <2>2. /\ pc'[t] \in {"run", "wake"} /\ cv'[t] = NIL
        /\ pc'[t] = "wake" <=> chain'[t] # <<>>
    BY <1>1, <1>2, <1>6
  <2> QED  BY <2>1, <2>2 DEF FrameOK
<1>10. HolderOK'
  BY <1>1, <1>6 DEF Inv, HolderOK, Owns
<1>11. WaitingOnOK'
  BY <1>6, <1>7 DEF Inv, WaitingOnOK, InWait
<1>12. QueuesOK'
  BY <1>1, <1>5, <1>6 DEF Inv, QueuesOK, InWait
<1>13. ChainsOK'
  <2>1. /\ \A v \in Threads : IsInjective(chain'[v])
        /\ \A v, w, x \in Threads :
             x \in ToSet(chain'[v]) /\ x \in ToSet(chain'[w]) => v = w
    BY <1>2, <1>6 DEF Inv, ChainsOK
  <2>2. ASSUME NEW v \in Threads, NEW w \in Threads,
               pc'[v] = "handoff", w \in ToSet(chain'[v])
        PROVE  /\ pc'[w] = "lockPark" /\ mu'[w] = mu'[v] /\ waitingOn'[w] = mu'[v]
               /\ w \notin ToSet(waiters'[mu'[v]])
    <3>1. v # t /\ w # u
      BY <1>4, <1>6, <2>2
    <3> QED  BY <1>1, <1>6, <2>2, <3>1 DEF Inv, ChainsOK
  <2>3. ASSUME NEW v \in Threads, NEW w \in Threads,
               pc'[v] = "wake", w \in ToSet(chain'[v])
        PROVE  InWait(w)' /\ waitingOn'[w] = cv'[w] /\ w \notin ToSet(waiters'[cv'[w]])
    <3>1. pc[v] = "wake" /\ w \in ToSet(chain[v]) /\ w # u
      BY <1>1, <1>2, <1>4, <1>6, <2>3
    <3>2. InWait(w) /\ waitingOn[w] = cv[w] /\ w \notin ToSet(waiters[cv[w]])
      BY <3>1 DEF Inv, ChainsOK
    <3> QED  BY <1>1, <1>6, <3>1, <3>2 DEF InWait
  <2> QED  BY <2>1, <2>2, <2>3 DEF ChainsOK
<1>14. NoLostMutex' /\ OnlyAlertRace'
  BY <1>6 DEF Inv, NoLostMutex, OnlyAlertRace
<1> QED  BY <1>8, <1>9, <1>10, <1>11, <1>12, <1>13, <1>14 DEF Inv

(***************************************************************************)
(* The theorems.                                                           *)
(***************************************************************************)
LEMMA ProgressInv ==
  ASSUME Inv, NEW t \in Threads, Progress(t)
  PROVE  Inv'
<1>0. NoFault
  BY DEF Progress, Relock, WakeInLock, XWaitRelease, Handoff, AlertBranch, SignalledBranch,
     ParkBranch, WakeNext, AtLoopTop, At, NoFault
<1>1. CASE Relock(t)
  <2>1. pc[t] = "relock" /\ mu[t] \in Mutexes /\ mu[t] \notin LL[t]
    BY <1>1, NilAssumption DEF Relock, At, Inv, FrameOK
  <2> QED  BY <1>0, <1>1, <2>1, TakeFreeStep, EnqueueStep DEF Relock, LockMutex
<1>2. CASE WakeInLock(t)
  BY <1>0, <1>2, WakeInLockStep
<1>3. CASE XWaitRelease(t)
  <2>1. pc[t] = "release" /\ mu[t] \in Mutexes
    BY <1>3 DEF XWaitRelease, At, Inv, FrameOK
  <2> QED  BY <1>0, <1>3, <2>1, UnlockStep DEF XWaitRelease
<1>4. CASE Handoff(t)
  BY <1>0, <1>4, HandoffStep
<1>5. CASE AlertBranch(t)
  BY <1>0, <1>5, AlertStep
<1>6. CASE SignalledBranch(t)
  BY <1>0, <1>6, SignalledStep
<1>7. CASE ParkBranch(t)
  BY <1>0, <1>7, ParkStep
<1>8. CASE WakeNext(t)
  BY <1>0, <1>8, WakeNextStep
<1> QED  BY <1>1, <1>2, <1>3, <1>4, <1>5, <1>6, <1>7, <1>8 DEF Progress

LEMMA ClientInv ==
  ASSUME Inv, NEW t \in Threads, ClientStep(t)
  PROVE  Inv'
<1>0. NoFault
  BY DEF ClientStep, Acquire, Release, XWait, Signal, Broadcast, Dequeue, Alert,
     TestAlert, At, NoFault
<1>1. ASSUME NEW m \in Mutexes, Acquire(t, m)
      PROVE  Inv'
  <2>1. pc[t] = "run" /\ m \notin LL[t]
    BY <1>1, RankAssumption DEF Acquire, At
  <2> QED  BY <1>0, <1>1, <2>1, TakeFreeStep, EnqueueStep DEF Acquire, LockMutex
<1>2. ASSUME NEW m \in Mutexes, Release(t, m)
      PROVE  Inv'
  BY <1>0, <1>2, UnlockStep DEF Release, At
<1>3. ASSUME NEW m \in Mutexes, NEW c \in Conditions, NEW al \in BOOLEAN,
             XWait(t, m, c, al)
      PROVE  Inv'
  BY <1>0, <1>3, XWaitStep
<1>4. ASSUME NEW c \in Conditions, Signal(t, c)
      PROVE  Inv'
  <2>1. waiters[c] \in Seq(Threads) /\ IsInjective(waiters[c])
    BY ListKinds DEF Inv, TypeOK, QueuesOK
  <2>2. CASE waiters[c] = <<>>
    BY <1>0, <1>4, <2>2, EmptyList, DequeueStep DEF Signal
  <2>3. CASE waiters[c] # <<>>
    <3> DEFINE h == Head(waiters[c])
               r == Tail(waiters[c])
    <3>1. /\ h \in Threads /\ r \in Seq(Threads) /\ IsInjective(r)
          /\ h \notin ToSet(r) /\ ToSet(r) \subseteq ToSet(waiters[c])
          /\ h \in ToSet(waiters[c])
      BY <2>1, <2>3, HeadTailList
    <3>2. Dequeue(t, c, <<h>>, r)
      BY <1>4, <2>3 DEF Signal
    <3> HIDE DEF h, r
    <3>3. <<h>> \in Seq(Threads) /\ ToSet(<<h>>) = {h} /\ IsInjective(<<h>>)
      BY <3>1, SingletonList
    <3> QED  BY <1>0, <3>1, <3>2, <3>3, DequeueStep
  <2> QED  BY <2>2, <2>3
<1>5. ASSUME NEW c \in Conditions, Broadcast(t, c)
      PROVE  Inv'
  <2>1. waiters[c] \in Seq(Threads) /\ IsInjective(waiters[c])
    BY ListKinds DEF Inv, TypeOK, QueuesOK
  <2>2. /\ LastFirst(waiters[c]) \in Seq(Threads) /\ IsInjective(LastFirst(waiters[c]))
        /\ ToSet(LastFirst(waiters[c])) = ToSet(waiters[c])
    BY <2>1, LastFirstList
  <2>3. Dequeue(t, c, LastFirst(waiters[c]), <<>>)
    BY <1>5 DEF Broadcast
  <2> QED  BY <1>0, <2>2, <2>3, EmptyList, DequeueStep
<1>6. ASSUME NEW u \in Threads, Alert(t, u)
      PROVE  Inv'
  <2>1. alerted' \in [Threads -> BOOLEAN] /\ wake' \in [Threads -> BOOLEAN]
    BY <1>6 DEF Alert, CondSignal, Parked, Inv, TypeOK
  <2> QED  BY <1>6, <2>1, FlagsStep DEF Alert, frame
<1>7. CASE TestAlert(t)
  <2>1. alerted' \in [Threads -> BOOLEAN] /\ wake' \in [Threads -> BOOLEAN]
    BY <1>7 DEF TestAlert, Inv, TypeOK
  <2> QED  BY <1>7, <2>1, FlagsStep DEF TestAlert, frame
<1> QED  BY <1>1, <1>2, <1>3, <1>4, <1>5, <1>6, <1>7 DEF ClientStep

(* Inv holds of every reachable state. *)
THEOREM Invariance == Spec => []Inv
<1>1. Inv /\ [Next]_vars => Inv'
  <2> SUFFICES ASSUME Inv, [Next]_vars PROVE Inv'
    OBVIOUS
  <2>1. CASE UNCHANGED vars
    BY <2>1, FlagsStep DEF vars, frame, Inv, TypeOK
  <2>2. ASSUME NEW t \in Threads, SpuriousWakeup(t)
        PROVE  Inv'
    <3>1. alerted' \in [Threads -> BOOLEAN] /\ wake' \in [Threads -> BOOLEAN]
      BY <2>2 DEF SpuriousWakeup, Inv, TypeOK
    <3> QED  BY <2>2, <3>1, FlagsStep DEF SpuriousWakeup, frame
  <2> QED  BY <2>1, <2>2, ProgressInv, ClientInv DEF Next
<1> QED  BY InitInv, <1>1, PTL DEF Spec

(* The variables have the types of the fields and locals they model. *)
THEOREM TypeCorrect == Spec => []TypeOK
<1>1. Inv => TypeOK
  BY DEF Inv
<1> QED  BY <1>1, Invariance, PTL

(* No two clients ever hold the same mutex, whatever mix of Lock, Wait,    *)
(* AlertWait, Signal, Broadcast and Alert they call.                       *)
THEOREM MutualExclusionHolds == Spec => []MutualExclusion
<1>1. Inv => MutualExclusion
  <2> SUFFICES ASSUME Inv, NEW t \in Threads, NEW u \in Threads, t # u,
                      NEW m \in LL[t] \cap LL[u]
               PROVE  FALSE
    BY DEF MutualExclusion
  <2>1. m \in Mutexes
    BY DEF Inv, TypeOK
  <2>2. holder[m] = t /\ holder[m] = u
    BY <2>1 DEF Inv, HolderOK, Owns
  <2> QED  BY <2>2
<1> QED  BY <1>1, Invariance, PTL

(* No mutex is left free with threads queued for it. *)
THEOREM NoLostMutexHolds == Spec => []NoLostMutex
<1>1. Inv => NoLostMutex
  BY DEF Inv
<1> QED  BY <1>1, Invariance, PTL

(* The assertions of LockMutex, UnlockMutex and XWait never fail and their *)
(* Die exits are never taken; what remains is the search of XWait's alert  *)
(* branch.                                                                 *)
THEOREM OnlyAlertRaceHolds == Spec => []OnlyAlertRace
<1>1. Inv => OnlyAlertRace
  BY DEF Inv
<1> QED  BY <1>1, Invariance, PTL

(* A thread is on at most one wait list, or in one waker's hands. *)
THEOREM OnOneListHolds == Spec => []OnOneList
<1>1. Inv => OnOneList
  <2> SUFFICES ASSUME Inv, NoFault PROVE OnOneList
    BY DEF OnOneList
  <2>0. /\ \A q \in Lists : waiters[q] \in Seq(Threads)
        /\ \A t \in Threads : chain[t] \in Seq(Threads)
    BY DEF Inv, TypeOK
  <2>1. /\ \A q \in Lists : ToSet(waiters[q]) \subseteq Threads
        /\ \A t \in Threads : ToSet(chain[t]) \subseteq Threads
    BY <2>0 DEF ToSet
  <2>2. \A q \in Lists : IsInjective(waiters[q])
    BY DEF Inv, QueuesOK
  <2>3. \A q \in Lists : \A u \in ToSet(waiters[q]) : waitingOn[u] = q
    BY <2>1, ListKinds DEF Inv, QueuesOK
  <2>4. /\ \A t \in Threads : IsInjective(chain[t])
        /\ \A t, u \in Threads : t # u => ToSet(chain[t]) \cap ToSet(chain[u]) = {}
    BY <2>1 DEF Inv, ChainsOK
  <2>5. ASSUME NEW t \in Threads, NEW q \in Lists, NEW u \in ToSet(chain[t])
        PROVE  u \notin ToSet(waiters[q])
    <3>1. u \in Threads
      BY <2>1, <2>5
    <3>2. CASE pc[t] = "handoff"
      BY <2>3, <3>1, <3>2 DEF Inv, ChainsOK
    <3>3. CASE pc[t] = "wake"
      BY <2>3, <3>1, <3>3 DEF Inv, ChainsOK
    <3>4. CASE pc[t] \notin {"handoff", "wake"}
      BY <2>5, <3>4, EmptyList DEF Inv, FrameOK
    <3> QED  BY <3>2, <3>3, <3>4
  <2> QED  BY <2>2, <2>3, <2>4, <2>5 DEF OnOneList
<1> QED  BY <1>1, Invariance, PTL

(* A program that never calls AlertWait runs into no assertion, no Die and *)
(* no NIL link, alerts or not.                                             *)
THEOREM NoFaultWithoutAlertWait ==
  ASSUME "AlertWait" \notin Calls
  PROVE  Spec => []NoFault
<1> DEFINE Plain == \A t \in Threads : alertable[t] = FALSE
           Safe == NoFault /\ Plain
<1>1. Init => Safe
  BY DEF Init, NoFault
<1>2. Inv /\ Inv' /\ Safe /\ [Next]_vars => Safe'
  <2> SUFFICES ASSUME Inv, Inv', Safe, [Next]_vars
               PROVE  NoFault' /\ Plain'
    OBVIOUS
  <2>0. alertable \in [Threads -> BOOLEAN] /\ OnlyAlertRace'
    BY DEF Inv, TypeOK
  <2>1. CASE UNCHANGED vars
    BY <2>1 DEF vars, NoFault
  <2>2. ASSUME NEW t \in Threads, Progress(t)
        PROVE  NoFault' /\ Plain'
    <3>1. ~AlertBranch(t)
      BY DEF AlertBranch
    <3>2. Plain'
      BY <2>0, <2>2, <3>1 DEF Progress, Relock, LockMutex, TakeFree, EnqueueAndPark,
         LockReturns, WakeInLock, XWaitRelease, UnlockMutex, Handoff, SignalledBranch,
         ParkBranch, WakeNext, frame
    <3>3. NoFault'
      BY <2>0, <2>2, <3>1 DEF Progress, Relock, LockMutex, TakeFree, EnqueueAndPark,
         WakeInLock, XWaitRelease, UnlockMutex, Handoff, SignalledBranch,
         ParkBranch, WakeNext, Ensure, NoFault, OnlyAlertRace
    <3> QED  BY <3>2, <3>3
  <2>3. ASSUME NEW t \in Threads, ClientStep(t)
        PROVE  NoFault' /\ Plain'
    <3>1. ASSUME NEW m \in Mutexes, Acquire(t, m) \/ Release(t, m)
          PROVE  NoFault' /\ Plain'
      BY <2>0, <3>1 DEF Acquire, LockMutex, TakeFree, EnqueueAndPark, LockReturns,
         Release, UnlockMutex, Ensure, NoFault, OnlyAlertRace
    <3>2. ASSUME NEW m \in Mutexes, NEW c \in Conditions, NEW al \in BOOLEAN,
                 XWait(t, m, c, al)
          PROVE  NoFault' /\ Plain'
      BY <2>0, <3>2 DEF XWait, Ensure, NoFault, OnlyAlertRace
    <3>3. ASSUME NEW c \in Conditions, Signal(t, c) \/ Broadcast(t, c)
          PROVE  NoFault' /\ Plain'
      BY <3>3 DEF Signal, Broadcast, Dequeue, frame, NoFault
    <3>4. ASSUME NEW u \in Threads, Alert(t, u) \/ TestAlert(t)
          PROVE  NoFault' /\ Plain'
      BY <3>4 DEF Alert, TestAlert, frame, NoFault
    <3> QED  BY <2>3, <3>1, <3>2, <3>3, <3>4 DEF ClientStep
  <2>4. ASSUME NEW t \in Threads, SpuriousWakeup(t)
        PROVE  NoFault' /\ Plain'
    BY <2>4 DEF SpuriousWakeup, frame, NoFault
  <2> QED  BY <2>1, <2>2, <2>3, <2>4 DEF Next
<1> QED  BY <1>1, <1>2, Invariance, PTL DEF Spec

(* A mutex with waiters only ever passes to the longest waiter. *)
THEOREM HandoffInOrderHolds == Spec => HandoffInOrder
<1> DEFINE InOrder == \A m \in Mutexes :
             waiters[m] # <<>> /\ holder'[m] # holder[m] => holder'[m] = Head(waiters[m])
<1>1. Inv /\ [Next]_vars => [InOrder]_vars
  <2> SUFFICES ASSUME Inv, [Next]_vars, NEW m \in Mutexes,
                      waiters[m] # <<>>, holder'[m] # holder[m]
               PROVE  holder'[m] = Head(waiters[m])
    OBVIOUS
  <2>1. holder[m] # NIL /\ holder \in [Mutexes -> Threads \cup {NIL}]
    BY DEF Inv, NoLostMutex, TypeOK
  <2>2. ASSUME NEW t \in Threads, NEW n \in Mutexes, LockMutex(t, n)
        PROVE  FALSE
    BY <2>1, <2>2 DEF LockMutex, TakeFree, EnqueueAndPark
  <2>3. ASSUME NEW t \in Threads, NEW n \in Mutexes, UnlockMutex(t, n)
        PROVE  holder'[m] = Head(waiters[m])
    BY <2>1, <2>3 DEF UnlockMutex
  <2>4. ASSUME NEW t \in Threads, Progress(t)
        PROVE  holder'[m] = Head(waiters[m])
    <3>1. CASE Relock(t)
      <4>1. mu[t] \in Mutexes
        BY <3>1 DEF Relock, At, Inv, FrameOK
      <4> QED  BY <2>2, <3>1, <4>1 DEF Relock
    <3>2. CASE XWaitRelease(t)
      <4>1. mu[t] \in Mutexes
        BY <3>2 DEF XWaitRelease, At, Inv, FrameOK
      <4> QED  BY <2>3, <3>2, <4>1 DEF XWaitRelease
    <3>3. CASE ~Relock(t) /\ ~XWaitRelease(t)
      BY <2>4, <3>3 DEF Progress, WakeInLock, Handoff, AlertBranch, SignalledBranch,
         ParkBranch, WakeNext
    <3> QED  BY <3>1, <3>2, <3>3
  <2>5. ASSUME NEW t \in Threads, ClientStep(t)
        PROVE  holder'[m] = Head(waiters[m])
    BY <2>2, <2>3, <2>5 DEF ClientStep, Acquire, Release, XWait, Signal, Broadcast,
       Dequeue, Alert, TestAlert
  <2>6. ASSUME NEW t \in Threads, SpuriousWakeup(t)
        PROVE  FALSE
    BY <2>6 DEF SpuriousWakeup
  <2>7. ~UNCHANGED vars
    BY DEF vars
  <2> QED  BY <2>4, <2>5, <2>6, <2>7 DEF Next
<1> QED  BY <1>1, Invariance, PTL DEF Spec, HandoffInOrder

(***************************************************************************)
(* Wake-ups.  NoLostWakeup is inductive relative to Inv: what clears       *)
(* waitingOn or sets alerted signals the thread in the same step, and a    *)
(* thread that parks has looked at both.                                   *)
(***************************************************************************)
Informed(u) ==
  /\ pc[u] = "lockPark" /\ waitingOn[u] = NIL => wake[u]
  /\ pc[u] = "park" /\ (waitingOn[u] = NIL \/ (alertable[u] /\ alerted[u])) => wake[u]

LEMMA ProgressWakes ==
  ASSUME Inv, NoLostWakeup, NEW t \in Threads, Progress(t)
  PROVE  NoLostWakeup'
<1> USE ListKinds
<1>0. /\ pc \in [Threads -> {"run", "lockPark", "handoff", "wake",
                             "release", "check", "park", "relock"}]
      /\ waitingOn \in [Threads -> Lists \cup {NIL}]
      /\ alerted \in [Threads -> BOOLEAN] /\ wake \in [Threads -> BOOLEAN]
      /\ alertable \in [Threads -> BOOLEAN]
  BY DEF Inv, TypeOK
<1> SUFFICES ASSUME NEW u \in Threads
             PROVE  Informed(u)'
  BY DEF NoLostWakeup, Informed
<1> USE DEF Informed
<1>a. Informed(u)
  BY DEF NoLostWakeup
<1>1. CASE Relock(t)
  <2>1. mu[t] \in Mutexes
    BY <1>1 DEF Relock, At, Inv, FrameOK
  <2> QED  BY <1>0, <1>a, <1>1, <2>1 DEF Relock, LockMutex, TakeFree, EnqueueAndPark,
              LockReturns, activation
<1>2. CASE WakeInLock(t)
  <2>0. /\ wake' = [wake EXCEPT ![t] = FALSE]
        /\ UNCHANGED <<waitingOn, alerted>>
    BY <1>2 DEF WakeInLock
  <2>1. CASE waitingOn[t] = NIL
    <3>1. /\ pc' = [pc EXCEPT ![t] = "run"]
          /\ alertable' = [alertable EXCEPT ![t] = FALSE]
      BY <1>2, <2>1 DEF WakeInLock, LockReturns
    <3> QED  BY <1>0, <1>a, <2>0, <3>1
  <2>2. CASE waitingOn[t] # NIL
    <3>1. pc[t] = "lockPark" /\ UNCHANGED <<pc, alertable>>
      BY <1>2, <2>2 DEF WakeInLock, At, frame
    <3> QED  BY <1>0, <1>a, <2>0, <2>2, <3>1
  <2> QED  BY <2>1, <2>2
<1>3. CASE XWaitRelease(t)
  BY <1>0, <1>a, <1>3 DEF XWaitRelease, UnlockMutex, AfterRelease, activation
<1>4. CASE Handoff(t)
  <2>1. PICK v \in Threads : waitingOn' = [waitingOn EXCEPT ![v] = NIL] /\ CondSignal(v)
    <3>1. chain[t] \in Seq(Threads) /\ chain[t] # <<>>
      BY <1>4 DEF Handoff, At, Inv, TypeOK, FrameOK
    <3> QED  BY <1>4, <3>1, HeadTailList DEF Handoff
  <2> QED  BY <1>0, <1>a, <1>4, <2>1 DEF Handoff, AfterRelease, CondSignal, Parked
<1>5. CASE AlertBranch(t)
  BY <1>0, <1>a, <1>5 DEF AlertBranch, Unlink
<1>6. CASE SignalledBranch(t)
  BY <1>0, <1>a, <1>6 DEF SignalledBranch, frame
<1>7. CASE ParkBranch(t)
  BY <1>0, <1>a, <1>7 DEF ParkBranch, frame
<1>8. CASE WakeNext(t)
  <2>1. PICK v \in Threads : waitingOn' = [waitingOn EXCEPT ![v] = NIL] /\ CondSignal(v)
    <3>1. chain[t] \in Seq(Threads) /\ chain[t] # <<>>
      BY <1>8 DEF WakeNext, At, Inv, TypeOK, FrameOK
    <3> QED  BY <1>8, <3>1, HeadTailList DEF WakeNext
  <2> QED  BY <1>0, <1>a, <1>8, <2>1 DEF WakeNext, CondSignal, Parked, frame
<1> QED  BY <1>1, <1>2, <1>3, <1>4, <1>5, <1>6, <1>7, <1>8 DEF Progress

LEMMA ClientWakes ==
  ASSUME Inv, NoLostWakeup, NEW t \in Threads, ClientStep(t) \/ SpuriousWakeup(t)
  PROVE  NoLostWakeup'
<1> USE ListKinds
<1>0. /\ pc \in [Threads -> {"run", "lockPark", "handoff", "wake",
                             "release", "check", "park", "relock"}]
      /\ waitingOn \in [Threads -> Lists \cup {NIL}]
      /\ alerted \in [Threads -> BOOLEAN] /\ wake \in [Threads -> BOOLEAN]
      /\ alertable \in [Threads -> BOOLEAN]
  BY DEF Inv, TypeOK
<1> SUFFICES ASSUME NEW u \in Threads
             PROVE  Informed(u)'
  BY DEF NoLostWakeup, Informed
<1> USE DEF Informed
<1>a. Informed(u)
  BY DEF NoLostWakeup
<1>1. ASSUME NEW m \in Mutexes, Acquire(t, m)
      PROVE  Informed(u)'
  BY <1>0, <1>a, <1>1 DEF Acquire, LockMutex, TakeFree, EnqueueAndPark, LockReturns, activation
<1>2. ASSUME NEW m \in Mutexes, Release(t, m)
      PROVE  Informed(u)'
  BY <1>0, <1>a, <1>2 DEF Release, UnlockMutex, AfterRelease, activation
<1>3. ASSUME NEW m \in Mutexes, NEW c \in Conditions, NEW al \in BOOLEAN, XWait(t, m, c, al)
      PROVE  Informed(u)'
  BY <1>0, <1>a, <1>3 DEF XWait
<1>4. ASSUME NEW c \in Conditions, Signal(t, c) \/ Broadcast(t, c)
      PROVE  Informed(u)'
  <2>1. PICK woken, rest : Dequeue(t, c, woken, rest)
    BY <1>4 DEF Signal, Broadcast
  <2> QED  BY <1>0, <1>a, <2>1 DEF Dequeue, activation, frame
<1>5. ASSUME NEW v \in Threads, Alert(t, v)
      PROVE  Informed(u)'
  BY <1>0, <1>a, <1>5 DEF Alert, CondSignal, Parked, frame
<1>6. CASE TestAlert(t)
  BY <1>0, <1>a, <1>6 DEF TestAlert, frame
<1>7. CASE SpuriousWakeup(t)
  BY <1>0, <1>a, <1>7 DEF SpuriousWakeup, frame
<1> QED  BY <1>1, <1>2, <1>3, <1>4, <1>5, <1>6, <1>7 DEF ClientStep

(* A parked thread never sleeps through the end of its wait: whatever mix  *)
(* of hand-offs, signals, broadcasts and alerts ends it, a wake-up is on   *)
(* its way.                                                                *)
THEOREM NoLostWakeupHolds == Spec => []NoLostWakeup
<1>1. Init => NoLostWakeup
  BY DEF Init, NoLostWakeup
<1>2. Inv /\ NoLostWakeup /\ [Next]_vars => NoLostWakeup'
  <2> SUFFICES ASSUME Inv, NoLostWakeup, [Next]_vars PROVE NoLostWakeup'
    OBVIOUS
  <2>1. CASE UNCHANGED vars
    BY <2>1 DEF vars, NoLostWakeup
  <2> QED  BY <2>1, ProgressWakes, ClientWakes DEF Next
<1> QED  BY <1>1, <1>2, Invariance, PTL DEF Spec
===============================================================================
