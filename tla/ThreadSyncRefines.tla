--------------------------- MODULE ThreadSyncRefines ---------------------------
(***************************************************************************)
(* Proof that ThreadSync implements ThreadSpec but for RaiseSignalled:     *)
(* that the queues, hand-offs and wake-ups of ThreadPThread.m3 do what the *)
(* monitors of Thread.lm3 do, or raise Alerted in a thread that has been   *)
(* signalled as well, for any number of threads, mutexes and conditions;   *)
(* and that mutexes alone never bring finitely many threads to a stop.     *)
(***************************************************************************)
EXTENDS ThreadSyncProofs, FiniteSetTheorems

(***************************************************************************)
(* What the mapping needs besides Inv.  A client's mutexes have different  *)
(* ranks, and one it locks or will relock ranks above those it has; raise  *)
(* is set only between the alert branch and the return of XWait.           *)
(***************************************************************************)
RankOK ==
  \A t \in Threads :
    /\ \A m, n \in LL[t] : LockRank[m] = LockRank[n] => m = n
    /\ pc[t] = "lockPark" \/ cv[t] # NIL =>
         \A n \in LL[t] : LockRank[n] < LockRank[mu[t]]

RaiseOK ==
  \A t \in Threads : raise[t] => cv[t] # NIL /\ pc[t] \in {"relock", "lockPark"}

IInv == Inv /\ RankOK /\ RaiseOK

(* LockMutex returns with m, which ranks above what the client had. *)
LEMMA ReturnRanks ==
  ASSUME IInv, NEW t \in Threads, NEW m \in Mutexes, LockReturns(t, m),
         \A n \in LL[t] : LockRank[n] < LockRank[m]
  PROVE  RankOK' /\ RaiseOK'
<1>0. /\ pc'[t] = "run" /\ cv'[t] = NIL /\ raise'[t] = FALSE /\ LL'[t] = LL[t] \cup {m}
      /\ LL[t] \subseteq Mutexes
      /\ \A u \in Threads \ {t} :
           /\ pc'[u] = pc[u] /\ cv'[u] = cv[u] /\ raise'[u] = raise[u]
           /\ mu'[u] = mu[u] /\ LL'[u] = LL[u]
  BY DEF LockReturns, IInv, Inv, TypeOK
<1>1. ASSUME NEW n \in LL'[t], NEW o \in LL'[t], LockRank[n] = LockRank[o]
      PROVE  n = o
  <2>1. LockRank[m] \in Nat /\ \A k \in LL[t] : LockRank[k] \in Nat /\ LockRank[k] < LockRank[m]
    BY <1>0, RankAssumption
  <2> QED  BY <1>0, <1>1, <2>1 DEF IInv, RankOK
<1>2. RankOK'
  BY <1>0, <1>1 DEF IInv, RankOK
<1>3. RaiseOK'
  BY <1>0 DEF IInv, RaiseOK
<1> QED  BY <1>2, <1>3

LEMMA ProgressRanks ==
  ASSUME IInv, NEW t \in Threads, Progress(t)
  PROVE  RankOK' /\ RaiseOK'
<1>0. /\ pc \in [Threads -> {"run", "lockPark", "handoff", "wake",
                             "release", "check", "park", "relock"}]
      /\ mu \in [Threads -> Mutexes \cup {NIL}]
      /\ cv \in [Threads -> Conditions \cup {NIL}]
      /\ raise \in [Threads -> BOOLEAN]
      /\ RankOK /\ RaiseOK
  BY DEF IInv, Inv, TypeOK
<1>1. CASE Relock(t)
  <2>1. mu[t] \in Mutexes /\ cv[t] # NIL /\ pc[t] = "relock"
    BY <1>1, NilAssumption DEF Relock, At, IInv, Inv, FrameOK
  <2>2. CASE TakeFree(t, mu[t])
    BY <2>1, <2>2, ReturnRanks DEF TakeFree, IInv, RankOK
  <2>3. CASE EnqueueAndPark(t, mu[t])
    BY <1>0, <2>1, <2>3 DEF EnqueueAndPark, RankOK, RaiseOK
  <2> QED  BY <1>1, <2>2, <2>3 DEF Relock, LockMutex
<1>2. CASE WakeInLock(t)
  <2>1. mu[t] \in Mutexes /\ pc[t] = "lockPark"
    BY <1>2 DEF WakeInLock, At, IInv, Inv, FrameOK
  <2>2. CASE LockReturns(t, mu[t])
    BY <2>1, <2>2, ReturnRanks DEF IInv, RankOK
  <2>3. CASE UNCHANGED <<fault, pc, frame, LL>>
    BY <1>0, <2>3 DEF frame, RankOK, RaiseOK
  <2> QED  BY <1>2, <2>2, <2>3 DEF WakeInLock
<1>3. CASE XWaitRelease(t)
  <2>1. /\ cv[t] # NIL /\ pc[t] = "release" /\ mu[t] \in Mutexes
        /\ UNCHANGED <<LL, cv, raise, mu>>
        /\ pc' = [pc EXCEPT ![t] = "check"] \/ pc' = [pc EXCEPT ![t] = "handoff"]
    BY <1>0, <1>3, NilAssumption DEF XWaitRelease, At, UnlockMutex, AfterRelease, IInv, Inv, FrameOK
  <2> QED  BY <1>0, <2>1 DEF RankOK, RaiseOK
<1>4. CASE Handoff(t)
  <2>1. /\ pc[t] = "handoff" /\ UNCHANGED <<LL, cv, raise>>
        /\ \A u \in Threads \ {t} : pc'[u] = pc[u] /\ mu'[u] = mu[u]
        /\ \/ cv[t] = NIL /\ pc'[t] = "run"
           \/ cv[t] # NIL /\ pc'[t] = "check" /\ mu'[t] = mu[t]
    BY <1>0, <1>4 DEF Handoff, At, AfterRelease
  <2> QED  BY <1>0, <2>1 DEF RankOK, RaiseOK
<1>5. CASE AlertBranch(t)
  <2>1. /\ pc[t] \in {"check", "park"} /\ cv[t] # NIL
        /\ UNCHANGED <<LL, cv, mu>>
        /\ pc' = [pc EXCEPT ![t] = "relock"] /\ raise' = [raise EXCEPT ![t] = TRUE]
    BY <1>5, NilAssumption DEF AlertBranch, AtLoopTop, At, IInv, Inv, FrameOK
  <2> QED  BY <1>0, <2>1 DEF RankOK, RaiseOK
<1>6. CASE SignalledBranch(t) \/ ParkBranch(t)
  <2>1. /\ pc[t] \in {"check", "park"} /\ cv[t] # NIL
        /\ UNCHANGED <<LL, cv, mu, raise>>
        /\ pc' = [pc EXCEPT ![t] = "relock"] \/ pc' = [pc EXCEPT ![t] = "park"]
    BY <1>6, NilAssumption DEF SignalledBranch, ParkBranch, AtLoopTop, At, frame, IInv, Inv, FrameOK
  <2> QED  BY <1>0, <2>1 DEF RankOK, RaiseOK
<1>7. CASE WakeNext(t)
  <2>1. /\ pc[t] = "wake" /\ cv[t] = NIL
        /\ UNCHANGED <<LL, cv, mu, raise>>
        /\ pc' = [pc EXCEPT ![t] = "run"] \/ pc' = [pc EXCEPT ![t] = "wake"]
    BY <1>7 DEF WakeNext, At, frame, IInv, Inv, FrameOK
  <2> QED  BY <1>0, <2>1 DEF RankOK, RaiseOK
<1> QED  BY <1>1, <1>2, <1>3, <1>4, <1>5, <1>6, <1>7 DEF Progress

LEMMA ClientRanks ==
  ASSUME IInv, NEW t \in Threads, ClientStep(t) \/ SpuriousWakeup(t)
  PROVE  RankOK' /\ RaiseOK'
<1>0. /\ pc \in [Threads -> {"run", "lockPark", "handoff", "wake",
                             "release", "check", "park", "relock"}]
      /\ mu \in [Threads -> Mutexes \cup {NIL}]
      /\ cv \in [Threads -> Conditions \cup {NIL}]
      /\ raise \in [Threads -> BOOLEAN]
      /\ LL \in [Threads -> SUBSET Mutexes]
      /\ RankOK /\ RaiseOK
  BY DEF IInv, Inv, TypeOK
<1>1. ASSUME NEW m \in Mutexes, Acquire(t, m)
      PROVE  RankOK' /\ RaiseOK'
  <2>1. pc[t] = "run" /\ cv[t] = NIL /\ \A n \in LL[t] : LockRank[n] < LockRank[m]
    BY <1>1 DEF Acquire, At, IInv, Inv, FrameOK
  <2>2. CASE TakeFree(t, m)
    BY <2>1, <2>2, ReturnRanks DEF TakeFree
  <2>3. CASE EnqueueAndPark(t, m)
    BY <1>0, <2>1, <2>3 DEF EnqueueAndPark, RankOK, RaiseOK
  <2> QED  BY <1>1, <2>2, <2>3 DEF Acquire, LockMutex
<1>2. ASSUME NEW m \in Mutexes, Release(t, m)
      PROVE  RankOK' /\ RaiseOK'
  <2>1. /\ pc[t] = "run" /\ cv[t] = NIL /\ UNCHANGED <<cv, raise>>
        /\ LL' = [LL EXCEPT ![t] = LL[t] \ {m}]
        /\ \A u \in Threads \ {t} : pc'[u] = pc[u] /\ mu'[u] = mu[u]
        /\ pc'[t] \in {"run", "handoff"}
    BY <1>0, <1>2 DEF Release, At, UnlockMutex, AfterRelease, IInv, Inv, FrameOK
  <2> QED  BY <1>0, <2>1 DEF RankOK, RaiseOK
<1>3. ASSUME NEW m \in Mutexes, NEW c \in Conditions, NEW al \in BOOLEAN, XWait(t, m, c, al)
      PROVE  RankOK' /\ RaiseOK'
  <2>1. /\ pc[t] = "run" /\ m \in LL[t] /\ UNCHANGED raise
        /\ \A n \in LL[t] : LockRank[n] <= LockRank[m]
        /\ LL' = [LL EXCEPT ![t] = LL[t] \ {m}]
        /\ pc' = [pc EXCEPT ![t] = "release"] /\ mu' = [mu EXCEPT ![t] = m]
        /\ cv' = [cv EXCEPT ![t] = c]
    BY <1>3 DEF XWait, At
  <2>2. ASSUME NEW n \in LL[t] \ {m}
        PROVE  LockRank[n] < LockRank[m]
    <3>1. n \in Mutexes /\ LockRank[n] \in Nat /\ LockRank[m] \in Nat /\ LockRank[n] # LockRank[m]
      BY <1>0, <2>1, RankAssumption DEF RankOK
    <3> QED  BY <2>1, <3>1
  <2> QED  BY <1>0, <2>1, <2>2 DEF RankOK, RaiseOK
<1>4. ASSUME NEW c \in Conditions, Signal(t, c) \/ Broadcast(t, c)
      PROVE  RankOK' /\ RaiseOK'
  <2>1. PICK woken, rest : Dequeue(t, c, woken, rest)
    BY <1>4 DEF Signal, Broadcast
  <2>2. /\ pc[t] = "run" /\ cv[t] = NIL /\ UNCHANGED <<LL, cv, mu, raise>>
        /\ pc' = [pc EXCEPT ![t] = "run"] \/ pc' = [pc EXCEPT ![t] = "wake"]
    BY <2>1 DEF Dequeue, At, frame, IInv, Inv, FrameOK
  <2> QED  BY <1>0, <2>2 DEF RankOK, RaiseOK
<1>5. ASSUME NEW u \in Threads, Alert(t, u) \/ TestAlert(t) \/ SpuriousWakeup(t)
      PROVE  RankOK' /\ RaiseOK'
  <2>1. UNCHANGED <<pc, LL, cv, mu, raise>>
    BY <1>5 DEF Alert, TestAlert, SpuriousWakeup, frame
  <2> QED  BY <1>0, <2>1 DEF RankOK, RaiseOK
<1> QED  BY <1>1, <1>2, <1>3, <1>4, <1>5 DEF ClientStep

LEMMA IInvariance == Spec => []IInv
<1>1. Init => RankOK /\ RaiseOK
  BY NilAssumption DEF Init, RankOK, RaiseOK
<1>2. Inv /\ Inv' /\ RankOK /\ RaiseOK /\ [Next]_vars => (RankOK /\ RaiseOK)'
  <2> SUFFICES ASSUME IInv, [Next]_vars PROVE RankOK' /\ RaiseOK'
    BY DEF IInv
  <2>1. CASE UNCHANGED vars
    BY <2>1 DEF vars, IInv, RankOK, RaiseOK
  <2> QED  BY <2>1, ProgressRanks, ClientRanks DEF Next
<1> QED  BY <1>1, <1>2, Invariance, PTL DEF Spec, IInv

(***************************************************************************)
(* The mapping.  Abstractly a thread holds the mutexes its client has      *)
(* locked and nothing else: a mutex that has been handed to a thread still *)
(* parked, or that XWait has yet to release, is free.                      *)
(***************************************************************************)
AbsWaiting == [c \in Conditions |-> ToSet(waiters[c])]
AbsAlerts == {t \in Threads : alerted[t]}

HoldersMap ==
  /\ AbsHolder \in [Mutexes -> Threads \cup {NIL}]
  /\ \A m \in Mutexes, t \in Threads : AbsHolder[m] = t <=> m \in LL[t]

LEMMA HoldersAreClients == IInv => HoldersMap
<1> SUFFICES ASSUME IInv PROVE HoldersMap
  OBVIOUS
<1>1. AbsHolder \in [Mutexes -> Threads \cup {NIL}]
  BY DEF AbsHolder, IInv, Inv, TypeOK
<1>2. ASSUME NEW m \in Mutexes, NEW t \in Threads, m \in LL[t]
      PROVE  AbsHolder[m] = t
  <2>1. holder[m] = t /\ t # NIL
    BY <1>2, NilAssumption DEF IInv, Inv, HolderOK, Owns
  <2>2. ASSUME mu[t] = m
        PROVE  pc[t] \notin {"lockPark", "release"}
    <3>1. LockRank[m] \in Nat
      BY RankAssumption
    <3>2. pc[t] # "lockPark"
      BY <1>2, <2>2, <3>1 DEF IInv, RankOK
    <3>3. pc[t] # "release"
      BY <1>2, <2>2, NilAssumption DEF IInv, Inv, FrameOK
    <3> QED  BY <3>2, <3>3
  <2> QED  BY <2>1, <2>2 DEF AbsHolder
<1>3. ASSUME NEW m \in Mutexes, NEW t \in Threads, AbsHolder[m] = t
      PROVE  m \in LL[t]
  <2>1. /\ holder[m] = t
        /\ ~(pc[t] \in {"lockPark", "release"} /\ mu[t] = m)
    BY <1>3, NilAssumption DEF AbsHolder
  <2> QED  BY <2>1 DEF IInv, Inv, HolderOK, Owns
<1> QED  BY <1>1, <1>2, <1>3 DEF HoldersMap

LEMMA HoldersAreClientsNext == IInv' => HoldersMap'
BY HoldersAreClients, PTL

(* Locking and unlocking m, seen through the mapping. *)
LEMMA HolderTaken ==
  ASSUME IInv, IInv', NEW t \in Threads, NEW m \in Mutexes,
         LL' = [LL EXCEPT ![t] = @ \cup {m}]
  PROVE  AbsHolder' = [AbsHolder EXCEPT ![m] = t]
<1>1. HoldersMap /\ HoldersMap' /\ LL \in [Threads -> SUBSET Mutexes] /\ NIL \notin Threads
  BY HoldersAreClients, HoldersAreClientsNext, NilAssumption DEF IInv, Inv, TypeOK
<1>2. ASSUME NEW n \in Mutexes
      PROVE  AbsHolder'[n] = IF n = m THEN t ELSE AbsHolder[n]
  <2>1. CASE n = m
    BY <1>1, <2>1 DEF HoldersMap
  <2>2. CASE n # m /\ AbsHolder[n] = NIL
    BY <1>1, <2>2 DEF HoldersMap
  <2>3. CASE n # m /\ AbsHolder[n] # NIL
    BY <1>1, <2>3 DEF HoldersMap
  <2> QED  BY <2>1, <2>2, <2>3
<1> QED  BY <1>1, <1>2 DEF HoldersMap

LEMMA HolderGivenUp ==
  ASSUME IInv, IInv', NEW t \in Threads, NEW m \in LL[t],
         LL' = [LL EXCEPT ![t] = @ \ {m}]
  PROVE  /\ m \in Mutexes /\ AbsHolder[m] = t
         /\ AbsHolder' = [AbsHolder EXCEPT ![m] = NIL]
<1>1. HoldersMap /\ HoldersMap' /\ LL \in [Threads -> SUBSET Mutexes] /\ NIL \notin Threads
  BY HoldersAreClients, HoldersAreClientsNext, NilAssumption DEF IInv, Inv, TypeOK
<1>2. m \in Mutexes /\ AbsHolder[m] = t
  BY <1>1 DEF HoldersMap
<1>3. ASSUME NEW n \in Mutexes
      PROVE  AbsHolder'[n] = IF n = m THEN NIL ELSE AbsHolder[n]
  <2>1. CASE n = m
    <3>1. \A u \in Threads : n \notin LL'[u]
      BY <1>1, <1>2, <2>1 DEF HoldersMap
    <3> QED  BY <1>1, <2>1, <3>1 DEF HoldersMap
  <2>2. CASE n # m /\ AbsHolder[n] = NIL
    BY <1>1, <2>2 DEF HoldersMap
  <2>3. CASE n # m /\ AbsHolder[n] # NIL
    BY <1>1, <2>3 DEF HoldersMap
  <2> QED  BY <2>1, <2>2, <2>3
<1> QED  BY <1>1, <1>2, <1>3 DEF HoldersMap

LEMMA HolderKept ==
  ASSUME IInv, IInv', UNCHANGED LL
  PROVE  AbsHolder' = AbsHolder
<1>1. HoldersMap /\ HoldersMap' /\ NIL \notin Threads
  BY HoldersAreClients, HoldersAreClientsNext, NilAssumption
<1>2. ASSUME NEW n \in Mutexes
      PROVE  AbsHolder'[n] = AbsHolder[n]
  BY <1>1 DEF HoldersMap
<1> QED  BY <1>1, <1>2 DEF HoldersMap

(* A mutex on the free path, or handed to t, is free abstractly. *)
LEMMA HolderFree ==
  ASSUME IInv, NEW t \in Threads, NEW m \in Mutexes,
         holder[m] = NIL \/ (holder[m] = t /\ pc[t] = "lockPark" /\ mu[t] = m)
  PROVE  AbsHolder[m] = NIL
BY DEF AbsHolder

(* Only what concerns conditions, alerts and XWait is visible. *)
LEMMA WaitingKept ==
  ASSUME \A c \in Conditions : ToSet(waiters'[c]) = ToSet(waiters[c])
  PROVE  AbsWaiting' = AbsWaiting
BY DEF AbsWaiting

LEMMA PhaseType ==
  /\ AbsPhase = [t \in Threads |-> AbsPhase[t]]
  /\ \A t \in Threads :
       AbsPhase[t] =
         IF cv[t] = NIL
         THEN [at |-> "run", m |-> NIL, c |-> NIL, alertable |-> FALSE]
         ELSE [at |-> IF pc[t] \in {"release", "handoff", "check", "park"} THEN "wait"
                      ELSE IF raise[t] THEN "raise" ELSE "resume",
               m |-> mu[t], c |-> cv[t], alertable |-> alertable[t]]
BY DEF AbsPhase

InXWait(t) == pc[t] \in {"release", "handoff", "check", "park"}

(* The frames of all threads but t stay as they are. *)
OthersKept(t) ==
  \A u \in Threads \ {t} :
    /\ pc'[u] = pc[u] /\ mu'[u] = mu[u] /\ cv'[u] = cv[u]
    /\ alertable'[u] = alertable[u] /\ raise'[u] = raise[u]

LEMMA PhaseKept ==
  ASSUME NEW t \in Threads, OthersKept(t),
         \/ cv[t] = NIL /\ cv'[t] = NIL
         \/ /\ cv'[t] = cv[t] /\ mu'[t] = mu[t] /\ alertable'[t] = alertable[t]
            /\ raise'[t] = raise[t] /\ (InXWait(t)' <=> InXWait(t))
  PROVE  AbsPhase' = AbsPhase
<1>1. ASSUME NEW u \in Threads
      PROVE  AbsPhase'[u] = AbsPhase[u]
  BY DEF AbsPhase, OthersKept, InXWait
<1> QED  BY <1>1 DEF AbsPhase

LEMMA PhaseMoved ==
  ASSUME NEW t \in Threads, OthersKept(t), NEW p, AbsPhase'[t] = p
  PROVE  AbsPhase' = [AbsPhase EXCEPT ![t] = p]
<1>1. ASSUME NEW u \in Threads
      PROVE  AbsPhase'[u] = IF u = t THEN p ELSE AbsPhase[u]
  BY DEF AbsPhase, OthersKept
<1> QED  BY <1>1 DEF AbsPhase

(* What a step of ThreadSync is to the interface. *)
AbsStep == [NoFault' => Abstract!SpecNext \/ RaisesSignalled]_(Abstract!specVars)

LEMMA Invisible ==
  ASSUME AbsHolder' = AbsHolder, AbsWaiting' = AbsWaiting,
         UNCHANGED alerted, AbsPhase' = AbsPhase
  PROVE  AbsStep
BY DEF AbsStep, AbsWaiting, Abstract!specVars

LEMMA AbsAcquires ==
  ASSUME IInv, IInv', NEW t \in Threads, NEW m \in Mutexes,
         cv[t] = NIL, AbsHolder[m] = NIL,
         LL' = [LL EXCEPT ![t] = @ \cup {m}], cv'[t] = NIL, OthersKept(t),
         UNCHANGED <<waiters, alerted>>
  PROVE  AbsStep
<1>1. AbsHolder' = [AbsHolder EXCEPT ![m] = t]
  BY HolderTaken
<1>2. AbsPhase' = AbsPhase
  BY PhaseKept
<1>3. AbsPhase[t].at = "run"
  BY DEF AbsPhase
<1>4. Abstract!Acquire(t, m)
  BY <1>1, <1>2, <1>3 DEF Abstract!Acquire
<1> QED  BY <1>4 DEF AbsStep, Abstract!SpecNext

LEMMA AbsResumes ==
  ASSUME IInv, IInv', NEW t \in Threads, cv[t] # NIL, mu[t] \in Mutexes,
         ~InXWait(t), AbsHolder[mu[t]] = NIL,
         LL' = [LL EXCEPT ![t] = @ \cup {mu[t]}], cv'[t] = NIL, OthersKept(t),
         UNCHANGED <<waiters, alerted>>
  PROVE  AbsStep
<1>1. AbsHolder' = [AbsHolder EXCEPT ![mu[t]] = t]
  BY HolderTaken
<1>2. AbsPhase' = [AbsPhase EXCEPT ![t] = Abstract!Running]
  <2>1. AbsPhase'[t] = Abstract!Running
    BY DEF AbsPhase, Abstract!Running
  <2> QED  BY <2>1, PhaseMoved
<1>3. AbsPhase[t].at \in {"resume", "raise"} /\ AbsPhase[t].m = mu[t]
  BY DEF AbsPhase, InXWait
<1>4. Abstract!Resume(t)
  BY <1>1, <1>2, <1>3 DEF Abstract!Resume
<1> QED  BY <1>4 DEF AbsStep, Abstract!SpecNext

LEMMA ReturnFrames ==
  ASSUME IInv, NEW t \in Threads, NEW m \in Mutexes, LockReturns(t, m)
  PROVE  LL' = [LL EXCEPT ![t] = @ \cup {m}] /\ cv'[t] = NIL /\ OthersKept(t)
<1>1. /\ pc \in [Threads -> {"run", "lockPark", "handoff", "wake",
                             "release", "check", "park", "relock"}]
      /\ mu \in [Threads -> Mutexes \cup {NIL}]
      /\ cv \in [Threads -> Conditions \cup {NIL}]
      /\ alertable \in [Threads -> BOOLEAN] /\ raise \in [Threads -> BOOLEAN]
  BY DEF IInv, Inv, TypeOK
<1>2. cv'[t] = NIL
  BY <1>1 DEF LockReturns
<1>3. OthersKept(t)
  BY <1>1 DEF LockReturns, OthersKept
<1> QED  BY <1>2, <1>3 DEF LockReturns

LEMMA EnqueueFrames ==
  ASSUME IInv, NEW t \in Threads, NEW m \in Mutexes, EnqueueAndPark(t, m)
  PROVE  /\ UNCHANGED <<LL, alerted, cv, alertable, raise>> /\ OthersKept(t)
         /\ pc'[t] = "lockPark" /\ mu'[t] = m
         /\ \A c \in Conditions : waiters'[c] = waiters[c]
<1>1. /\ pc \in [Threads -> {"run", "lockPark", "handoff", "wake",
                             "release", "check", "park", "relock"}]
      /\ mu \in [Threads -> Mutexes \cup {NIL}]
  BY DEF IInv, Inv, TypeOK
<1>2. UNCHANGED <<LL, alerted, cv, alertable, raise>>
  BY DEF EnqueueAndPark
<1>3. pc'[t] = "lockPark" /\ mu'[t] = m /\ OthersKept(t)
  BY <1>1 DEF EnqueueAndPark, OthersKept
<1>4. \A c \in Conditions : waiters'[c] = waiters[c]
  BY ListKinds DEF EnqueueAndPark, IInv, Inv, TypeOK
<1> QED  BY <1>2, <1>3, <1>4

(***************************************************************************)
(* One lemma per group of actions.                                         *)
(***************************************************************************)
LEMMA AcquireRefines ==
  ASSUME IInv, IInv', NEW t \in Threads, NEW m \in Mutexes, Acquire(t, m)
  PROVE  AbsStep
<1>1. pc[t] = "run" /\ cv[t] = NIL
  BY DEF Acquire, At, IInv, Inv, FrameOK
<1>2. CASE TakeFree(t, m)
  <2>1. /\ LL' = [LL EXCEPT ![t] = @ \cup {m}] /\ cv'[t] = NIL /\ OthersKept(t)
        /\ UNCHANGED <<waiters, alerted>>
    BY <1>1, <1>2, ReturnFrames DEF TakeFree, activation
  <2>2. AbsHolder[m] = NIL
    BY <1>2, HolderFree DEF TakeFree
  <2> QED  BY <1>1, <2>1, <2>2, AbsAcquires
<1>3. CASE EnqueueAndPark(t, m)
  <2>1. UNCHANGED <<LL, alerted>> /\ OthersKept(t) /\ cv'[t] = NIL
    BY <1>1, <1>3, EnqueueFrames
  <2>2. \A c \in Conditions : waiters'[c] = waiters[c]
    BY <1>3, EnqueueFrames
  <2>3. AbsHolder' = AbsHolder /\ AbsWaiting' = AbsWaiting /\ AbsPhase' = AbsPhase
    BY <1>1, <2>1, <2>2, HolderKept, WaitingKept, PhaseKept
  <2> QED  BY <2>1, <2>3, Invisible
<1> QED  BY <1>2, <1>3 DEF Acquire, LockMutex

LEMMA RelockRefines ==
  ASSUME IInv, IInv', NEW t \in Threads, Relock(t)
  PROVE  AbsStep
<1>1. pc[t] = "relock" /\ cv[t] # NIL /\ mu[t] \in Mutexes /\ ~InXWait(t)
  BY NilAssumption DEF Relock, At, IInv, Inv, FrameOK, InXWait
<1>2. CASE TakeFree(t, mu[t])
  <2>1. /\ LL' = [LL EXCEPT ![t] = @ \cup {mu[t]}] /\ cv'[t] = NIL /\ OthersKept(t)
        /\ UNCHANGED <<waiters, alerted>>
    BY <1>1, <1>2, ReturnFrames DEF TakeFree, activation
  <2>2. AbsHolder[mu[t]] = NIL
    BY <1>1, <1>2, HolderFree DEF TakeFree
  <2> QED  BY <1>1, <2>1, <2>2, AbsResumes
<1>3. CASE EnqueueAndPark(t, mu[t])
  <2>1. /\ UNCHANGED <<LL, alerted>> /\ OthersKept(t)
        /\ cv'[t] = cv[t] /\ mu'[t] = mu[t] /\ alertable'[t] = alertable[t]
        /\ raise'[t] = raise[t] /\ ~InXWait(t)'
    BY <1>1, <1>3, EnqueueFrames DEF InXWait
  <2>2. \A c \in Conditions : waiters'[c] = waiters[c]
    BY <1>1, <1>3, EnqueueFrames
  <2>3. AbsHolder' = AbsHolder /\ AbsWaiting' = AbsWaiting /\ AbsPhase' = AbsPhase
    BY <1>1, <2>1, <2>2, HolderKept, WaitingKept, PhaseKept
  <2> QED  BY <2>1, <2>3, Invisible
<1> QED  BY <1>2, <1>3 DEF Relock, LockMutex

(* The hand-off becomes visible when the new holder wakes up. *)
LEMMA WakeInLockRefines ==
  ASSUME IInv, IInv', NEW t \in Threads, WakeInLock(t)
  PROVE  AbsStep
<1>1. /\ pc[t] = "lockPark" /\ mu[t] \in Mutexes /\ ~InXWait(t)
      /\ UNCHANGED <<waiters, alerted>>
  BY DEF WakeInLock, At, IInv, Inv, FrameOK, InXWait
<1>2. CASE waitingOn[t] = NIL
  <2>1. /\ LL' = [LL EXCEPT ![t] = @ \cup {mu[t]}] /\ cv'[t] = NIL /\ OthersKept(t)
    BY <1>1, <1>2, ReturnFrames DEF WakeInLock
  <2>2. t \notin ToSet(waiters[mu[t]])
    BY <1>1, <1>2, ListKinds DEF IInv, Inv, QueuesOK
  <2>3. AbsHolder[mu[t]] = NIL
    BY <1>1, <2>2, HolderFree DEF IInv, Inv, HolderOK, Owns
  <2> QED  BY <1>1, <2>1, <2>3, AbsAcquires, AbsResumes
<1>3. CASE waitingOn[t] # NIL
  <2>1. UNCHANGED <<pc, frame, LL>>
    BY <1>3 DEF WakeInLock
  <2>2. OthersKept(t) /\ (InXWait(t)' <=> InXWait(t))
    BY <2>1 DEF OthersKept, InXWait, frame
  <2>3. AbsHolder' = AbsHolder /\ AbsWaiting' = AbsWaiting /\ AbsPhase' = AbsPhase
    BY <1>1, <2>1, <2>2, HolderKept, WaitingKept, PhaseKept DEF frame
  <2> QED  BY <1>1, <2>3, Invisible
<1> QED  BY <1>2, <1>3

(* UnlockMutex, with what it does to the frame of its caller. *)
LEMMA UnlockFrames ==
  ASSUME IInv, NEW t \in Threads, NEW m \in Mutexes, UnlockMutex(t, m)
  PROVE  /\ UNCHANGED <<alerted, cv, alertable, raise>> /\ OthersKept(t)
         /\ pc'[t] \in {AfterRelease(t), "handoff"}
         /\ mu[t] = m => mu'[t] = m
         /\ \A c \in Conditions : waiters'[c] = waiters[c]
<1>1. /\ pc \in [Threads -> {"run", "lockPark", "handoff", "wake",
                             "release", "check", "park", "relock"}]
      /\ mu \in [Threads -> Mutexes \cup {NIL}]
  BY DEF IInv, Inv, TypeOK
<1>2. UNCHANGED <<alerted, cv, alertable, raise>>
  BY DEF UnlockMutex, activation
<1>3. OthersKept(t) /\ pc'[t] \in {AfterRelease(t), "handoff"} /\ (mu[t] = m => mu'[t] = m)
  BY <1>1, <1>2 DEF UnlockMutex, OthersKept
<1>4. \A c \in Conditions : waiters'[c] = waiters[c]
  BY ListKinds DEF UnlockMutex, IInv, Inv, TypeOK
<1> QED  BY <1>2, <1>3, <1>4

LEMMA ReleaseRefines ==
  ASSUME IInv, IInv', NEW t \in Threads, NEW m \in Mutexes, Release(t, m)
  PROVE  AbsStep
<1>1. /\ pc[t] = "run" /\ cv[t] = NIL /\ cv'[t] = NIL /\ m \in LL[t]
      /\ LL' = [LL EXCEPT ![t] = @ \ {m}]
      /\ UNCHANGED alerted /\ OthersKept(t)
      /\ \A c \in Conditions : waiters'[c] = waiters[c]
  BY UnlockFrames DEF Release, At, IInv, Inv, FrameOK
<1>2. AbsHolder[m] = t /\ AbsHolder' = [AbsHolder EXCEPT ![m] = NIL]
  BY <1>1, HolderGivenUp
<1>3. AbsPhase' = AbsPhase /\ AbsWaiting' = AbsWaiting /\ AbsPhase[t].at = "run"
  BY <1>1, PhaseKept, WaitingKept DEF AbsPhase
<1>4. Abstract!Release(t, m)
  BY <1>1, <1>2, <1>3 DEF Abstract!Release, AbsWaiting
<1> QED  BY <1>4 DEF AbsStep, Abstract!SpecNext

LEMMA XWaitReleaseRefines ==
  ASSUME IInv, IInv', NEW t \in Threads, XWaitRelease(t)
  PROVE  AbsStep
<1>1. pc[t] = "release" /\ cv[t] # NIL /\ mu[t] \in Mutexes /\ InXWait(t)
  BY NilAssumption DEF XWaitRelease, At, IInv, Inv, FrameOK, InXWait
<1>2. /\ UNCHANGED <<LL, alerted, cv, alertable, raise>> /\ OthersKept(t)
      /\ mu'[t] = mu[t] /\ InXWait(t)'
      /\ \A c \in Conditions : waiters'[c] = waiters[c]
  BY <1>1, UnlockFrames DEF XWaitRelease, AfterRelease, InXWait
<1>3. AbsHolder' = AbsHolder /\ AbsWaiting' = AbsWaiting /\ AbsPhase' = AbsPhase
  BY <1>1, <1>2, HolderKept, WaitingKept, PhaseKept
<1> QED  BY <1>2, <1>3, Invisible

LEMMA HandoffRefines ==
  ASSUME IInv, IInv', NEW t \in Threads, Handoff(t)
  PROVE  AbsStep
<1>1. /\ pc \in [Threads -> {"run", "lockPark", "handoff", "wake",
                             "release", "check", "park", "relock"}]
      /\ mu \in [Threads -> Mutexes \cup {NIL}]
  BY DEF IInv, Inv, TypeOK
<1>2. /\ pc[t] = "handoff"
      /\ UNCHANGED <<LL, alerted, waiters, cv, alertable, raise>> /\ OthersKept(t)
      /\ cv[t] # NIL => mu'[t] = mu[t] /\ InXWait(t)' /\ InXWait(t)
  BY <1>1 DEF Handoff, At, AfterRelease, OthersKept, InXWait
<1>3. AbsHolder' = AbsHolder /\ AbsWaiting' = AbsWaiting /\ AbsPhase' = AbsPhase
  BY <1>2, HolderKept, WaitingKept, PhaseKept
<1> QED  BY <1>2, <1>3, Invisible

(* The mutex is free abstractly from the moment the thread is enqueued. *)
LEMMA XWaitRefines ==
  ASSUME IInv, IInv', NEW t \in Threads, NEW m \in Mutexes, NEW c \in Conditions,
         NEW al \in BOOLEAN, XWait(t, m, c, al)
  PROVE  AbsStep
<1>1. /\ pc \in [Threads -> {"run", "lockPark", "handoff", "wake",
                             "release", "check", "park", "relock"}]
      /\ mu \in [Threads -> Mutexes \cup {NIL}]
      /\ cv \in [Threads -> Conditions \cup {NIL}]
      /\ alertable \in [Threads -> BOOLEAN] /\ raise \in [Threads -> BOOLEAN]
      /\ waiters \in [Lists -> Seq(Threads)]
  BY DEF IInv, Inv, TypeOK
<1>2. /\ pc[t] = "run" /\ cv[t] = NIL /\ m \in LL[t]
      /\ LL' = [LL EXCEPT ![t] = @ \ {m}] /\ UNCHANGED alerted
      /\ waiters' = [waiters EXCEPT ![c] = Append(@, t)]
      /\ pc'[t] = "release" /\ mu'[t] = m /\ cv'[t] = c /\ alertable'[t] = al
  BY <1>1 DEF XWait, At, IInv, Inv, FrameOK
<1>3. OthersKept(t)
  BY <1>1 DEF XWait, OthersKept
<1>4. AbsHolder[m] = t /\ AbsHolder' = [AbsHolder EXCEPT ![m] = NIL]
  BY <1>2, HolderGivenUp
<1>5. AbsPhase[t].at = "run"
  BY <1>2 DEF AbsPhase
<1>6. AbsPhase' = [AbsPhase EXCEPT ![t] = [at |-> "wait", m |-> m, c |-> c, alertable |-> al]]
  <2>1. AbsPhase'[t] = [at |-> "wait", m |-> m, c |-> c, alertable |-> al]
    BY <1>2, ListKinds DEF AbsPhase
  <2> QED  BY <1>3, <2>1, PhaseMoved
<1>7. AbsWaiting' = [AbsWaiting EXCEPT ![c] = @ \cup {t}]
  <2>1. ToSet(waiters'[c]) = ToSet(waiters[c]) \cup {t}
    BY <1>1, <1>2, ListKinds, AppendList
  <2>2. \A d \in Conditions \ {c} : waiters'[d] = waiters[d]
    BY <1>1, <1>2, ListKinds
  <2> QED  BY <2>1, <2>2 DEF AbsWaiting
<1>8. Abstract!Enqueue(t, m, c, al)
  BY <1>2, <1>4, <1>5, <1>6, <1>7 DEF Abstract!Enqueue, AbsWaiting
<1> QED  BY <1>8 DEF AbsStep, Abstract!SpecNext

(* Taking a thread off its list takes off nobody else. *)
LEMMA WithoutSet ==
  ASSUME NEW S, NEW s \in Seq(S), IsInjective(s), NEW t \in ToSet(s)
  PROVE  ToSet(Without(s, t)) = ToSet(s) \ {t}
<1>1. CASE Len(s) = 1
  <2>1. s[1] = t /\ ToSet(s) = {t}
    BY <1>1 DEF ToSet
  <2> QED  BY <1>1, <2>1, EmptyList DEF Without
<1>2. CASE Len(s) # 1
  <2> DEFINE i == CHOOSE j \in DOMAIN s : s[j] = t
             r == Without(s, t)
  <2>1. i \in 1 .. Len(s) /\ s[i] = t /\ Len(s) \in Nat /\ DOMAIN s = 1 .. Len(s)
    BY DEF ToSet
  <2>2. r = RemoveAt(s, i)
    BY <1>2 DEF Without
  <2> HIDE DEF i, r
  <2>3. /\ DOMAIN r = 1 .. Len(s) - 1
        /\ \A j \in 1 .. Len(s) - 1 : r[j] = IF j < i THEN s[j] ELSE s[j + 1]
    BY <2>1, <2>2, RemoveAtList
  <2>4. ASSUME NEW x \in ToSet(s) \ {t}
        PROVE  x \in ToSet(r)
    <3>1. PICK k \in 1 .. Len(s) : s[k] = x
      BY <2>1 DEF ToSet
    <3>2. CASE k < i
      BY <2>1, <2>3, <3>1, <3>2 DEF ToSet
    <3>3. CASE k > i
      <4>1. k - 1 \in 1 .. Len(s) - 1 /\ r[k - 1] = x
        BY <2>1, <2>3, <3>1, <3>3
      <4> QED  BY <2>3, <4>1 DEF ToSet
    <3> QED  BY <2>1, <3>1, <3>2, <3>3
  <2>5. t \notin ToSet(r) /\ ToSet(r) \subseteq ToSet(s)
    BY WithoutList DEF r
  <2> QED  BY <2>4, <2>5 DEF r
<1> QED  BY <1>1, <1>2

(* An alerted waiter leaves its condition and consumes the alert, unless   *)
(* its search fails; one that has left it before, dequeued by Signal, is   *)
(* the step that ThreadSpec does not have.                                 *)
LEMMA AlertRefines ==
  ASSUME IInv, IInv', NEW t \in Threads, AlertBranch(t)
  PROVE  AbsStep
<1> SUFFICES ASSUME NoFault' PROVE AbsStep
  BY DEF AbsStep
<1>1. /\ pc \in [Threads -> {"run", "lockPark", "handoff", "wake",
                             "release", "check", "park", "relock"}]
      /\ raise \in [Threads -> BOOLEAN]
      /\ alerted \in [Threads -> BOOLEAN]
      /\ waiters \in [Lists -> Seq(Threads)]
  BY DEF IInv, Inv, TypeOK
<1>2. /\ pc[t] \in {"check", "park"} /\ cv[t] \in Conditions /\ cv[t] # NIL
      /\ alertable[t] /\ alerted[t] /\ Unlink(t, cv[t]) /\ NoFault
      /\ alerted' = [alerted EXCEPT ![t] = FALSE]
      /\ UNCHANGED <<mu, cv, alertable, LL>>
      /\ pc'[t] = "relock" /\ raise'[t] = TRUE
  BY <1>1, ListKinds DEF AlertBranch, AtLoopTop, At, IInv, Inv, FrameOK, NoFault
<1>3. OthersKept(t)
  BY <1>1, <1>2 DEF AlertBranch, OthersKept
<1>4. AbsHolder' = AbsHolder
  BY <1>2, HolderKept
<1>5. AbsPhase[t].at = "wait" /\ AbsPhase[t].alertable /\ AbsPhase[t].c = cv[t]
  BY <1>2 DEF AbsPhase
<1>6. AbsPhase' = [AbsPhase EXCEPT ![t].at = "raise"]
  <2>1. AbsPhase'[t] = [AbsPhase[t] EXCEPT !.at = "raise"]
    BY <1>2 DEF AbsPhase
  <2>2. AbsPhase' = [AbsPhase EXCEPT ![t] = [AbsPhase[t] EXCEPT !.at = "raise"]]
    BY <1>3, <2>1, PhaseMoved
  <2> QED  BY <2>2
<1>7. ToSet(waiters'[cv[t]]) = ToSet(waiters[cv[t]]) \ {t}
  <2>0. waiters[cv[t]] \in Seq(Threads) /\ IsInjective(waiters[cv[t]]) /\ cv[t] \in Lists
    BY <1>1, <1>2, ListKinds DEF IInv, Inv, QueuesOK
  <2>1. CASE waitingOn[t] = NIL
    <3>1. t \notin ToSet(waiters[cv[t]]) /\ waiters' = waiters
      BY <1>2, <2>0, <2>1, ListKinds DEF Unlink, IInv, Inv, QueuesOK
    <3> QED  BY <3>1
  <2>2. CASE waitingOn[t] # NIL
    <3>1. waiters' = [waiters EXCEPT ![cv[t]] = Without(waiters[cv[t]], t)]
      BY <1>2, <2>2 DEF Unlink
    <3>2. t \in ToSet(waiters[cv[t]])
      BY <1>2, <2>2 DEF Unlink, Ensure, NoFault
    <3> QED  BY <1>1, <2>0, <3>1, <3>2, WithoutSet
  <2> QED  BY <2>1, <2>2
<1>8. \A d \in Conditions \ {cv[t]} : waiters'[d] = waiters[d]
  BY <1>1, <1>2, ListKinds DEF Unlink
<1>9. AbsWaiting' = [AbsWaiting EXCEPT ![cv[t]] = @ \ {t}]
  BY <1>2, <1>7, <1>8 DEF AbsWaiting
<1>10. AbsAlerts' = AbsAlerts \ {t} /\ t \in AbsAlerts
  BY <1>1, <1>2 DEF AbsAlerts
<1>11. CASE t \in ToSet(waiters[cv[t]])
  <2>1. Abstract!ChooseAlerted(t)
    BY <1>2, <1>4, <1>5, <1>6, <1>9, <1>10, <1>11
       DEF Abstract!ChooseAlerted, AbsWaiting, AbsAlerts
  <2> QED  BY <2>1 DEF AbsStep, Abstract!SpecNext
<1>12. CASE t \notin ToSet(waiters[cv[t]])
  <2>1. AbsWaiting' = AbsWaiting
    BY <1>7, <1>8, <1>12 DEF AbsWaiting
  <2>2. Abstract!RaiseSignalled(t)
    BY <1>2, <1>4, <1>5, <1>6, <1>10, <1>12, <2>1
       DEF Abstract!RaiseSignalled, AbsWaiting, AbsAlerts
  <2> QED  BY <2>2 DEF AbsStep, RaisesSignalled
<1> QED  BY <1>11, <1>12

LEMMA SignalledRefines ==
  ASSUME IInv, IInv', NEW t \in Threads, SignalledBranch(t)
  PROVE  AbsStep
<1>1. /\ pc \in [Threads -> {"run", "lockPark", "handoff", "wake",
                             "release", "check", "park", "relock"}]
  BY DEF IInv, Inv, TypeOK
<1>2. /\ pc[t] \in {"check", "park"} /\ cv[t] \in Conditions /\ cv[t] # NIL
      /\ waitingOn[t] = NIL /\ pc'[t] = "relock"
      /\ UNCHANGED <<waiters, alerted, mu, cv, alertable, raise, LL>>
  BY <1>1, ListKinds DEF SignalledBranch, AtLoopTop, At, frame, IInv, Inv, FrameOK
<1>3. OthersKept(t) /\ ~raise[t]
  BY <1>1, <1>2 DEF SignalledBranch, OthersKept, IInv, RaiseOK
<1>4. AbsHolder' = AbsHolder /\ AbsWaiting' = AbsWaiting
  BY <1>2, HolderKept, WaitingKept
<1>5. AbsPhase[t].at = "wait" /\ AbsPhase[t].c = cv[t]
  BY <1>2 DEF AbsPhase
<1>6. AbsPhase' = [AbsPhase EXCEPT ![t].at = "resume"]
  <2>1. AbsPhase'[t] = [AbsPhase[t] EXCEPT !.at = "resume"]
    BY <1>2, <1>3 DEF AbsPhase
  <2>2. AbsPhase' = [AbsPhase EXCEPT ![t] = [AbsPhase[t] EXCEPT !.at = "resume"]]
    BY <1>3, <2>1, PhaseMoved
  <2> QED  BY <2>2
<1>7. t \notin AbsWaiting[cv[t]]
  BY <1>2, ListKinds DEF AbsWaiting, IInv, Inv, QueuesOK
<1>8. Abstract!ChooseReturn(t)
  BY <1>2, <1>4, <1>5, <1>6, <1>7 DEF Abstract!ChooseReturn, AbsWaiting
<1> QED  BY <1>8 DEF AbsStep, Abstract!SpecNext

LEMMA ParkRefines ==
  ASSUME IInv, IInv', NEW t \in Threads, ParkBranch(t)
  PROVE  AbsStep
<1>1. /\ pc \in [Threads -> {"run", "lockPark", "handoff", "wake",
                             "release", "check", "park", "relock"}]
  BY DEF IInv, Inv, TypeOK
<1>2. /\ UNCHANGED <<waiters, alerted, mu, cv, alertable, raise, LL>>
      /\ InXWait(t) /\ InXWait(t)' /\ OthersKept(t)
  BY <1>1 DEF ParkBranch, AtLoopTop, At, frame, InXWait, OthersKept
<1>3. AbsHolder' = AbsHolder /\ AbsWaiting' = AbsWaiting /\ AbsPhase' = AbsPhase
  BY <1>2, HolderKept, WaitingKept, PhaseKept
<1> QED  BY <1>2, <1>3, Invisible

LEMMA WakeNextRefines ==
  ASSUME IInv, IInv', NEW t \in Threads, WakeNext(t)
  PROVE  AbsStep
<1>1. /\ pc \in [Threads -> {"run", "lockPark", "handoff", "wake",
                             "release", "check", "park", "relock"}]
  BY DEF IInv, Inv, TypeOK
<1>2. /\ UNCHANGED <<waiters, alerted, mu, cv, alertable, raise, LL>>
      /\ cv[t] = NIL /\ OthersKept(t)
  BY <1>1 DEF WakeNext, At, frame, OthersKept, IInv, Inv, FrameOK
<1>3. AbsHolder' = AbsHolder /\ AbsWaiting' = AbsWaiting /\ AbsPhase' = AbsPhase
  BY <1>2, HolderKept, WaitingKept, PhaseKept
<1> QED  BY <1>2, <1>3, Invisible

LEMMA DequeueFrames ==
  ASSUME IInv, IInv', NEW t \in Threads, NEW c \in Conditions,
         NEW woken, NEW rest, Dequeue(t, c, woken, rest)
  PROVE  /\ AbsHolder' = AbsHolder /\ AbsPhase' = AbsPhase /\ UNCHANGED alerted
         /\ AbsWaiting' = [AbsWaiting EXCEPT ![c] = ToSet(rest)]
         /\ AbsPhase[t].at = "run"
<1>1. /\ pc \in [Threads -> {"run", "lockPark", "handoff", "wake",
                             "release", "check", "park", "relock"}]
      /\ waiters \in [Lists -> Seq(Threads)]
  BY DEF IInv, Inv, TypeOK
<1>2. /\ UNCHANGED <<alerted, mu, cv, alertable, raise, LL>>
      /\ waiters' = [waiters EXCEPT ![c] = rest]
      /\ cv[t] = NIL /\ OthersKept(t)
  BY <1>1 DEF Dequeue, At, frame, activation, OthersKept, IInv, Inv, FrameOK
<1>3. AbsHolder' = AbsHolder /\ AbsPhase' = AbsPhase /\ AbsPhase[t].at = "run"
  BY <1>2, HolderKept, PhaseKept DEF AbsPhase
<1>4. AbsWaiting' = [AbsWaiting EXCEPT ![c] = ToSet(rest)]
  BY <1>1, <1>2, ListKinds DEF AbsWaiting
<1> QED  BY <1>2, <1>3, <1>4

LEMMA SignalRefines ==
  ASSUME IInv, IInv', NEW t \in Threads, NEW c \in Conditions, Signal(t, c)
  PROVE  AbsStep
<1>1. waiters[c] \in Seq(Threads) /\ IsInjective(waiters[c]) /\ AbsWaiting[c] = ToSet(waiters[c])
  BY ListKinds DEF IInv, Inv, TypeOK, QueuesOK, AbsWaiting
<1>2. PICK woken, rest :
        /\ Dequeue(t, c, woken, rest)
        /\ ToSet(rest) \subseteq ToSet(waiters[c])
        /\ ToSet(waiters[c]) # {} => ToSet(rest) # ToSet(waiters[c])
  <2>1. CASE waiters[c] = <<>>
    BY <2>1, EmptyList DEF Signal
  <2>2. CASE waiters[c] # <<>>
    BY <1>1, <2>2, HeadTailList DEF Signal
  <2> QED  BY <2>1, <2>2
<1>3. /\ AbsHolder' = AbsHolder /\ AbsPhase' = AbsPhase /\ UNCHANGED alerted
      /\ AbsWaiting' = [AbsWaiting EXCEPT ![c] = ToSet(rest)]
      /\ AbsPhase[t].at = "run"
  BY <1>2, DequeueFrames
<1>4. Abstract!Signal(t, c)
  BY <1>1, <1>2, <1>3 DEF Abstract!Signal, AbsWaiting
<1> QED  BY <1>4 DEF AbsStep, Abstract!SpecNext

LEMMA BroadcastRefines ==
  ASSUME IInv, IInv', NEW t \in Threads, NEW c \in Conditions, Broadcast(t, c)
  PROVE  AbsStep
<1>1. /\ AbsHolder' = AbsHolder /\ AbsPhase' = AbsPhase /\ UNCHANGED alerted
      /\ AbsWaiting' = [AbsWaiting EXCEPT ![c] = {}]
      /\ AbsPhase[t].at = "run"
  BY DequeueFrames, EmptyList DEF Broadcast
<1>2. Abstract!Broadcast(t, c)
  BY <1>1 DEF Abstract!Broadcast, AbsWaiting
<1> QED  BY <1>2 DEF AbsStep, Abstract!SpecNext

LEMMA FlagsRefine ==
  ASSUME IInv, IInv', NEW t \in Threads, NEW u \in Threads,
         Alert(t, u) \/ TestAlert(t) \/ SpuriousWakeup(t)
  PROVE  AbsStep
<1>1. /\ alerted \in [Threads -> BOOLEAN]
      /\ UNCHANGED <<waiters, pc, mu, cv, alertable, raise, LL>>
  BY DEF Alert, TestAlert, SpuriousWakeup, frame, IInv, Inv, TypeOK
<1>2. AbsHolder' = AbsHolder /\ AbsWaiting' = AbsWaiting /\ AbsPhase' = AbsPhase
  BY <1>1, HolderKept, WaitingKept DEF AbsPhase
<1>3. CASE Alert(t, u)
  <2>1. AbsPhase[t].at = "run" /\ AbsAlerts' = AbsAlerts \cup {u}
    BY <1>1, <1>3 DEF Alert, At, AbsPhase, AbsAlerts, IInv, Inv, FrameOK
  <2>2. Abstract!Alert(t, u)
    BY <1>2, <2>1 DEF Abstract!Alert, AbsWaiting, AbsAlerts
  <2> QED  BY <2>2 DEF AbsStep, Abstract!SpecNext
<1>4. CASE TestAlert(t)
  <2>1. AbsPhase[t].at = "run" /\ AbsAlerts' = AbsAlerts \ {t}
    BY <1>1, <1>4 DEF TestAlert, At, AbsPhase, AbsAlerts, IInv, Inv, FrameOK
  <2>2. Abstract!TestAlert(t)
    BY <1>2, <2>1 DEF Abstract!TestAlert, AbsWaiting, AbsAlerts
  <2> QED  BY <2>2 DEF AbsStep, Abstract!SpecNext
<1>5. CASE SpuriousWakeup(t)
  BY <1>2, <1>5, Invisible DEF SpuriousWakeup
<1> QED  BY <1>3, <1>4, <1>5

(***************************************************************************)
(* The pthread implementation of mutexes, conditions and alerts starts     *)
(* where the monitors of Thread.lm3 start, and each of its steps is one of *)
(* theirs or changes nothing a client can see, except that a thread both   *)
(* signalled and alerted raises Alerted, and up to a failed search of the  *)
(* alert branch.                                                           *)
(***************************************************************************)
THEOREM ImplementsThreadSpecHolds == Spec => ImplementsThreadSpec
<1>1. Init => Abstract!Init
  <2> SUFFICES ASSUME Init PROVE Abstract!Init
    OBVIOUS
  <2>1. \A c \in Conditions : ToSet(waiters[c]) = {}
    BY EmptyList, ListKinds DEF Init
  <2> QED  BY <2>1 DEF Init, Abstract!Init, Abstract!Running, AbsHolder, AbsPhase
<1>2. IInv /\ IInv' /\ [Next]_vars => AbsStep
  <2> SUFFICES ASSUME IInv, IInv', [Next]_vars PROVE AbsStep
    OBVIOUS
  <2>1. CASE UNCHANGED vars
    <3>1. /\ AbsHolder' = AbsHolder /\ AbsWaiting' = AbsWaiting /\ AbsPhase' = AbsPhase
          /\ UNCHANGED alerted
      BY <2>1 DEF vars, AbsHolder, AbsWaiting, AbsPhase
    <3> QED  BY <3>1, Invisible
  <2>2. ASSUME NEW t \in Threads, Progress(t)
        PROVE  AbsStep
    BY <2>2, RelockRefines, WakeInLockRefines, XWaitReleaseRefines, HandoffRefines,
       AlertRefines, SignalledRefines, ParkRefines, WakeNextRefines DEF Progress
  <2>3. ASSUME NEW t \in Threads, ClientStep(t) \/ SpuriousWakeup(t)
        PROVE  AbsStep
    BY <2>3, AcquireRefines, ReleaseRefines, XWaitRefines, SignalRefines,
       BroadcastRefines, FlagsRefine DEF ClientStep
  <2> QED  BY <2>1, <2>2, <2>3 DEF Next
<1>3. AbsStep => [NoFault' => Abstract!SpecNext \/ RaisesSignalled]_(Abstract!specVars)
  BY DEF AbsStep
<1> QED  BY <1>1, <1>2, <1>3, IInvariance, PTL DEF Spec, ImplementsThreadSpec

(***************************************************************************)
(* Stalls.  A thread in LockMutex that has not been handed its mutex is on *)
(* the list or in the hands of the releaser.                               *)
(***************************************************************************)
Listed(t) ==
  \/ t \in ToSet(waiters[mu[t]])
  \/ \E u \in Threads : pc[u] = "handoff" /\ t \in ToSet(chain[u])

ListedOK ==
  \A t \in Threads : pc[t] = "lockPark" /\ waitingOn[t] # NIL => Listed(t)

(* Nothing happens to the lists of mutexes, to threads parked for them or  *)
(* to the chains of releasers.                                             *)
LEMMA ListedKept ==
  ASSUME IInv, ListedOK,
         \A m \in Mutexes : waiters'[m] = waiters[m],
         \A u \in Threads : pc'[u] = "lockPark" /\ waitingOn'[u] # NIL =>
           pc[u] = "lockPark" /\ waitingOn[u] # NIL /\ mu'[u] = mu[u],
         \A u \in Threads : pc[u] = "handoff" => pc'[u] = "handoff" /\ chain'[u] = chain[u]
  PROVE  ListedOK'
<1> SUFFICES ASSUME NEW u \in Threads, pc'[u] = "lockPark", waitingOn'[u] # NIL
             PROVE  Listed(u)'
  BY DEF ListedOK
<1>1. Listed(u) /\ mu'[u] = mu[u] /\ mu[u] \in Mutexes
  BY DEF ListedOK, Listed, IInv, Inv, FrameOK
<1> QED  BY <1>1 DEF Listed

LEMMA EnqueueListed ==
  ASSUME IInv, ListedOK, NEW t \in Threads, NEW m \in Mutexes,
         pc[t] \in {"run", "relock"}, EnqueueAndPark(t, m)
  PROVE  ListedOK'
<1>1. /\ pc \in [Threads -> {"run", "lockPark", "handoff", "wake",
                             "release", "check", "park", "relock"}]
      /\ mu \in [Threads -> Mutexes \cup {NIL}]
      /\ waiters \in [Lists -> Seq(Threads)]
      /\ waitingOn \in [Threads -> Lists \cup {NIL}]
  BY DEF IInv, Inv, TypeOK
<1>2. /\ waiters'[m] = Append(waiters[m], t)
      /\ \A n \in Mutexes \ {m} : waiters'[n] = waiters[n]
      /\ pc'[t] = "lockPark" /\ mu'[t] = m /\ chain' = chain
      /\ \A u \in Threads \ {t} :
           pc'[u] = pc[u] /\ mu'[u] = mu[u] /\ waitingOn'[u] = waitingOn[u]
  BY <1>1, ListKinds DEF EnqueueAndPark
<1>3. ToSet(waiters'[m]) = ToSet(waiters[m]) \cup {t}
  BY <1>1, <1>2, ListKinds, AppendList
<1> SUFFICES ASSUME NEW u \in Threads, pc'[u] = "lockPark", waitingOn'[u] # NIL
             PROVE  Listed(u)'
  BY DEF ListedOK, Listed
<1>4. CASE u = t
  BY <1>2, <1>3, <1>4 DEF Listed
<1>5. CASE u # t
  <2>1. Listed(u) /\ mu[u] \in Mutexes
    BY <1>2, <1>5 DEF ListedOK, Listed, IInv, Inv, FrameOK
  <2>2. CASE u \in ToSet(waiters[mu[u]])
    BY <1>2, <1>3, <1>5, <2>1, <2>2 DEF Listed
  <2>3. CASE \E v \in Threads : pc[v] = "handoff" /\ u \in ToSet(chain[v])
    BY <1>2, <2>3 DEF Listed
  <2> QED  BY <2>1, <2>2, <2>3 DEF Listed
<1> QED  BY <1>4, <1>5

LEMMA UnlockListed ==
  ASSUME IInv, ListedOK, NEW t \in Threads, NEW m \in Mutexes,
         pc[t] \in {"run", "release"}, UnlockMutex(t, m)
  PROVE  ListedOK'
<1>1. /\ pc \in [Threads -> {"run", "lockPark", "handoff", "wake",
                             "release", "check", "park", "relock"}]
      /\ mu \in [Threads -> Mutexes \cup {NIL}]
      /\ waiters \in [Lists -> Seq(Threads)]
      /\ chain \in [Threads -> Seq(Threads)]
  BY DEF IInv, Inv, TypeOK
<1>2. /\ UNCHANGED waitingOn /\ pc'[t] # "lockPark"
      /\ \A u \in Threads \ {t} :
           pc'[u] = pc[u] /\ mu'[u] = mu[u] /\ chain'[u] = chain[u]
  BY <1>1 DEF UnlockMutex, AfterRelease, activation
<1>3. CASE waiters[m] = <<>>
  <2>1. UNCHANGED waiters
    BY <1>3 DEF UnlockMutex
  <2> QED  BY <1>2, <2>1, ListedKept
<1>4. CASE waiters[m] # <<>>
  <2>1. /\ waiters' = [waiters EXCEPT ![m] = Tail(waiters[m])]
        /\ chain' = [chain EXCEPT ![t] = <<Head(waiters[m])>>]
        /\ pc' = [pc EXCEPT ![t] = "handoff"]
    BY <1>4 DEF UnlockMutex
  <2>2. /\ waiters'[m] = Tail(waiters[m])
        /\ \A n \in Mutexes \ {m} : waiters'[n] = waiters[n]
        /\ chain'[t] = <<Head(waiters[m])>> /\ pc'[t] = "handoff"
    BY <1>1, <2>1, ListKinds
  <2>3. /\ ToSet(waiters[m]) = {Head(waiters[m])} \cup ToSet(waiters'[m])
        /\ Head(waiters[m]) \in ToSet(chain'[t])
    <3>1. waiters[m] \in Seq(Threads)
      BY <1>1, ListKinds
    <3> QED  BY <1>4, <2>2, <3>1, HeadTailList, SingletonList
  <2> SUFFICES ASSUME NEW u \in Threads, pc'[u] = "lockPark", waitingOn'[u] # NIL
               PROVE  Listed(u)'
    BY DEF ListedOK, Listed
  <2>4. Listed(u) /\ mu[u] \in Mutexes /\ u # t
    BY <1>2 DEF ListedOK, Listed, IInv, Inv, FrameOK
  <2>5. CASE u \in ToSet(waiters[mu[u]])
    BY <1>2, <2>2, <2>3, <2>4, <2>5 DEF Listed
  <2>6. CASE \E v \in Threads : pc[v] = "handoff" /\ u \in ToSet(chain[v])
    BY <1>2, <2>6 DEF Listed
  <2> QED  BY <2>4, <2>5, <2>6 DEF Listed
<1> QED  BY <1>3, <1>4

LEMMA HandoffListed ==
  ASSUME IInv, ListedOK, NEW t \in Threads, Handoff(t)
  PROVE  ListedOK'
<1>1. /\ pc \in [Threads -> {"run", "lockPark", "handoff", "wake",
                             "release", "check", "park", "relock"}]
      /\ mu \in [Threads -> Mutexes \cup {NIL}]
      /\ chain \in [Threads -> Seq(Threads)]
      /\ waitingOn \in [Threads -> Lists \cup {NIL}]
  BY DEF IInv, Inv, TypeOK
<1>2. /\ pc[t] = "handoff" /\ pc'[t] # "lockPark" /\ UNCHANGED waiters
      /\ waitingOn' = [waitingOn EXCEPT ![Head(chain[t])] = NIL]
      /\ \A u \in Threads \ {t} :
           pc'[u] = pc[u] /\ mu'[u] = mu[u] /\ chain'[u] = chain[u]
  BY <1>1 DEF Handoff, At, AfterRelease
<1>3. ToSet(chain[t]) = {Head(chain[t])} /\ Head(chain[t]) \in Threads
  BY <1>1, <1>2 DEF ToSet, IInv, Inv, FrameOK
<1> SUFFICES ASSUME NEW u \in Threads, pc'[u] = "lockPark", waitingOn'[u] # NIL
             PROVE  Listed(u)'
  BY DEF ListedOK, Listed
<1>4. Listed(u) /\ u # t /\ u # Head(chain[t])
  BY <1>1, <1>2, <1>3 DEF ListedOK, Listed
<1> QED  BY <1>2, <1>3, <1>4 DEF Listed

LEMMA ProgressListed ==
  ASSUME IInv, ListedOK, NEW t \in Threads, Progress(t)
  PROVE  ListedOK'
<1>0. /\ pc \in [Threads -> {"run", "lockPark", "handoff", "wake",
                             "release", "check", "park", "relock"}]
      /\ mu \in [Threads -> Mutexes \cup {NIL}]
      /\ chain \in [Threads -> Seq(Threads)]
      /\ waiters \in [Lists -> Seq(Threads)]
      /\ waitingOn \in [Threads -> Lists \cup {NIL}]
  BY DEF IInv, Inv, TypeOK
<1>1. CASE Relock(t)
  <2>1. mu[t] \in Mutexes /\ pc[t] = "relock"
    BY <1>1 DEF Relock, At, IInv, Inv, FrameOK
  <2>2. CASE TakeFree(t, mu[t])
    BY <1>0, <2>1, <2>2, ListedKept DEF TakeFree, LockReturns, activation
  <2> QED  BY <1>1, <2>1, <2>2, EnqueueListed DEF Relock, LockMutex
<1>2. CASE WakeInLock(t)
  <2>1. pc[t] = "lockPark" /\ UNCHANGED <<waiters, waitingOn, chain>>
    BY <1>2 DEF WakeInLock, At
  <2>2. CASE LockReturns(t, mu[t])
    BY <1>0, <2>1, <2>2, ListedKept DEF LockReturns
  <2>3. CASE UNCHANGED <<fault, pc, frame, LL>>
    BY <2>1, <2>3, ListedKept DEF frame
  <2> QED  BY <1>2, <2>2, <2>3 DEF WakeInLock
<1>3. CASE XWaitRelease(t)
  BY <1>3, UnlockListed DEF XWaitRelease, At, IInv, Inv, FrameOK
<1>4. CASE Handoff(t)
  BY <1>4, HandoffListed
<1>5. CASE AlertBranch(t)
  <2>1. /\ pc[t] \in {"check", "park"} /\ cv[t] \in Conditions
        /\ pc' = [pc EXCEPT ![t] = "relock"] /\ UNCHANGED <<mu, chain>>
        /\ waitingOn' = [waitingOn EXCEPT ![t] = NIL]
        /\ \A m \in Mutexes : waiters'[m] = waiters[m]
    BY <1>0, <1>5, ListKinds DEF AlertBranch, AtLoopTop, At, Unlink, IInv, Inv, FrameOK
  <2> QED  BY <1>0, <2>1, ListedKept
<1>6. CASE SignalledBranch(t) \/ ParkBranch(t)
  <2>1. /\ pc[t] \in {"check", "park"} /\ UNCHANGED <<mu, chain, waiters, waitingOn>>
        /\ pc' = [pc EXCEPT ![t] = "relock"] \/ pc' = [pc EXCEPT ![t] = "park"]
    BY <1>6 DEF SignalledBranch, ParkBranch, AtLoopTop, At, frame
  <2> QED  BY <1>0, <2>1, ListedKept
<1>7. CASE WakeNext(t)
  <2>1. /\ pc[t] = "wake" /\ UNCHANGED <<mu, waiters>>
        /\ \A u \in Threads \ {t} : pc'[u] = pc[u] /\ chain'[u] = chain[u]
        /\ pc'[t] \in {"run", "wake"}
        /\ waitingOn' = [waitingOn EXCEPT ![Head(chain[t])] = NIL]
    BY <1>0, <1>7 DEF WakeNext, At, frame
  <2> QED  BY <1>0, <2>1, ListedKept
<1> QED  BY <1>1, <1>2, <1>3, <1>4, <1>5, <1>6, <1>7 DEF Progress

LEMMA ClientListed ==
  ASSUME IInv, ListedOK, NEW t \in Threads, ClientStep(t) \/ SpuriousWakeup(t)
  PROVE  ListedOK'
<1>0. /\ pc \in [Threads -> {"run", "lockPark", "handoff", "wake",
                             "release", "check", "park", "relock"}]
      /\ mu \in [Threads -> Mutexes \cup {NIL}]
      /\ chain \in [Threads -> Seq(Threads)]
      /\ waiters \in [Lists -> Seq(Threads)]
      /\ waitingOn \in [Threads -> Lists \cup {NIL}]
  BY DEF IInv, Inv, TypeOK
<1>1. ASSUME NEW m \in Mutexes, Acquire(t, m)
      PROVE  ListedOK'
  <2>1. pc[t] = "run"
    BY <1>1 DEF Acquire, At
  <2>2. CASE TakeFree(t, m)
    BY <1>0, <2>1, <2>2, ListedKept DEF TakeFree, LockReturns, activation
  <2> QED  BY <1>1, <2>1, <2>2, EnqueueListed DEF Acquire, LockMutex
<1>2. ASSUME NEW m \in Mutexes, Release(t, m)
      PROVE  ListedOK'
  BY <1>2, UnlockListed DEF Release, At
<1>3. ASSUME NEW m \in Mutexes, NEW c \in Conditions, NEW al \in BOOLEAN, XWait(t, m, c, al)
      PROVE  ListedOK'
  <2>1. /\ pc[t] = "run" /\ pc'[t] = "release" /\ UNCHANGED chain
        /\ \A u \in Threads \ {t} :
             pc'[u] = pc[u] /\ mu'[u] = mu[u] /\ waitingOn'[u] = waitingOn[u]
        /\ \A n \in Mutexes : waiters'[n] = waiters[n]
    BY <1>0, <1>3, ListKinds DEF XWait, At
  <2> QED  BY <2>1, ListedKept
<1>4. ASSUME NEW c \in Conditions, Signal(t, c) \/ Broadcast(t, c)
      PROVE  ListedOK'
  <2>1. PICK woken, rest : Dequeue(t, c, woken, rest)
    BY <1>4 DEF Signal, Broadcast
  <2>2. /\ pc[t] = "run" /\ pc'[t] \in {"run", "wake"} /\ UNCHANGED <<mu, waitingOn>>
        /\ \A u \in Threads \ {t} : pc'[u] = pc[u] /\ chain'[u] = chain[u]
        /\ \A n \in Mutexes : waiters'[n] = waiters[n]
    BY <1>0, <2>1, ListKinds DEF Dequeue, At, frame, activation
  <2> QED  BY <2>2, ListedKept
<1>5. ASSUME NEW u \in Threads, Alert(t, u) \/ TestAlert(t) \/ SpuriousWakeup(t)
      PROVE  ListedOK'
  <2>1. UNCHANGED <<pc, mu, waiters, waitingOn, chain>>
    BY <1>5 DEF Alert, TestAlert, SpuriousWakeup, frame
  <2> QED  BY <2>1, ListedKept
<1> QED  BY <1>1, <1>2, <1>3, <1>4, <1>5 DEF ClientStep

LEMMA ListedInvariance == Spec => []ListedOK
<1>1. Init => ListedOK
  BY DEF Init, ListedOK, Listed
<1>2. IInv /\ ListedOK /\ [Next]_vars => ListedOK'
  <2> SUFFICES ASSUME IInv, ListedOK, [Next]_vars PROVE ListedOK'
    OBVIOUS
  <2>1. CASE UNCHANGED vars
    BY <2>1 DEF vars, ListedOK, Listed
  <2> QED  BY <2>1, ProgressListed, ClientListed DEF Next
<1> QED  BY <1>1, <1>2, IInvariance, PTL DEF Spec

(* When everyone is parked for good, a thread in LockMutex is behind       *)
(* another parked thread, which is in Wait, or in LockMutex for a mutex of *)
(* higher rank.                                                            *)
LEMMA BehindHigher ==
  ASSUME IInv, ListedOK, NoLostWakeup,
         \A t \in Threads : Parked(t) /\ ~wake[t],
         NEW t \in Threads, pc[t] = "lockPark"
  PROVE  \E u \in Threads :
           /\ mu[t] \in LL[u]
           /\ \/ pc[u] = "park"
              \/ pc[u] = "lockPark" /\ LockRank[mu[t]] < LockRank[mu[u]]
<1>0. \A v \in Threads : pc[v] \in {"lockPark", "park"}
  BY DEF Parked
<1>1. ASSUME NEW v \in Threads, pc[v] = "lockPark"
      PROVE  v \in ToSet(waiters[mu[v]]) /\ mu[v] \in Mutexes
  <2>1. waitingOn[v] # NIL
    BY <1>1 DEF NoLostWakeup
  <2> QED  BY <1>0, <1>1, <2>1 DEF ListedOK, Listed, IInv, Inv, FrameOK
<1>2. mu[t] \in Mutexes /\ waiters[mu[t]] # <<>>
  BY <1>1, EmptyList
<1>3. PICK u \in Threads : holder[mu[t]] = u
  BY <1>2 DEF IInv, Inv, NoLostMutex, TypeOK
<1>4. Owns(u, mu[t])
  BY <1>2, <1>3 DEF IInv, Inv, HolderOK
<1>5. mu[t] \in LL[u]
  <2>1. pc[u] = "lockPark" => u \in ToSet(waiters[mu[u]])
    BY <1>1
  <2>2. pc[u] # "release"
    BY <1>0
  <2> QED  BY <1>4, <2>1, <2>2 DEF Owns
<1>6. pc[u] = "lockPark" => LockRank[mu[t]] < LockRank[mu[u]]
  BY <1>5 DEF IInv, RankOK
<1> QED  BY <1>0, <1>5, <1>6

(***************************************************************************)
(* If every thread is parked for good it is not the mutexes' doing: a      *)
(* thread still in LockMutex is behind one in Wait that kept other mutexes *)
(* locked.  Otherwise the threads in LockMutex would be behind threads of  *)
(* ever higher rank, and there are finitely many.                          *)
(***************************************************************************)
THEOREM StallOnlyInWaitHolds ==
  ASSUME IsFiniteSet(Threads)
  PROVE  Spec => []StallOnlyInWait
<1>1. IInv /\ ListedOK /\ NoLostWakeup => StallOnlyInWait
  <2> SUFFICES ASSUME IInv, ListedOK, NoLostWakeup,
                      \A t \in Threads : Parked(t) /\ ~wake[t],
                      NEW t0 \in Threads, pc[t0] = "lockPark",
                      \A u \in Threads : pc[u] = "park" => LL[u] = {}
               PROVE  FALSE
    BY DEF StallOnlyInWait
  <2> DEFINE Locking == {t \in Threads : pc[t] = "lockPark"}
             Above(t) == {u \in Locking : LockRank[mu[t]] < LockRank[mu[u]]}
             Aboves == {Above(t) : t \in Locking}
  <2>1. \A t \in Locking : Above(t) # {}
    BY BehindHigher
  <2>2. \A t \in Locking : LockRank[mu[t]] \in Nat
    BY RankAssumption DEF IInv, Inv, FrameOK
  <2>3. ASSUME NEW t \in Locking, NEW u \in Above(t)
        PROVE  Above(u) \subseteq Above(t) /\ Above(u) # Above(t)
    <3>1. u \notin Above(u)
      BY <2>2
    <3>2. Above(u) \subseteq Above(t)
      BY <2>2
    <3> QED  BY <3>1, <3>2
  <2>4. Aboves \subseteq FiniteSubsetsOf(Threads) /\ Aboves # {}
    <3>1. \A t \in Locking : Above(t) \in SUBSET Threads
      OBVIOUS
    <3>2. Above(t0) \in Aboves
      OBVIOUS
    <3> HIDE DEF Above
    <3>3. Aboves \subseteq SUBSET Threads
      BY <3>1
    <3> QED  BY <3>2, <3>3, FS_FiniteSubsetsOfFinite
  <2> HIDE DEF Above
  <2>5. PICK A \in Aboves : \A B \in Aboves : <<B, A>> \notin StrictSubsetOrdering(Threads)
    <3> HIDE DEF Aboves
    <3> QED  BY <2>4, FS_StrictSubsetOrderingWellFounded, WFMin
  <2>6. PICK t \in Locking : A = Above(t)
    OBVIOUS
  <2>7. PICK u \in Above(t) : u \in Locking
    BY <2>1 DEF Above
  <2>8. Above(u) \in Aboves /\ Above(u) \in SUBSET Threads /\ Above(t) \in SUBSET Threads
    BY <2>7 DEF Above
  <2>9. <<Above(u), A>> \in StrictSubsetOrdering(Threads)
    BY <2>3, <2>6, <2>7, <2>8 DEF StrictSubsetOrdering
  <2> QED  BY <2>5, <2>8, <2>9
<1> QED  BY <1>1, IInvariance, ListedInvariance, NoLostWakeupHolds, PTL
===============================================================================
