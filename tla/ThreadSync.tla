------------------------------ MODULE ThreadSync ------------------------------
(***************************************************************************)
(* Mutexes, conditions and alerts as ThreadPThread.m3 builds them from     *)
(* pthread mutexes and one pthread condition per thread to park on.        *)
(*                                                                         *)
(* Every Mutex and Condition has a list of waiting threads guarded by its  *)
(* own pthread mutex; every thread (Activation) has a pthread mutex that   *)
(* guards its waitingOn and alerted fields.  A stretch of code between a   *)
(* pthread lock and its unlock is one action here: the locks nest only as  *)
(* self.mutex then list mutex, and nothing else is acquired inside.  The   *)
(* windows between two such stretches are what the model interleaves.      *)
(* The circular lists (tail pointer, nextWaiter links) are sequences, head *)
(* first.  Where the code asserts, dies or would follow a NIL link, the    *)
(* step records the failure in fault and the model stops.                  *)
(***************************************************************************)
EXTENDS Integers, Sequences, FiniteSets, SequencesExt

CONSTANTS Threads,     \* Activations of threads that exist throughout
          Mutexes,     \* MUTEX objects
          Conditions,  \* Condition objects
          NIL,
          LockRank,    \* the order in which clients nest their mutexes
          Calls        \* the operations on conditions and alerts clients use

Operations == {"Wait", "AlertWait", "Signal", "Broadcast", "Alert", "TestAlert"}

ASSUME RankAssumption == LockRank \in [Mutexes -> Nat]
ASSUME CallsAssumption == Calls \subseteq Operations
ASSUME NilAssumption == NIL \notin Threads \cup Mutexes \cup Conditions
ASSUME ListsAssumption == Mutexes \cap Conditions = {}

VARIABLES
  holder,     \* Mutex.holder
  waiters,    \* Mutex.waiters and Condition.waiters, first in first
  waitingOn,  \* Activation.waitingOn: the list whose mutex the field holds
  alerted,    \* Activation.alerted
  wake,       \* a pthread_cond_signal has reached the parked thread
  pc,         \* where the thread is within LockMutex, UnlockMutex, XWait...
  mu, cv,     \* the Mutex being operated on; the Condition of XWait, or NIL
  alertable,  \* XWait's parameter
  raise,      \* XWait has decided to RAISE Alerted
  chain,      \* threads dequeued by UnlockMutex, Signal, Broadcast, not yet woken
  LL,         \* the mutexes the thread's client code has locked
  fault       \* "none", or the assertion or NIL dereference that failed

activation == <<waitingOn, alerted, wake>>
frame == <<mu, cv, alertable, raise>>
vars == <<holder, waiters, waitingOn, alerted, wake, pc, mu, cv, alertable,
          raise, chain, LL, fault>>

Lists == Mutexes \cup Conditions

TypeOK ==
  /\ holder \in [Mutexes -> Threads \cup {NIL}]
  /\ waiters \in [Lists -> Seq(Threads)]
  /\ waitingOn \in [Threads -> Lists \cup {NIL}]
  /\ alerted \in [Threads -> BOOLEAN]
  /\ wake \in [Threads -> BOOLEAN]
  /\ pc \in [Threads -> {"run", "lockPark", "handoff", "wake",
                         "release", "check", "park", "relock"}]
  /\ mu \in [Threads -> Mutexes \cup {NIL}]
  /\ cv \in [Threads -> Conditions \cup {NIL}]
  /\ alertable \in [Threads -> BOOLEAN]
  /\ raise \in [Threads -> BOOLEAN]
  /\ chain \in [Threads -> Seq(Threads)]
  /\ LL \in [Threads -> SUBSET Mutexes]
  /\ fault \in {"none", "impossible acquire", "illegal release", "m.holder = self",
                "t.waitingOn = m.mutex", "self.waitingOn = NIL",
                "self.waitingOn = c.mutex",
                "prev = NIL", "other waiter lost", "endless search"}

Init ==
  /\ holder = [m \in Mutexes |-> NIL]
  /\ waiters = [q \in Lists |-> <<>>]
  /\ waitingOn = [t \in Threads |-> NIL]
  /\ alerted = [t \in Threads |-> FALSE]
  /\ wake = [t \in Threads |-> FALSE]
  /\ pc = [t \in Threads |-> "run"]
  /\ mu = [t \in Threads |-> NIL]
  /\ cv = [t \in Threads |-> NIL]
  /\ alertable = [t \in Threads |-> FALSE]
  /\ raise = [t \in Threads |-> FALSE]
  /\ chain = [t \in Threads |-> <<>>]
  /\ LL = [t \in Threads |-> {}]
  /\ fault = "none"

(* The model stops at the first failure. *)
At(t, where) == fault = "none" /\ pc[t] = where

Ensure(ok, what) == fault' = IF ok THEN fault ELSE what

(* A thread blocked in pthread_cond_wait(self.cond, self.mutex), and what  *)
(* pthread_cond_signal(t.cond) does to a set of threads.                   *)
Parked(t) == pc[t] \in {"lockPark", "park"}

(* Mutant: the field is changed and the parked thread is not told. *)
CondSignal_None(t) == UNCHANGED wake

CondSignal(t) == wake' = [wake EXCEPT ![t] = @ \/ Parked(t)]

------------------------------------------------------------------------------
(* LockMutex, called by a client (from "run") or by XWait ("relock").      *)

(* Control returns to the caller with m locked. *)
LockReturns(t, m) ==
  /\ pc' = [pc EXCEPT ![t] = "run"]
  /\ mu' = [mu EXCEPT ![t] = NIL]
  /\ cv' = [cv EXCEPT ![t] = NIL]
  /\ alertable' = [alertable EXCEPT ![t] = FALSE]
  /\ raise' = [raise EXCEPT ![t] = FALSE]
  /\ LL' = [LL EXCEPT ![t] = @ \cup {m}]

TakeFree(t, m) ==
  /\ holder[m] = NIL
  /\ holder' = [holder EXCEPT ![m] = t]
  /\ LockReturns(t, m)
  /\ UNCHANGED <<waiters, activation, chain, fault>>

EnqueueAndPark(t, m) ==
  /\ holder[m] # NIL
  /\ waitingOn' = [waitingOn EXCEPT ![t] = m]
  /\ waiters' = [waiters EXCEPT ![m] = Append(@, t)]
  /\ IF waitingOn[t] # NIL
     THEN Ensure(FALSE, "self.waitingOn = NIL")
     ELSE Ensure(holder[m] # t, "impossible acquire")
  /\ pc' = [pc EXCEPT ![t] = "lockPark"]
  /\ mu' = [mu EXCEPT ![t] = m]
  /\ UNCHANGED <<holder, alerted, wake, cv, alertable, raise, chain, LL>>

LockMutex(t, m) == TakeFree(t, m) \/ EnqueueAndPark(t, m)

(* Clients nest mutexes in one order, so they never deadlock by themselves. *)
Acquire(t, m) ==
  /\ At(t, "run")
  /\ \A n \in LL[t] : LockRank[n] < LockRank[m]
  /\ LockMutex(t, m)

Relock(t) == At(t, "relock") /\ LockMutex(t, mu[t])

(* Mutant: one pthread_cond_wait instead of the REPEAT loop. *)
WakeInLock_Once(t) ==
  /\ At(t, "lockPark")
  /\ wake[t]
  /\ wake' = [wake EXCEPT ![t] = FALSE]
  /\ Ensure(holder[mu[t]] = t, "m.holder = self")
  /\ LockReturns(t, mu[t])
  /\ UNCHANGED <<holder, waiters, waitingOn, alerted, chain>>

(* The REPEAT loop: only the hand-off clears waitingOn. *)
WakeInLock(t) ==
  /\ At(t, "lockPark")
  /\ wake[t]
  /\ wake' = [wake EXCEPT ![t] = FALSE]
  /\ \/ /\ waitingOn[t] = NIL
        /\ Ensure(holder[mu[t]] = t, "m.holder = self")
        /\ LockReturns(t, mu[t])
     \/ /\ waitingOn[t] # NIL
        /\ UNCHANGED <<fault, pc, frame, LL>>
  /\ UNCHANGED <<holder, waiters, waitingOn, alerted, chain>>

------------------------------------------------------------------------------
(* UnlockMutex, called by a client ("run") or by XWait ("release").        *)

AfterRelease(t) == IF cv[t] = NIL THEN "run" ELSE "check"

FirstOf(s) == IF s = <<>> THEN s ELSE <<Head(s)>>

(* Mutant: the mutex is left open for whoever comes first. *)
UnlockMutex_Open(t, m) ==
  /\ Ensure(holder[m] = t, "illegal release")
  /\ holder' = [holder EXCEPT ![m] = NIL]
  /\ waiters' = [waiters EXCEPT ![m] = IF @ = <<>> THEN @ ELSE Tail(@)]
  /\ chain' = [chain EXCEPT ![t] = FirstOf(waiters[m])]
  /\ pc' = [pc EXCEPT ![t] = IF waiters[m] = <<>> THEN AfterRelease(t) ELSE "handoff"]
  /\ mu' = [mu EXCEPT ![t] = m]
  /\ UNCHANGED <<activation, cv, alertable, raise>>

(* m.holder becomes the first waiter, which is dequeued here and woken by  *)
(* Handoff.                                                                *)
UnlockMutex(t, m) ==
  /\ Ensure(holder[m] = t, "illegal release")
  /\ \/ /\ waiters[m] = <<>>
        /\ holder' = [holder EXCEPT ![m] = NIL]
        /\ pc' = [pc EXCEPT ![t] = AfterRelease(t)]
        /\ UNCHANGED <<waiters, mu, chain>>
     \/ /\ waiters[m] # <<>>
        /\ holder' = [holder EXCEPT ![m] = Head(waiters[m])]
        /\ waiters' = [waiters EXCEPT ![m] = Tail(@)]
        /\ chain' = [chain EXCEPT ![t] = <<Head(waiters[m])>>]
        /\ pc' = [pc EXCEPT ![t] = "handoff"]
        /\ mu' = [mu EXCEPT ![t] = m]
  /\ UNCHANGED <<activation, cv, alertable, raise>>

Release(t, m) ==
  /\ At(t, "run")
  /\ m \in LL[t]
  /\ LL' = [LL EXCEPT ![t] = @ \ {m}]
  /\ UnlockMutex(t, m)

XWaitRelease(t) ==
  /\ At(t, "release")
  /\ UnlockMutex(t, mu[t])
  /\ UNCHANGED LL

Handoff(t) ==
  /\ At(t, "handoff")
  /\ LET u == Head(chain[t]) IN
       /\ Ensure(waitingOn[u] = mu[t], "t.waitingOn = m.mutex")
       /\ waitingOn' = [waitingOn EXCEPT ![u] = NIL]
       /\ CondSignal(u)
  /\ chain' = [chain EXCEPT ![t] = <<>>]
  /\ pc' = [pc EXCEPT ![t] = AfterRelease(t)]
  /\ mu' = [mu EXCEPT ![t] = IF cv[t] = NIL THEN NIL ELSE @]
  /\ UNCHANGED <<holder, waiters, alerted, cv, alertable, raise, LL>>

------------------------------------------------------------------------------
(* XWait, the body of Wait and AlertWait.                                  *)

(* A client waits on the mutex it locked last, so that the relock respects *)
(* its lock order.                                                         *)
XWait(t, m, c, al) ==
  /\ At(t, "run")
  /\ (IF al THEN "AlertWait" ELSE "Wait") \in Calls
  /\ m \in LL[t] /\ \A n \in LL[t] : LockRank[n] <= LockRank[m]
  /\ Ensure(waitingOn[t] = NIL, "self.waitingOn = NIL")
  /\ waitingOn' = [waitingOn EXCEPT ![t] = c]
  /\ waiters' = [waiters EXCEPT ![c] = Append(@, t)]
  /\ pc' = [pc EXCEPT ![t] = "release"]
  /\ mu' = [mu EXCEPT ![t] = m]
  /\ cv' = [cv EXCEPT ![t] = c]
  /\ alertable' = [alertable EXCEPT ![t] = al]
  /\ LL' = [LL EXCEPT ![t] = @ \ {m}]
  /\ UNCHANGED <<holder, alerted, wake, raise, chain>>

(* The LOOP's tests, made on first arrival and after each wake-up. *)
AtLoopTop(t) == At(t, "check") \/ (At(t, "park") /\ wake[t])

(* Search the list from its head for t and take it out.  A list of one is  *)
(* emptied without a look at who is on it.                                 *)
Without(s, t) ==
  IF Len(s) = 1 THEN <<>>
  ELSE IF t \in ToSet(s) THEN RemoveAt(s, CHOOSE i \in DOMAIN s : s[i] = t) ELSE s

(* The thread takes itself off c.waiters, if waitingOn says it is there.   *)
(* It may not be: Signal and Broadcast reset waitingOn only some time      *)
(* after they have dequeued the thread.                                    *)
Unlink(t, c) ==
  /\ \/ /\ waitingOn[t] # NIL
        /\ IF waitingOn[t] # c THEN Ensure(FALSE, "self.waitingOn = c.mutex")
           ELSE IF waiters[c] = <<>> THEN Ensure(FALSE, "prev = NIL")
           ELSE Ensure(t \in ToSet(waiters[c]),
                       IF Len(waiters[c]) = 1 THEN "other waiter lost"
                       ELSE "endless search")
        /\ waiters' = [waiters EXCEPT ![c] = Without(@, t)]
     \/ /\ waitingOn[t] = NIL
        /\ UNCHANGED <<waiters, fault>>
  /\ waitingOn' = [waitingOn EXCEPT ![t] = NIL]

AlertBranch(t) ==
  /\ AtLoopTop(t)
  /\ alertable[t] /\ alerted[t]
  /\ Unlink(t, cv[t])
  /\ alerted' = [alerted EXCEPT ![t] = FALSE]
  /\ wake' = [wake EXCEPT ![t] = FALSE]
  /\ pc' = [pc EXCEPT ![t] = "relock"]
  /\ raise' = [raise EXCEPT ![t] = TRUE]
  /\ UNCHANGED <<holder, mu, cv, alertable, chain, LL>>

(* Mutant: any wake-up is taken for a signal. *)
SignalledBranch_AnyWake(t) ==
  /\ AtLoopTop(t)
  /\ ~(alertable[t] /\ alerted[t])
  /\ wake' = [wake EXCEPT ![t] = FALSE]
  /\ pc' = [pc EXCEPT ![t] = "relock"]
  /\ UNCHANGED <<holder, waiters, waitingOn, alerted, frame, chain, LL, fault>>

SignalledBranch(t) ==
  /\ AtLoopTop(t)
  /\ ~(alertable[t] /\ alerted[t])
  /\ waitingOn[t] = NIL
  /\ wake' = [wake EXCEPT ![t] = FALSE]
  /\ pc' = [pc EXCEPT ![t] = "relock"]
  /\ UNCHANGED <<holder, waiters, waitingOn, alerted, frame, chain, LL, fault>>

ParkBranch(t) ==
  /\ AtLoopTop(t)
  /\ ~(alertable[t] /\ alerted[t])
  /\ waitingOn[t] # NIL
  /\ wake' = [wake EXCEPT ![t] = FALSE]
  /\ pc' = [pc EXCEPT ![t] = "park"]
  /\ UNCHANGED <<holder, waiters, waitingOn, alerted, frame, chain, LL, fault>>

------------------------------------------------------------------------------
(* Signal and Broadcast dequeue under the condition's lock, then wake each *)
(* thread under its own.                                                   *)

Dequeue(t, c, woken, rest) ==
  /\ At(t, "run")
  /\ chain' = [chain EXCEPT ![t] = woken]
  /\ waiters' = [waiters EXCEPT ![c] = rest]
  /\ pc' = [pc EXCEPT ![t] = IF woken = <<>> THEN "run" ELSE "wake"]
  /\ UNCHANGED <<holder, activation, frame, LL, fault>>

(* Mutants: the test for an empty list is missing; the list that the last  *)
(* waiter leaves is not emptied.                                           *)
Signal_NoNilTest(t, c) ==
  /\ "Signal" \in Calls
  /\ IF waiters[c] = <<>>
     THEN Dequeue(t, c, <<NIL>>, <<>>)
     ELSE Dequeue(t, c, <<Head(waiters[c])>>, Tail(waiters[c]))

Signal_KeepsSingleton(t, c) ==
  /\ "Signal" \in Calls
  /\ Dequeue(t, c, FirstOf(waiters[c]),
             IF Len(waiters[c]) > 1 THEN Tail(waiters[c]) ELSE waiters[c])

Signal(t, c) ==
  /\ "Signal" \in Calls
  /\ IF waiters[c] = <<>>
     THEN Dequeue(t, c, <<>>, <<>>)
     ELSE Dequeue(t, c, <<Head(waiters[c])>>, Tail(waiters[c]))

(* Mutant: Broadcast wakes one of the threads it has dequeued. *)
LastFirst_Only(s) == IF s = <<>> THEN s ELSE <<Last(s)>>

(* The list is entered at its tail, and the tail's successor is its head.  *)
LastFirst(s) == IF s = <<>> THEN s ELSE <<Last(s)>> \o Front(s)

Broadcast(t, c) ==
  /\ "Broadcast" \in Calls
  /\ Dequeue(t, c, LastFirst(waiters[c]), <<>>)

WakeNext(t) ==
  /\ At(t, "wake")
  /\ waitingOn' = [waitingOn EXCEPT ![Head(chain[t])] = NIL]
  /\ CondSignal(Head(chain[t]))
  /\ chain' = [chain EXCEPT ![t] = Tail(@)]
  /\ pc' = [pc EXCEPT ![t] = IF Len(chain[t]) = 1 THEN "run" ELSE "wake"]
  /\ UNCHANGED <<holder, waiters, alerted, frame, LL, fault>>

------------------------------------------------------------------------------
(* Alerts.                                                                 *)

Alert(t, u) ==
  /\ "Alert" \in Calls
  /\ At(t, "run")
  /\ alerted' = [alerted EXCEPT ![u] = TRUE]
  /\ CondSignal(u)
  /\ UNCHANGED <<holder, waiters, waitingOn, pc, frame, chain, LL, fault>>

TestAlert(t) ==
  /\ "TestAlert" \in Calls
  /\ At(t, "run")
  /\ alerted' = [alerted EXCEPT ![t] = FALSE]
  /\ UNCHANGED <<holder, waiters, waitingOn, wake, pc, frame, chain, LL, fault>>

(* pthread_cond_wait may return without a signal. *)
SpuriousWakeup(t) ==
  /\ fault = "none" /\ Parked(t) /\ ~wake[t]
  /\ wake' = [wake EXCEPT ![t] = TRUE]
  /\ UNCHANGED <<holder, waiters, waitingOn, alerted, pc, frame, chain, LL, fault>>

------------------------------------------------------------------------------
(* Steps a thread takes inside an operation, without a choice of its       *)
(* client, and steps its client chooses to take.                           *)
Progress(t) ==
  \/ Relock(t) \/ WakeInLock(t)
  \/ XWaitRelease(t) \/ Handoff(t)
  \/ AlertBranch(t) \/ SignalledBranch(t) \/ ParkBranch(t)
  \/ WakeNext(t)

ClientStep(t) ==
  \/ \E m \in Mutexes : Acquire(t, m) \/ Release(t, m)
  \/ \E m \in Mutexes, c \in Conditions, al \in BOOLEAN : XWait(t, m, c, al)
  \/ \E c \in Conditions : Signal(t, c) \/ Broadcast(t, c)
  \/ \E u \in Threads : Alert(t, u)
  \/ TestAlert(t)

Next == \E t \in Threads : Progress(t) \/ ClientStep(t) \/ SpuriousWakeup(t)

Spec == Init /\ [][Next]_vars

(* A thread inside an operation is eventually scheduled, and a client that *)
(* holds a mutex and keeps running eventually releases it.                 *)
Fairness ==
  \A t \in Threads :
    /\ WF_vars(Progress(t))
    /\ SF_vars(\E m \in Mutexes : Release(t, m))

FairSpec == Spec /\ Fairness

------------------------------------------------------------------------------
(* Properties.                                                             *)

(* No assertion of LockMutex, UnlockMutex or XWait fails, none of their    *)
(* "impossible" and "illegal" exits is taken and no NIL link is followed.  *)
NoFault == fault = "none"

(* The comment in XWait's alert branch: prev := c.waiters (* prev # NIL *) *)
PrevNotNil == fault # "prev = NIL"

(* The one thing that can go wrong, when AlertWait, Signal and Alert meet, *)
(* is that an alerted thread looks for itself on a list it has left: it    *)
(* follows a NIL link, empties the list under another waiter, or searches  *)
(* for ever with the condition locked.                                     *)
OnlyAlertRace ==
  fault \in {"none", "prev = NIL", "other waiter lost", "endless search"}

(* Two clients never both believe they have locked a mutex, whichever of   *)
(* them got it by the free path, by a hand-off or by XWait's relock.       *)
MutualExclusion ==
  \A t, u \in Threads : t # u => LL[t] \cap LL[u] = {}

(* UnlockMutex never leaves a mutex free while threads queue for it: the   *)
(* free path of LockMutex would let newcomers in and nobody would ever     *)
(* wake the queue.                                                         *)
NoLostMutex ==
  \A m \in Mutexes : waiters[m] # <<>> => holder[m] # NIL

(* The "theory" comment on Activation: a thread is on at most one wait     *)
(* list, once, or in one waker's hands; on a list, its waitingOn names     *)
(* that list.                                                              *)
OnOneList ==
  NoFault =>
    /\ \A q \in Lists : IsInjective(waiters[q])
    /\ \A q \in Lists : \A u \in ToSet(waiters[q]) : waitingOn[u] = q
    /\ \A t \in Threads : IsInjective(chain[t])
    /\ \A t, u \in Threads : t # u => ToSet(chain[t]) \cap ToSet(chain[u]) = {}
    /\ \A t \in Threads, q \in Lists : ToSet(chain[t]) \cap ToSet(waiters[q]) = {}

(* A parked thread whose reason to wait is gone has a wake-up on its way:  *)
(* pthread_cond_signal remembers nothing, so every change of waitingOn or  *)
(* alerted must reach a thread that is already parked, or be seen by it    *)
(* before it parks.                                                        *)
NoLostWakeup ==
  \A t \in Threads :
    /\ pc[t] = "lockPark" /\ waitingOn[t] = NIL => wake[t]
    /\ pc[t] = "park" /\ (waitingOn[t] = NIL \/ (alertable[t] /\ alerted[t]))
         => wake[t]

(* When every thread is parked for good, it is because clients wait on     *)
(* conditions nobody is left to signal, never because of the mutexes: a    *)
(* thread still in LockMutex is behind a client that entered Wait with     *)
(* other mutexes locked.                                                   *)
StallOnlyInWait ==
  (\A t \in Threads : Parked(t) /\ ~wake[t]) =>
    \A t \in Threads : pc[t] = "lockPark" =>
      \E u \in Threads : pc[u] = "park" /\ LL[u] # {}

(* Hand-off is first come, first served: a mutex with waiters passes from  *)
(* its holder to the longest waiter, and nobody barges in between.         *)
HandoffInOrder ==
  [][\A m \in Mutexes :
       waiters[m] # <<>> /\ holder'[m] # holder[m] => holder'[m] = Head(waiters[m])]_vars

(* A thread queued for a mutex is eventually granted it, as long as        *)
(* clients release what they lock.                                         *)
LockGranted ==
  \A t \in Threads : pc[t] = "lockPark" ~> pc[t] # "lockPark" \/ fault # "none"

(* A waiter that Signal or Broadcast has dequeued eventually returns from  *)
(* Wait with its mutex, whatever the wakers and alerters do meanwhile.     *)
SignalledReturns ==
  \A t \in Threads :
    cv[t] # NIL /\ t \notin ToSet(waiters[cv[t]]) ~> cv[t] = NIL \/ fault # "none"

(* An AlertWait whose thread is alerted eventually ends.                   *)
AlertedReturns ==
  \A t \in Threads :
    cv[t] # NIL /\ alertable[t] /\ alerted[t] ~> cv[t] = NIL \/ fault # "none"

------------------------------------------------------------------------------
(* The inductive invariant behind the safety properties.                   *)

InWait(t) == cv[t] # NIL /\ pc[t] \in {"release", "handoff", "check", "park"}

(* The locals of an operation are set while it runs. *)
FrameOK ==
  \A t \in Threads :
    /\ pc[t] \notin {"run", "wake"} => mu[t] \in Mutexes
    /\ pc[t] \in {"release", "check", "park", "relock"} => cv[t] \in Conditions
    /\ pc[t] \in {"run", "wake"} => cv[t] = NIL
    /\ cv[t] # NIL => mu[t] \notin LL[t]
    /\ pc[t] \in {"handoff", "wake"} <=> chain[t] # <<>>
    /\ pc[t] = "handoff" => Len(chain[t]) = 1

(* m.holder is the thread whose client has m, that is about to give m up   *)
(* in XWait, or that has been handed m and has yet to wake.                *)
Owns(t, m) ==
  \/ m \in LL[t]
  \/ mu[t] = m /\ pc[t] = "release"
  \/ mu[t] = m /\ pc[t] = "lockPark" /\ t \notin ToSet(waiters[m])

HolderOK ==
  \A t \in Threads, m \in Mutexes : holder[m] = t <=> Owns(t, m)

WaitingOnOK ==
  \A t \in Threads :
    waitingOn[t] # NIL =>
      \/ pc[t] = "lockPark" /\ waitingOn[t] = mu[t]
      \/ InWait(t) /\ waitingOn[t] = cv[t]

(* Who is on a list, and in whose hands dequeued threads are. *)
QueuesOK ==
  /\ \A q \in Lists : IsInjective(waiters[q])
  /\ \A m \in Mutexes, u \in Threads : u \in ToSet(waiters[m]) =>
       pc[u] = "lockPark" /\ mu[u] = m /\ waitingOn[u] = m
  /\ \A c \in Conditions, u \in Threads : u \in ToSet(waiters[c]) =>
       InWait(u) /\ cv[u] = c /\ waitingOn[u] = c

ChainsOK ==
  /\ \A t \in Threads : IsInjective(chain[t])
  /\ \A t, u, v \in Threads :
       v \in ToSet(chain[t]) /\ v \in ToSet(chain[u]) => t = u
  /\ \A t, u \in Threads : pc[t] = "handoff" /\ u \in ToSet(chain[t]) =>
       /\ pc[u] = "lockPark" /\ mu[u] = mu[t] /\ waitingOn[u] = mu[t]
       /\ u \notin ToSet(waiters[mu[t]])
  /\ \A t, u \in Threads : NoFault /\ pc[t] = "wake" /\ u \in ToSet(chain[t]) =>
       InWait(u) /\ waitingOn[u] = cv[u] /\ u \notin ToSet(waiters[cv[u]])

Inv ==
  /\ TypeOK
  /\ FrameOK
  /\ HolderOK
  /\ WaitingOnOK
  /\ QueuesOK
  /\ ChainsOK
  /\ NoLostMutex
  /\ OnlyAlertRace

------------------------------------------------------------------------------
(* Refinement.  A hand-off has happened abstractly as soon as the releaser *)
(* dequeues: until the new holder wakes up and returns, the mutex counts   *)
(* as free; so does one that XWait has yet to release.                     *)

AbsHolder ==
  [m \in Mutexes |->
     IF holder[m] # NIL /\ pc[holder[m]] \in {"lockPark", "release"}
                        /\ mu[holder[m]] = m
     THEN NIL ELSE holder[m]]

AbsPhase ==
  [t \in Threads |->
     IF cv[t] = NIL
     THEN [at |-> "run", m |-> NIL, c |-> NIL, alertable |-> FALSE]
     ELSE [at |-> IF pc[t] \in {"release", "handoff", "check", "park"} THEN "wait"
                  ELSE IF raise[t] THEN "raise" ELSE "resume",
           m |-> mu[t], c |-> cv[t], alertable |-> alertable[t]]]

Abstract ==
  INSTANCE ThreadSpec WITH
    holder <- AbsHolder,
    waiting <- [c \in Conditions |-> ToSet(waiters[c])],
    pendingAlerts <- {t \in Threads : alerted[t]},
    phase <- AbsPhase

(* An AlertWait that has been signalled raises Alerted all the same.       *)
RaisesSignalled == \E t \in Threads : Abstract!RaiseSignalled(t)

(* The pthread implementation does what the monitors of Thread.lm3 do,     *)
(* except that an AlertWait that has been signalled may still raise        *)
(* Alerted: every other step is one abstract step or invisible, up to the  *)
(* failure that OnlyAlertRace names.                                       *)
ImplementsThreadSpec ==
  /\ Abstract!Init
  /\ [][NoFault' => Abstract!SpecNext \/ RaisesSignalled]_(Abstract!specVars)
===============================================================================
