------------------------------ MODULE ThreadSpec ------------------------------
(***************************************************************************)
(* What the interface Thread promises its clients: the abstract monitors   *)
(* and alerts of Thread.i3, action by action as its Larch specification    *)
(* (Thread.lm3) divides them.  There are no queues here, no hand-off, no   *)
(* wake-ups: a mutex has a holder, a condition has a set of waiters, and   *)
(* alerts are a set of threads.  ThreadSync is shown to implement it, but  *)
(* for one step, which is described at the end.                            *)
(***************************************************************************)
EXTENDS FiniteSets

CONSTANTS Threads,     \* Thread.T values
          Mutexes,     \* MUTEX values
          Conditions,  \* Thread.Condition values
          NIL

VARIABLES holder,         \* the thread that has locked each mutex, or NIL
          waiting,        \* the threads enqueued on each condition
          pendingAlerts,  \* the threads marked alerted
          phase           \* where each thread is within Wait or AlertWait

specVars == <<holder, waiting, pendingAlerts, phase>>

(* A thread runs client code, or is in Wait: first among the waiters,      *)
(* then about to relock its mutex to return or to raise Alerted.           *)
Running == [at |-> "run", m |-> NIL, c |-> NIL, alertable |-> FALSE]

Phases == [at : {"run", "wait", "resume", "raise"},
           m : Mutexes \cup {NIL}, c : Conditions \cup {NIL}, alertable : BOOLEAN]

SpecTypeOK ==
  /\ holder \in [Mutexes -> Threads \cup {NIL}]
  /\ waiting \in [Conditions -> SUBSET Threads]
  /\ pendingAlerts \subseteq Threads
  /\ phase \in [Threads -> Phases]

Init ==
  /\ holder = [m \in Mutexes |-> NIL]
  /\ waiting = [c \in Conditions |-> {}]
  /\ pendingAlerts = {}
  /\ phase = [t \in Threads |-> Running]

Acquire(t, m) ==
  /\ phase[t].at = "run"
  /\ holder[m] = NIL
  /\ holder' = [holder EXCEPT ![m] = t]
  /\ UNCHANGED <<waiting, pendingAlerts, phase>>

Release(t, m) ==
  /\ phase[t].at = "run"
  /\ holder[m] = t
  /\ holder' = [holder EXCEPT ![m] = NIL]
  /\ UNCHANGED <<waiting, pendingAlerts, phase>>

(* Wait and AlertWait begin by unlocking m and joining c in one step. *)
Enqueue(t, m, c, alertable) ==
  /\ phase[t].at = "run"
  /\ holder[m] = t
  /\ holder' = [holder EXCEPT ![m] = NIL]
  /\ waiting' = [waiting EXCEPT ![c] = @ \cup {t}]
  /\ phase' = [phase EXCEPT ![t] = [at |-> "wait", m |-> m, c |-> c,
                                    alertable |-> alertable]]
  /\ UNCHANGED pendingAlerts

(* A waiter that has been signalled, and so is not on the condition any    *)
(* more, returns.  One that is on it and marked alerted may leave it,      *)
(* consume the alert and raise Alerted.                                    *)
ChooseReturn(t) ==
  /\ phase[t].at = "wait"
  /\ t \notin waiting[phase[t].c]
  /\ phase' = [phase EXCEPT ![t].at = "resume"]
  /\ UNCHANGED <<holder, waiting, pendingAlerts>>

ChooseAlerted(t) ==
  /\ phase[t].at = "wait"
  /\ phase[t].alertable
  /\ t \in pendingAlerts
  /\ t \in waiting[phase[t].c]
  /\ waiting' = [waiting EXCEPT ![phase[t].c] = @ \ {t}]
  /\ pendingAlerts' = pendingAlerts \ {t}
  /\ phase' = [phase EXCEPT ![t].at = "raise"]
  /\ UNCHANGED holder

Resume(t) ==
  /\ phase[t].at \in {"resume", "raise"}
  /\ holder[phase[t].m] = NIL
  /\ holder' = [holder EXCEPT ![phase[t].m] = t]
  /\ phase' = [phase EXCEPT ![t] = Running]
  /\ UNCHANGED <<waiting, pendingAlerts>>

(* Signal removes at least one waiter, if there is one. *)
Signal(t, c) ==
  /\ phase[t].at = "run"
  /\ \E rest \in SUBSET waiting[c] :
        /\ waiting[c] # {} => rest # waiting[c]
        /\ waiting' = [waiting EXCEPT ![c] = rest]
  /\ UNCHANGED <<holder, pendingAlerts, phase>>

Broadcast(t, c) ==
  /\ phase[t].at = "run"
  /\ waiting' = [waiting EXCEPT ![c] = {}]
  /\ UNCHANGED <<holder, pendingAlerts, phase>>

Alert(t, u) ==
  /\ phase[t].at = "run"
  /\ pendingAlerts' = pendingAlerts \cup {u}
  /\ UNCHANGED <<holder, waiting, phase>>

TestAlert(t) ==
  /\ phase[t].at = "run"
  /\ pendingAlerts' = pendingAlerts \ {t}
  /\ UNCHANGED <<holder, waiting, phase>>

SpecNext ==
  \E t \in Threads :
    \/ \E m \in Mutexes : Acquire(t, m) \/ Release(t, m)
    \/ \E m \in Mutexes, c \in Conditions, a \in BOOLEAN : Enqueue(t, m, c, a)
    \/ ChooseReturn(t) \/ ChooseAlerted(t) \/ Resume(t)
    \/ \E c \in Conditions : Signal(t, c) \/ Broadcast(t, c)
    \/ \E u \in Threads : Alert(t, u)
    \/ TestAlert(t)

Spec == Init /\ [][SpecNext]_specVars

(* Not a step of Spec: a waiter that has been signalled consumes an alert  *)
(* and raises Alerted.  Thread.i3, unlike Thread.lm3, asks of AlertWait    *)
(* only that the thread be marked alerted at some time during the wait.    *)
RaiseSignalled(t) ==
  /\ phase[t].at = "wait"
  /\ phase[t].alertable
  /\ t \in pendingAlerts
  /\ t \notin waiting[phase[t].c]
  /\ pendingAlerts' = pendingAlerts \ {t}
  /\ phase' = [phase EXCEPT ![t].at = "raise"]
  /\ UNCHANGED <<holder, waiting>>
===============================================================================
