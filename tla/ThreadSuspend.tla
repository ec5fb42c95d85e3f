----------------------------- MODULE ThreadSuspend -----------------------------
(***************************************************************************)
(* How the collector's thread stops and restarts every other thread:       *)
(* SuspendOthers and ResumeOthers of ThreadPThread.m3, the signal handler  *)
(* the stopped threads sit in, the semaphore they acknowledge on, and the  *)
(* re-sending of signals that StopWorld and StartWorld fall back on when   *)
(* acknowledgements are late.                                              *)
(*                                                                         *)
(* The state field of an Activation is written by both sides without a     *)
(* lock: each read and each write of it is a step of its own here, except  *)
(* where the other side provably stands still.                             *)
(***************************************************************************)
EXTENDS Integers, FiniteSets

CONSTANTS Threads,     \* the threads that may be on allThreads, besides the collector
          MaxPending   \* signals the system queues for a thread (then EAGAIN)

ASSUME ThreadsAssumption == IsFiniteSet(Threads)
ASSUME PendingAssumption == MaxPending \in Nat \ {0}

VARIABLES
  useSignals, \* SIG_SUSPEND # 0 in this build; otherwise threads are suspended directly
  ring,      \* the threads on allThreads
  state,     \* Activation.state
  critical,  \* Activation.heapState.inCritical # 0
  handler,   \* where a thread is within SignalHandler
  pending,   \* SIG_SUSPENDs sent to a thread and not delivered yet
  acks,      \* the value of the semaphore
  phase,     \* where the collector is within SuspendOthers, ResumeOthers
  todo,      \* the threads a loop over allThreads has yet to visit
  target,    \* the one thread a re-sending loop is about to signal
  nLive,     \* StopWorld's nLive, StartWorld's nDead
  fault      \* "none", or the assertion that failed

threadVars == <<critical, handler, pending>>
worldVars == <<useSignals, ring, phase, todo, target, nLive>>
vars == <<useSignals, ring, state, critical, handler, pending, acks, phase, todo, target,
          nLive, fault>>

States == {"Started", "Stopping", "Stopped", "Starting"}

TypeOK ==
  /\ useSignals \in BOOLEAN
  /\ ring \subseteq Threads
  /\ state \in [Threads -> States]
  /\ critical \in [Threads -> BOOLEAN]
  /\ handler \in [Threads -> {"out", "entered", "stopped", "waiting", "woken",
                              "resumed", "suspended"}]
  /\ pending \in [Threads -> 0 .. MaxPending]
  /\ acks \in Nat
  /\ phase \in {"idle", "stop", "stopWait", "stopResend", "resendOne",
                "processing", "start", "startWait", "startResend"}
  /\ todo \subseteq ring
  /\ target \in SUBSET Threads
  /\ nLive \in Nat
  /\ fault \in {"none", "act.state # Starting", "acks < nLive", "act.state = Stopped",
                "act.state # Stopping", "acks < nDead", "me.stacks.context = NIL"}

Init ==
  /\ useSignals \in BOOLEAN
  /\ ring \in SUBSET Threads
  /\ state = [t \in Threads |-> "Started"]
  /\ critical = [t \in Threads |-> FALSE]
  /\ handler = [t \in Threads |-> "out"]
  /\ pending = [t \in Threads |-> 0]
  /\ acks = 0
  /\ phase = "idle"
  /\ todo = {}
  /\ target = {}
  /\ nLive = 0
  /\ fault = "none"

(* The model stops at the first failed assertion. *)
In(p) == fault = "none" /\ phase = p

Ensure(ok, what) == fault' = IF ok THEN fault ELSE what

(* pthread_kill, retried for as long as the queue of signals is full       *)
(* (SIG_SUSPEND is a real-time signal: each one sent is delivered).        *)
SignalThread(t) ==
  /\ pending[t] < MaxPending
  /\ pending' = [pending EXCEPT ![t] = @ + 1]

SetState(t, s) == state' = [state EXCEPT ![t] = s]

------------------------------------------------------------------------------
(* StopWorld, called with activeMu locked.                                 *)

SuspendOthers ==
  /\ In("idle")
  /\ phase' = "stop"
  /\ todo' = ring
  /\ nLive' = 0
  /\ UNCHANGED <<useSignals, ring, state, threadVars, acks, target, fault>>

(* Ask every thread that runs to stop. *)
StopBySignal(t) ==
  /\ In("stop") /\ useSignals
  /\ t \in todo
  /\ Ensure(state[t] # "Starting", "act.state # Starting")
  /\ IF state[t] = "Started"
     THEN SetState(t, "Stopping") /\ SignalThread(t) /\ nLive' = nLive + 1
     ELSE UNCHANGED <<state, pending, nLive>>
  /\ todo' = todo \ {t}
  /\ UNCHANGED <<useSignals, ring, critical, handler, acks, phase, target>>

(* A suspended thread is let go again if it was in a critical section; the *)
(* loop over the threads then comes back to it, as it does, with nothing   *)
(* changed, if the system fails to suspend it.                             *)
StopThread(t) ==
  IF critical[t]
  THEN UNCHANGED <<state, handler, todo>>
  ELSE /\ SetState(t, "Stopped")
       /\ handler' = [handler EXCEPT ![t] = "suspended"]
       /\ todo' = todo \ {t}

StopDirectly(t) ==
  /\ In("stop") /\ ~useSignals
  /\ t \in todo
  /\ StopThread(t)
  /\ UNCHANGED <<useSignals, ring, critical, pending, acks, phase, target, nLive, fault>>

StopSent ==
  /\ In("stop")
  /\ todo = {}
  /\ phase' = IF nLive = 0 THEN "processing" ELSE "stopWait"
  /\ UNCHANGED <<useSignals, ring, state, threadVars, acks, todo, target, nLive, fault>>

(* Mutant: the acknowledgements are counted and left in the semaphore. *)
StopAcked_NoDrain ==
  /\ In("stopWait")
  /\ acks = nLive
  /\ phase' = "processing"
  /\ UNCHANGED <<useSignals, ring, state, threadVars, acks, todo, target, nLive, fault>>

(* All have acknowledged: drain the semaphore. *)
StopAcked ==
  /\ In("stopWait")
  /\ acks = nLive
  /\ acks' = acks - nLive
  /\ phase' = "processing"
  /\ UNCHANGED <<useSignals, ring, state, threadVars, todo, target, nLive, fault>>

(* wait_nsecs has run out with acknowledgements missing. *)
StopTimeout ==
  /\ In("stopWait")
  /\ acks # nLive
  /\ Ensure(acks < nLive, "acks < nLive")
  /\ phase' = "stopResend"
  /\ todo' = ring
  /\ UNCHANGED <<useSignals, ring, state, threadVars, acks, target, nLive>>

(* Mutant: a thread that refused to stop is not asked again. *)
StopResendTest_StoppingOnly(t) ==
  /\ In("stopResend")
  /\ t \in todo
  /\ Ensure(state[t] # "Starting", "act.state # Starting")
  /\ todo' = todo \ {t}
  /\ IF state[t] = "Stopping"
     THEN target' = {t} /\ phase' = "resendOne"
     ELSE UNCHANGED <<target, phase>>
  /\ UNCHANGED <<useSignals, ring, state, threadVars, acks, nLive>>

StopResendTest(t) ==
  /\ In("stopResend")
  /\ t \in todo
  /\ Ensure(state[t] # "Starting", "act.state # Starting")
  /\ todo' = todo \ {t}
  /\ IF state[t] # "Stopped"
     THEN target' = {t} /\ phase' = "resendOne"
     ELSE UNCHANGED <<target, phase>>
  /\ UNCHANGED <<useSignals, ring, state, threadVars, acks, nLive>>

(* The thread may have stopped since its state was tested. *)
StopResend(t) ==
  /\ In("resendOne")
  /\ t \in target
  /\ SetState(t, "Stopping")
  /\ SignalThread(t)
  /\ target' = {}
  /\ phase' = "stopResend"
  /\ UNCHANGED <<useSignals, ring, critical, handler, acks, todo, nLive, fault>>

StopResent ==
  /\ In("stopResend")
  /\ todo = {}
  /\ phase' = "stopWait"
  /\ UNCHANGED <<useSignals, ring, state, threadVars, acks, todo, target, nLive, fault>>

------------------------------------------------------------------------------
(* ProcessStacks, ResumeOthers and StartWorld.                             *)

ResumeOthers ==
  /\ In("processing")
  /\ Ensure(\A t \in ring : state[t] = "Stopped", "act.state = Stopped")
  /\ phase' = "start"
  /\ todo' = ring
  /\ nLive' = 0
  /\ UNCHANGED <<useSignals, ring, state, threadVars, acks, target>>

StartBySignal(t) ==
  /\ In("start") /\ useSignals
  /\ t \in todo
  /\ Ensure(state[t] # "Stopping", "act.state # Stopping")
  /\ IF state[t] # "Started"
     THEN SetState(t, "Starting") /\ SignalThread(t) /\ nLive' = nLive + 1
     ELSE UNCHANGED <<state, pending, nLive>>
  /\ todo' = todo \ {t}
  /\ UNCHANGED <<useSignals, ring, critical, handler, acks, phase, target>>

(* RestartThread succeeds; if not, the thread is Stopped still and the loop *)
(* comes back to it.                                                       *)
StartDirectly(t) ==
  /\ In("start") /\ ~useSignals
  /\ t \in todo
  /\ SetState(t, "Started")
  /\ handler' = [handler EXCEPT ![t] = "out"]
  /\ todo' = todo \ {t}
  /\ UNCHANGED <<useSignals, ring, critical, pending, acks, phase, target, nLive, fault>>

StartSent ==
  /\ In("start")
  /\ todo = {}
  /\ phase' = IF nLive = 0 THEN "idle" ELSE "startWait"
  /\ UNCHANGED <<useSignals, ring, state, threadVars, acks, todo, target, nLive, fault>>

StartAcked ==
  /\ In("startWait")
  /\ acks = nLive
  /\ acks' = acks - nLive
  /\ phase' = "idle"
  /\ UNCHANGED <<useSignals, ring, state, threadVars, todo, target, nLive, fault>>

StartTimeout ==
  /\ In("startWait")
  /\ acks # nLive
  /\ Ensure(acks < nLive, "acks < nDead")
  /\ phase' = "startResend"
  /\ todo' = ring
  /\ UNCHANGED <<useSignals, ring, state, threadVars, acks, target, nLive>>

StartResend(t) ==
  /\ In("startResend")
  /\ t \in todo
  /\ Ensure(state[t] # "Stopping", "act.state # Stopping")
  /\ IF state[t] # "Started" THEN SignalThread(t) ELSE UNCHANGED pending
  /\ todo' = todo \ {t}
  /\ UNCHANGED <<useSignals, ring, state, critical, handler, acks, phase, target, nLive>>

StartResent ==
  /\ In("startResend")
  /\ todo = {}
  /\ phase' = "startWait"
  /\ UNCHANGED <<useSignals, ring, state, threadVars, acks, todo, target, nLive, fault>>

------------------------------------------------------------------------------
(* SignalHandler.  The signal is blocked while it runs, except within      *)
(* sigsuspend, where another one starts a nested handler.                  *)

Deliver(t, where) ==
  /\ fault = "none"
  /\ handler[t] = where
  /\ pending[t] > 0
  /\ pending' = [pending EXCEPT ![t] = @ - 1]

EnterHandler(t) ==
  /\ Deliver(t, "out")
  /\ handler' = [handler EXCEPT ![t] = IF state[t] = "Stopping" THEN "entered" ELSE "out"]
  /\ UNCHANGED <<worldVars, state, critical, acks, fault>>

(* Mutant: the handler acknowledges although it carries on. *)
Refuse_Acks(t) ==
  /\ fault = "none"
  /\ handler[t] = "entered"
  /\ critical[t]
  /\ SetState(t, "Started")
  /\ handler' = [handler EXCEPT ![t] = "out"]
  /\ acks' = acks + 1
  /\ UNCHANGED <<worldVars, critical, pending, fault>>

(* In a critical section: carry on and let the collector ask again. *)
Refuse(t) ==
  /\ fault = "none"
  /\ handler[t] = "entered"
  /\ critical[t]
  /\ SetState(t, "Started")
  /\ handler' = [handler EXCEPT ![t] = "out"]
  /\ UNCHANGED <<worldVars, critical, pending, acks, fault>>

(* Mutant: the thread stops whatever it was doing. *)
Stop_Critical(t) ==
  /\ fault = "none"
  /\ handler[t] = "entered"
  /\ SetState(t, "Stopped")
  /\ handler' = [handler EXCEPT ![t] = "stopped"]
  /\ UNCHANGED <<worldVars, critical, pending, acks, fault>>

Stop(t) ==
  /\ fault = "none"
  /\ handler[t] = "entered"
  /\ ~critical[t]
  /\ SetState(t, "Stopped")
  /\ handler' = [handler EXCEPT ![t] = "stopped"]
  /\ UNCHANGED <<worldVars, critical, pending, acks, fault>>

PostStopped(t) ==
  /\ fault = "none"
  /\ handler[t] = "stopped"
  /\ handler' = [handler EXCEPT ![t] = "waiting"]
  /\ acks' = acks + 1
  /\ UNCHANGED <<worldVars, state, critical, pending, fault>>

(* Any signal ends sigsuspend, after its own run of the handler, which     *)
(* starts all over if it finds the thread asked to stop.                   *)
SigSuspendReturns(t) ==
  /\ Deliver(t, "waiting")
  /\ handler' = [handler EXCEPT ![t] = "woken"]
  /\ Ensure(state[t] # "Stopping", "me.stacks.context = NIL")
  /\ UNCHANGED <<worldVars, state, critical, acks>>

(* REPEAT sigsuspend() UNTIL me.state = Starting *)
Resume(t) ==
  /\ fault = "none"
  /\ handler[t] = "woken"
  /\ IF state[t] = "Starting"
     THEN SetState(t, "Started") /\ handler' = [handler EXCEPT ![t] = "resumed"]
     ELSE UNCHANGED state /\ handler' = [handler EXCEPT ![t] = "waiting"]
  /\ UNCHANGED <<worldVars, critical, pending, acks, fault>>

(* Mutant: the thread does not say that it runs again. *)
PostStarted_Not(t) ==
  /\ fault = "none"
  /\ handler[t] = "resumed"
  /\ handler' = [handler EXCEPT ![t] = "out"]
  /\ UNCHANGED <<worldVars, state, critical, pending, acks, fault>>

PostStarted(t) ==
  /\ fault = "none"
  /\ handler[t] = "resumed"
  /\ handler' = [handler EXCEPT ![t] = "out"]
  /\ acks' = acks + 1
  /\ UNCHANGED <<worldVars, state, critical, pending, fault>>

------------------------------------------------------------------------------
(* What the threads do meanwhile.                                          *)

(* INC and DEC of heapState.inCritical around allocation. *)
EnterCritical(t) ==
  /\ fault = "none" /\ t \in ring
  /\ handler[t] = "out" /\ ~critical[t]
  /\ critical' = [critical EXCEPT ![t] = TRUE]
  /\ UNCHANGED <<worldVars, state, handler, pending, acks, fault>>

LeaveCritical(t) ==
  /\ fault = "none"
  /\ handler[t] = "out" /\ critical[t]
  /\ critical' = [critical EXCEPT ![t] = FALSE]
  /\ UNCHANGED <<worldVars, state, handler, pending, acks, fault>>

(* ThreadBase puts a new thread on allThreads and takes a dying one off,   *)
(* with activeMu locked.                                                   *)
Enlist(t) ==
  /\ In("idle")
  /\ t \notin ring
  /\ ring' = ring \cup {t}
  /\ UNCHANGED <<useSignals, state, threadVars, acks, phase, todo, target, nLive, fault>>

Delist(t) ==
  /\ In("idle")
  /\ t \in ring
  /\ handler[t] = "out" /\ ~critical[t]
  /\ ring' = ring \ {t}
  /\ pending' = [pending EXCEPT ![t] = 0]
  /\ SetState(t, "Started")
  /\ UNCHANGED <<useSignals, critical, handler, acks, phase, todo, target, nLive, fault>>

Handler(t) ==
  \/ EnterHandler(t) \/ Refuse(t) \/ Stop(t) \/ PostStopped(t)
  \/ SigSuspendReturns(t) \/ Resume(t) \/ PostStarted(t)

Mutator(t) == EnterCritical(t) \/ LeaveCritical(t) \/ Enlist(t) \/ Delist(t)

StopWorld ==
  \/ StopSent \/ StopAcked \/ StopTimeout \/ StopResent
  \/ \E t \in Threads :
       StopBySignal(t) \/ StopDirectly(t) \/ StopResendTest(t) \/ StopResend(t)

StartWorld ==
  \/ StartSent \/ StartAcked \/ StartTimeout \/ StartResent
  \/ \E t \in Threads : StartBySignal(t) \/ StartDirectly(t) \/ StartResend(t)

Next ==
  \/ SuspendOthers \/ StopWorld \/ ResumeOthers \/ StartWorld
  \/ \E t \in Threads : Handler(t) \/ Mutator(t)

Spec == Init /\ [][Next]_vars

(* A thread that is being asked to stop, by a signal about to arrive. *)
Asked(t) == pending[t] > 0 /\ state[t] = "Stopping"

(* The collector and the handlers keep running; critical sections end, and *)
(* a thread that is asked to stop again and again is not caught inside one *)
(* every time.                                                             *)
Fairness ==
  /\ WF_vars(StopWorld) /\ WF_vars(ResumeOthers) /\ WF_vars(StartWorld)
  /\ \A t \in Threads :
       /\ WF_vars(Handler(t))
       /\ SF_vars(LeaveCritical(t))
       /\ SF_vars(Asked(t) /\ LeaveCritical(t))
       /\ SF_vars(Asked(t) /\ ~critical[t] /\ EnterHandler(t))
       /\ SF_vars(~critical[t] /\ StopDirectly(t))

FairSpec == Spec /\ Fairness

------------------------------------------------------------------------------
(* Properties.                                                             *)

Parked(t) == handler[t] \in {"waiting", "woken", "suspended"}

(* When SuspendOthers returns, no thread on allThreads runs, and none was  *)
(* stopped in the middle of a critical section: the collector may move     *)
(* objects and trust the allocation pools.                                 *)
WorldStopped ==
  phase = "processing" => \A t \in ring : Parked(t) /\ ~critical[t]

(* A thread that has told the collector to ask again is not parked.        *)
NotStoppedInCritical ==
  \A t \in Threads : handler[t] \notin {"out", "entered"} => ~critical[t]

(* Between two collections nothing is left over that would make the next   *)
(* StopWorld or StartWorld count wrongly: the semaphore is empty, no       *)
(* thread sits in the handler or is asked to stop.  (Signals may be left.) *)
CleanWhenIdle ==
  phase = "idle" =>
    /\ acks = 0
    /\ \A t \in Threads : state[t] = "Started" /\ handler[t] = "out"

(* The only assertions that can fail are those that find a thread's        *)
(* Stopped overwritten with Stopping by the re-sending loop of StopWorld,  *)
(* and where threads are suspended directly there is no such loop.         *)
OnlyResendRace ==
  fault # "none" =>
    useSignals /\ fault \in {"act.state = Stopped", "me.stacks.context = NIL"}

(* The collector does get the world to stop, and it does start again,      *)
(* whatever late acknowledgements and refusals make it ask once more.      *)
StopCompletes ==
  phase = "stop" ~> phase = "processing" \/ fault # "none"

StartCompletes ==
  phase = "start" ~> phase = "idle" \/ fault # "none"

SuspensionsEnd == StopCompletes /\ StartCompletes

------------------------------------------------------------------------------
(* The inductive invariant behind the safety properties.                   *)

StopPhases == {"stop", "stopWait", "stopResend", "resendOne"}
StartPhases == {"start", "startWait", "startResend"}

(* The threads the current StopWorld or StartWorld has asked so far. *)
Visited == IF phase \in {"stop", "start"} THEN ring \ todo ELSE ring

Quiet(t) == state[t] = "Started" /\ handler[t] = "out"

InSigSuspend(t) == handler[t] \in {"waiting", "woken"}

(* Asked to stop: on its way into the handler, or there and counted. *)
StoppingOK(t) ==
  \/ handler[t] = "out" /\ state[t] \in {"Started", "Stopping"} /\ useSignals
  \/ handler[t] = "entered" /\ state[t] = "Stopping"
  \/ (handler[t] = "stopped" \/ InSigSuspend(t)) /\ state[t] \in {"Stopped", "Stopping"}
  \/ handler[t] = "suspended" /\ state[t] = "Stopped"

(* Asked to start: not woken yet, or on its way out, or running. *)
StartingOK(t) ==
  \/ InSigSuspend(t) /\ state[t] = "Starting"
  \/ handler[t] = "resumed" /\ state[t] = "Started"
  \/ Quiet(t)

(* How a thread is suspended, and that it is outside critical sections. *)
MannerOK(t) ==
  /\ handler[t] = "suspended" => ~useSignals /\ state[t] = "Stopped"
  /\ handler[t] \notin {"out", "suspended"} \/ pending[t] > 0 => useSignals
  /\ handler[t] \notin {"out", "entered"} => ~critical[t]

ThreadOK(t) ==
  /\ t \notin ring \/ phase = "idle" => Quiet(t)
  /\ t \in ring /\ phase \in StopPhases =>
       IF t \in Visited THEN StoppingOK(t) ELSE Quiet(t)
  /\ t \in ring /\ phase = "processing" =>
       Parked(t) /\ state[t] \in {"Stopped", "Stopping"}
  /\ t \in ring /\ phase \in StartPhases /\ fault = "none" =>
       IF t \in Visited THEN StartingOK(t) ELSE Parked(t) /\ state[t] = "Stopped"

PhaseOK ==
  /\ phase \in {"idle", "processing", "stopWait", "startWait"} => todo = {}
  /\ phase # "resendOne" => target = {}
  /\ target \subseteq ring
  /\ phase \notin {"idle", "stop", "processing", "start"} => useSignals

(* The threads whose acknowledgement is, or was, in the semaphore. *)
Acknowledged == {t \in ring : InSigSuspend(t)}
Restarted == {t \in Visited : handler[t] = "out"}

CountsOK ==
  /\ phase \in {"idle", "processing"} => acks = 0
  /\ phase \in StopPhases =>
       /\ nLive = IF useSignals THEN Cardinality(Visited) ELSE 0
       /\ acks = Cardinality(Acknowledged)
  /\ phase \in StartPhases /\ fault = "none" =>
       /\ nLive = IF useSignals THEN Cardinality(Visited) ELSE 0
       /\ acks = IF useSignals THEN Cardinality(Restarted) ELSE 0

Inv ==
  /\ TypeOK
  /\ PhaseOK
  /\ \A t \in Threads : MannerOK(t) /\ ThreadOK(t)
  /\ CountsOK
  /\ OnlyResendRace
===============================================================================
