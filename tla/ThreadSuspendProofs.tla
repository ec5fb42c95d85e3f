-------------------------- MODULE ThreadSuspendProofs --------------------------
(***************************************************************************)
(* Proofs that the collector stops every other thread outside its critical *)
(* sections, for any number of threads.                                    *)
(*                                                                         *)
(* Inv is inductive.  The part that carries the counting is CountsOK: the  *)
(* semaphore holds as many acknowledgements as there are threads in        *)
(* sigsuspend (threads back out of the handler), and nLive counts the      *)
(* threads asked.  When the two agree the two sets are equal.              *)
(***************************************************************************)
EXTENDS ThreadSuspend, FiniteSetTheorems, TLAPS

(* A subset of a finite set that is as large as the set is all of it. *)
LEMMA AllCounted ==
  ASSUME NEW S, IsFiniteSet(S), NEW T \in SUBSET S,
         Cardinality(T) = Cardinality(S)
  PROVE  T = S
BY FS_Subset

(* The sets the semaphore counts are finite. *)
LEMMA CountedFinite ==
  ASSUME TypeOK
  PROVE  /\ IsFiniteSet(ring)
         /\ Visited \subseteq ring
         /\ IsFiniteSet(Visited)
         /\ Acknowledged \subseteq ring
         /\ IsFiniteSet(Acknowledged)
         /\ Restarted \subseteq Visited
         /\ IsFiniteSet(Restarted)
<1>1. IsFiniteSet(ring)
  BY FS_Subset, ThreadsAssumption DEF TypeOK
<1>2. Visited \subseteq ring
  BY DEF TypeOK, Visited
<1>3. IsFiniteSet(Visited)
  BY <1>1, <1>2, FS_Subset
<1>4. Acknowledged \subseteq ring
  BY DEF Acknowledged
<1>5. IsFiniteSet(Acknowledged)
  BY <1>1, <1>4, FS_Subset
<1>6. Restarted \subseteq Visited
  BY DEF Restarted
<1>. QED BY <1>1, <1>2, <1>3, <1>4, <1>5, <1>6, FS_Subset

(* The program starts with every thread running and nothing counted. *)
LEMMA InitInv == Init => Inv
<1>. SUFFICES ASSUME Init PROVE Inv
  OBVIOUS
<1>1. TypeOK
  BY PendingAssumption DEF Init, TypeOK, States
<1>2. PhaseOK
  BY DEF Init, PhaseOK
<1>3. ASSUME NEW t \in Threads PROVE MannerOK(t) /\ ThreadOK(t)
  BY DEF Init, MannerOK, ThreadOK, Quiet, StopPhases, StartPhases
<1>4. CountsOK /\ OnlyResendRace
  BY DEF Init, CountsOK, StopPhases, StartPhases, OnlyResendRace
<1>. QED BY <1>1, <1>2, <1>3, <1>4 DEF Inv

------------------------------------------------------------------------------
(* Steps of a thread, which leave the collector where it is.               *)

(* While the collector stands still, nothing changes for the threads that  *)
(* do not move.                                                            *)
LEMMA OthersStand ==
  ASSUME NEW t \in Threads, Inv, UNCHANGED worldVars, fault = "none",
         \A u \in Threads \ {t} :
           state'[u] = state[u] /\ handler'[u] = handler[u]
             /\ critical'[u] = critical[u] /\ pending'[u] = pending[u],
         MannerOK(t)' /\ ThreadOK(t)'
  PROVE  /\ PhaseOK'
         /\ \A u \in Threads : MannerOK(u)' /\ ThreadOK(u)'
<1>1. PhaseOK'
  BY DEF Inv, PhaseOK, worldVars
<1>2. Visited' = Visited
  BY DEF Visited, worldVars
<1>3. ASSUME NEW u \in Threads, u # t PROVE MannerOK(u)' /\ ThreadOK(u)'
  <2>1. MannerOK(u) /\ ThreadOK(u)
    BY DEF Inv
  <2>2. state'[u] = state[u] /\ handler'[u] = handler[u]
          /\ critical'[u] = critical[u] /\ pending'[u] = pending[u]
    BY <1>3
  <2>3. MannerOK(u)'
    BY <2>1, <2>2 DEF MannerOK, worldVars
  <2>4. ThreadOK(u)'
    BY <2>1, <2>2, <1>2 DEF ThreadOK, Quiet, Parked, StoppingOK, StartingOK,
      InSigSuspend, worldVars
  <2>. QED BY <2>3, <2>4
<1>. QED BY <1>1, <1>3

(* A signal arrives: the handler is entered only by a thread asked to stop. *)
LEMMA EnterHandlerInv ==
  ASSUME NEW t \in Threads, Inv, EnterHandler(t)
  PROVE  Inv'
<1>1. TypeOK /\ PhaseOK /\ CountsOK /\ OnlyResendRace /\ MannerOK(t) /\ ThreadOK(t)
  BY DEF Inv
<1>2. UNCHANGED worldVars /\ Visited' = Visited
  BY DEF EnterHandler, worldVars, Visited
<1>3. TypeOK'
  <2>1. pending[t] - 1 \in 0 .. MaxPending
    <3>1. pending[t] \in 0 .. MaxPending /\ pending[t] > 0
      BY <1>1 DEF EnterHandler, Deliver, TypeOK
    <3>. QED BY <3>1, PendingAssumption
  <2>2. pending' \in [Threads -> 0 .. MaxPending]
    BY <1>1, <2>1 DEF EnterHandler, Deliver, TypeOK
  <2>. QED BY <1>1, <2>2 DEF EnterHandler, Deliver, TypeOK, States, worldVars
<1>4. MannerOK(t)' /\ ThreadOK(t)'
  BY <1>1, <1>2 DEF EnterHandler, Deliver, worldVars,
    MannerOK, ThreadOK, Quiet, Parked, StoppingOK, StartingOK, InSigSuspend,
    StopPhases, StartPhases, TypeOK
<1>5. PhaseOK' /\ \A u \in Threads : MannerOK(u)' /\ ThreadOK(u)'
  <2>1. \A u \in Threads \ {t} :
           state'[u] = state[u] /\ handler'[u] = handler[u]
             /\ critical'[u] = critical[u] /\ pending'[u] = pending[u]
    BY <1>1 DEF EnterHandler, Deliver, TypeOK
  <2>. QED BY <2>1, <1>2, <1>4, OthersStand DEF EnterHandler, Deliver
<1>6. CountsOK'
  <2>1. Acknowledged' = Acknowledged
    BY <1>1, <1>2 DEF EnterHandler, Deliver, Acknowledged, InSigSuspend, worldVars, TypeOK
  <2>2. phase \in StartPhases /\ useSignals => Restarted' = Restarted
    BY <1>1, <1>2 DEF EnterHandler, Deliver, Restarted, StartPhases, StopPhases, ThreadOK, StartingOK,
      Quiet, Parked, InSigSuspend, worldVars, TypeOK, Visited
  <2>. QED BY <1>1, <1>2, <2>1, <2>2 DEF EnterHandler, Deliver, CountsOK, worldVars, StopPhases, StartPhases
<1>7. OnlyResendRace'
  BY <1>1 DEF EnterHandler, Deliver, OnlyResendRace, MannerOK, TypeOK
<1>. QED BY <1>3, <1>5, <1>6, <1>7 DEF Inv

(* A thread in a critical section carries on. *)
LEMMA RefuseInv ==
  ASSUME NEW t \in Threads, Inv, Refuse(t)
  PROVE  Inv'
<1>1. TypeOK /\ PhaseOK /\ CountsOK /\ OnlyResendRace /\ MannerOK(t) /\ ThreadOK(t)
  BY DEF Inv
<1>2. UNCHANGED worldVars /\ Visited' = Visited
  BY DEF Refuse, worldVars, Visited
<1>3. TypeOK'
  BY <1>1 DEF Refuse, SetState, TypeOK, States, worldVars
<1>4. MannerOK(t)' /\ ThreadOK(t)'
  BY <1>1, <1>2 DEF Refuse, SetState, worldVars,
    MannerOK, ThreadOK, Quiet, Parked, StoppingOK, StartingOK, InSigSuspend,
    StopPhases, StartPhases, TypeOK
<1>5. PhaseOK' /\ \A u \in Threads : MannerOK(u)' /\ ThreadOK(u)'
  <2>1. \A u \in Threads \ {t} :
           state'[u] = state[u] /\ handler'[u] = handler[u]
             /\ critical'[u] = critical[u] /\ pending'[u] = pending[u]
    BY <1>1 DEF Refuse, SetState, TypeOK
  <2>. QED BY <2>1, <1>2, <1>4, OthersStand DEF Refuse, SetState
<1>6. CountsOK'
  <2>1. Acknowledged' = Acknowledged
    BY <1>1, <1>2 DEF Refuse, SetState, Acknowledged, InSigSuspend, worldVars, TypeOK
  <2>2. phase \in StartPhases /\ useSignals => Restarted' = Restarted
    BY <1>1, <1>2 DEF Refuse, SetState, Restarted, StartPhases, StopPhases, ThreadOK, StartingOK,
      Quiet, Parked, InSigSuspend, worldVars, TypeOK, Visited
  <2>. QED BY <1>1, <1>2, <2>1, <2>2 DEF Refuse, SetState, CountsOK, worldVars, StopPhases, StartPhases
<1>7. OnlyResendRace'
  BY <1>1 DEF Refuse, SetState, OnlyResendRace, MannerOK, TypeOK
<1>. QED BY <1>3, <1>5, <1>6, <1>7 DEF Inv

(* A thread outside critical sections marks itself stopped. *)
LEMMA StopInv ==
  ASSUME NEW t \in Threads, Inv, Stop(t)
  PROVE  Inv'
<1>1. TypeOK /\ PhaseOK /\ CountsOK /\ OnlyResendRace /\ MannerOK(t) /\ ThreadOK(t)
  BY DEF Inv
<1>2. UNCHANGED worldVars /\ Visited' = Visited
  BY DEF Stop, worldVars, Visited
<1>3. TypeOK'
  BY <1>1 DEF Stop, SetState, TypeOK, States, worldVars
<1>4. MannerOK(t)' /\ ThreadOK(t)'
  BY <1>1, <1>2 DEF Stop, SetState, worldVars,
    MannerOK, ThreadOK, Quiet, Parked, StoppingOK, StartingOK, InSigSuspend,
    StopPhases, StartPhases, TypeOK
<1>5. PhaseOK' /\ \A u \in Threads : MannerOK(u)' /\ ThreadOK(u)'
  <2>1. \A u \in Threads \ {t} :
           state'[u] = state[u] /\ handler'[u] = handler[u]
             /\ critical'[u] = critical[u] /\ pending'[u] = pending[u]
    BY <1>1 DEF Stop, SetState, TypeOK
  <2>. QED BY <2>1, <1>2, <1>4, OthersStand DEF Stop, SetState
<1>6. CountsOK'
  <2>1. Acknowledged' = Acknowledged
    BY <1>1, <1>2 DEF Stop, SetState, Acknowledged, InSigSuspend, worldVars, TypeOK
  <2>2. phase \in StartPhases /\ useSignals => Restarted' = Restarted
    BY <1>1, <1>2 DEF Stop, SetState, Restarted, StartPhases, StopPhases, ThreadOK, StartingOK,
      Quiet, Parked, InSigSuspend, worldVars, TypeOK, Visited
  <2>. QED BY <1>1, <1>2, <2>1, <2>2 DEF Stop, SetState, CountsOK, worldVars, StopPhases, StartPhases
<1>7. OnlyResendRace'
  BY <1>1 DEF Stop, SetState, OnlyResendRace, MannerOK, TypeOK
<1>. QED BY <1>3, <1>5, <1>6, <1>7 DEF Inv

(* A signal ends sigsuspend; only the race leaves a failed assertion. *)
LEMMA SigSuspendReturnsInv ==
  ASSUME NEW t \in Threads, Inv, SigSuspendReturns(t)
  PROVE  Inv'
<1>1. TypeOK /\ PhaseOK /\ CountsOK /\ OnlyResendRace /\ MannerOK(t) /\ ThreadOK(t)
  BY DEF Inv
<1>2. UNCHANGED worldVars /\ Visited' = Visited
  BY DEF SigSuspendReturns, worldVars, Visited
<1>3. TypeOK'
  <2>1. pending[t] - 1 \in 0 .. MaxPending
    <3>1. pending[t] \in 0 .. MaxPending /\ pending[t] > 0
      BY <1>1 DEF SigSuspendReturns, Deliver, TypeOK
    <3>. QED BY <3>1, PendingAssumption
  <2>2. pending' \in [Threads -> 0 .. MaxPending]
    BY <1>1, <2>1 DEF SigSuspendReturns, Deliver, TypeOK
  <2>. QED BY <1>1, <2>2 DEF SigSuspendReturns, Deliver, Ensure, TypeOK, States, worldVars
<1>4. MannerOK(t)' /\ ThreadOK(t)'
  <2>1. handler[t] = "waiting" /\ handler'[t] = "woken" /\ pending[t] > 0
          /\ state' = state /\ critical' = critical /\ fault = "none"
    BY <1>1 DEF SigSuspendReturns, Deliver, TypeOK
  <2>. QED BY <1>1, <1>2, <2>1 DEF worldVars, MannerOK, ThreadOK, Quiet, Parked,
         StoppingOK, StartingOK, InSigSuspend
<1>5. PhaseOK' /\ \A u \in Threads : MannerOK(u)' /\ ThreadOK(u)'
  <2>1. \A u \in Threads \ {t} :
           state'[u] = state[u] /\ handler'[u] = handler[u]
             /\ critical'[u] = critical[u] /\ pending'[u] = pending[u]
    BY <1>1 DEF SigSuspendReturns, Deliver, Ensure, TypeOK
  <2>. QED BY <2>1, <1>2, <1>4, OthersStand DEF SigSuspendReturns, Deliver, Ensure
<1>6. CountsOK'
  <2>1. Acknowledged' = Acknowledged
    BY <1>1, <1>2 DEF SigSuspendReturns, Deliver, Ensure, Acknowledged, InSigSuspend, worldVars, TypeOK
  <2>2. phase \in StartPhases /\ useSignals => Restarted' = Restarted
    BY <1>1, <1>2 DEF SigSuspendReturns, Deliver, Ensure, Restarted, StartPhases, StopPhases, ThreadOK, StartingOK,
      Quiet, Parked, InSigSuspend, worldVars, TypeOK, Visited
  <2>3. acks' = acks /\ fault = "none" /\ UNCHANGED <<useSignals, phase, nLive>>
    BY <1>2 DEF SigSuspendReturns, Deliver, worldVars
  <2>. QED BY <1>1, <1>2, <2>1, <2>2, <2>3 DEF CountsOK, StopPhases, StartPhases
<1>7. OnlyResendRace'
  BY <1>1 DEF SigSuspendReturns, Deliver, Ensure, OnlyResendRace, MannerOK, TypeOK,
    worldVars
<1>. QED BY <1>3, <1>5, <1>6, <1>7 DEF Inv

(* A running thread enters a critical section. *)
LEMMA EnterCriticalInv ==
  ASSUME NEW t \in Threads, Inv, EnterCritical(t)
  PROVE  Inv'
<1>1. TypeOK /\ PhaseOK /\ CountsOK /\ OnlyResendRace /\ MannerOK(t) /\ ThreadOK(t)
  BY DEF Inv
<1>2. UNCHANGED worldVars /\ Visited' = Visited
  BY DEF EnterCritical, worldVars, Visited
<1>3. TypeOK'
  BY <1>1 DEF EnterCritical, TypeOK, States, worldVars
<1>4. MannerOK(t)' /\ ThreadOK(t)'
  BY <1>1, <1>2 DEF EnterCritical, worldVars,
    MannerOK, ThreadOK, Quiet, Parked, StoppingOK, StartingOK, InSigSuspend,
    StopPhases, StartPhases, TypeOK
<1>5. PhaseOK' /\ \A u \in Threads : MannerOK(u)' /\ ThreadOK(u)'
  <2>1. \A u \in Threads \ {t} :
           state'[u] = state[u] /\ handler'[u] = handler[u]
             /\ critical'[u] = critical[u] /\ pending'[u] = pending[u]
    BY <1>1 DEF EnterCritical, TypeOK
  <2>. QED BY <2>1, <1>2, <1>4, OthersStand DEF EnterCritical
<1>6. CountsOK'
  <2>1. Acknowledged' = Acknowledged
    BY <1>1, <1>2 DEF EnterCritical, Acknowledged, InSigSuspend, worldVars, TypeOK
  <2>2. phase \in StartPhases /\ useSignals => Restarted' = Restarted
    BY <1>1, <1>2 DEF EnterCritical, Restarted, StartPhases, StopPhases, ThreadOK, StartingOK,
      Quiet, Parked, InSigSuspend, worldVars, TypeOK, Visited
  <2>. QED BY <1>1, <1>2, <2>1, <2>2 DEF EnterCritical, CountsOK, worldVars, StopPhases, StartPhases
<1>7. OnlyResendRace'
  BY <1>1 DEF EnterCritical, OnlyResendRace, MannerOK, TypeOK
<1>. QED BY <1>3, <1>5, <1>6, <1>7 DEF Inv

(* A running thread leaves its critical section. *)
LEMMA LeaveCriticalInv ==
  ASSUME NEW t \in Threads, Inv, LeaveCritical(t)
  PROVE  Inv'
<1>1. TypeOK /\ PhaseOK /\ CountsOK /\ OnlyResendRace /\ MannerOK(t) /\ ThreadOK(t)
  BY DEF Inv
<1>2. UNCHANGED worldVars /\ Visited' = Visited
  BY DEF LeaveCritical, worldVars, Visited
<1>3. TypeOK'
  BY <1>1 DEF LeaveCritical, TypeOK, States, worldVars
<1>4. MannerOK(t)' /\ ThreadOK(t)'
  BY <1>1, <1>2 DEF LeaveCritical, worldVars,
    MannerOK, ThreadOK, Quiet, Parked, StoppingOK, StartingOK, InSigSuspend,
    StopPhases, StartPhases, TypeOK
<1>5. PhaseOK' /\ \A u \in Threads : MannerOK(u)' /\ ThreadOK(u)'
  <2>1. \A u \in Threads \ {t} :
           state'[u] = state[u] /\ handler'[u] = handler[u]
             /\ critical'[u] = critical[u] /\ pending'[u] = pending[u]
    BY <1>1 DEF LeaveCritical, TypeOK
  <2>. QED BY <2>1, <1>2, <1>4, OthersStand DEF LeaveCritical
<1>6. CountsOK'
  <2>1. Acknowledged' = Acknowledged
    BY <1>1, <1>2 DEF LeaveCritical, Acknowledged, InSigSuspend, worldVars, TypeOK
  <2>2. phase \in StartPhases /\ useSignals => Restarted' = Restarted
    BY <1>1, <1>2 DEF LeaveCritical, Restarted, StartPhases, StopPhases, ThreadOK, StartingOK,
      Quiet, Parked, InSigSuspend, worldVars, TypeOK, Visited
  <2>. QED BY <1>1, <1>2, <2>1, <2>2 DEF LeaveCritical, CountsOK, worldVars, StopPhases, StartPhases
<1>7. OnlyResendRace'
  BY <1>1 DEF LeaveCritical, OnlyResendRace, MannerOK, TypeOK
<1>. QED BY <1>3, <1>5, <1>6, <1>7 DEF Inv

(* A stopped thread is counted as it reaches sigsuspend. *)
LEMMA PostStoppedInv ==
  ASSUME NEW t \in Threads, Inv, PostStopped(t)
  PROVE  Inv'
<1>1. TypeOK /\ PhaseOK /\ CountsOK /\ OnlyResendRace /\ MannerOK(t) /\ ThreadOK(t)
  BY DEF Inv
<1>2. UNCHANGED worldVars /\ Visited' = Visited
  BY DEF PostStopped, worldVars, Visited
<1>3. TypeOK'
  BY <1>1 DEF PostStopped, TypeOK, States, worldVars
<1>4. MannerOK(t)' /\ ThreadOK(t)'
  BY <1>1, <1>2 DEF PostStopped, worldVars,
    MannerOK, ThreadOK, Quiet, Parked, StoppingOK, StartingOK, InSigSuspend,
    StopPhases, StartPhases, TypeOK
<1>5. PhaseOK' /\ \A u \in Threads : MannerOK(u)' /\ ThreadOK(u)'
  <2>1. \A u \in Threads \ {t} :
           state'[u] = state[u] /\ handler'[u] = handler[u]
             /\ critical'[u] = critical[u] /\ pending'[u] = pending[u]
    BY <1>1 DEF PostStopped, TypeOK
  <2>. QED BY <2>1, <1>2, <1>4, OthersStand DEF PostStopped
<1>6. CountsOK'
  <2>1. phase \in StopPhases
    BY <1>1 DEF PostStopped, ThreadOK, TypeOK, Quiet, Parked, StartingOK, InSigSuspend,
      StopPhases, StartPhases
  <2>2. t \in ring
    BY <1>1 DEF PostStopped, ThreadOK, Quiet
  <2>3. Acknowledged' = Acknowledged \cup {t} /\ t \notin Acknowledged
    BY <1>1, <2>2 DEF PostStopped, Acknowledged, InSigSuspend, worldVars, TypeOK
  <2>4. Cardinality(Acknowledged') = Cardinality(Acknowledged) + 1
    BY <1>1, <2>3, CountedFinite, FS_AddElement
  <2>. QED BY <1>1, <1>2, <2>1, <2>4 DEF PostStopped, CountsOK, worldVars, StopPhases, StartPhases
<1>7. OnlyResendRace'
  BY <1>1 DEF PostStopped, OnlyResendRace, MannerOK, TypeOK
<1>. QED BY <1>3, <1>5, <1>6, <1>7 DEF Inv

(* A thread woken in sigsuspend leaves it if the collector has asked it to. *)
LEMMA ResumeInv ==
  ASSUME NEW t \in Threads, Inv, Resume(t)
  PROVE  Inv'
<1>1. TypeOK /\ PhaseOK /\ CountsOK /\ OnlyResendRace /\ MannerOK(t) /\ ThreadOK(t)
  BY DEF Inv
<1>2. UNCHANGED worldVars /\ Visited' = Visited
  BY DEF Resume, worldVars, Visited
<1>3. TypeOK'
  BY <1>1 DEF Resume, SetState, TypeOK, States, worldVars
<1>4. MannerOK(t)' /\ ThreadOK(t)'
  BY <1>1, <1>2 DEF Resume, SetState, worldVars,
    MannerOK, ThreadOK, Quiet, Parked, StoppingOK, StartingOK, InSigSuspend,
    StopPhases, StartPhases, TypeOK
<1>5. PhaseOK' /\ \A u \in Threads : MannerOK(u)' /\ ThreadOK(u)'
  <2>1. \A u \in Threads \ {t} :
           state'[u] = state[u] /\ handler'[u] = handler[u]
             /\ critical'[u] = critical[u] /\ pending'[u] = pending[u]
    BY <1>1 DEF Resume, SetState, TypeOK
  <2>. QED BY <2>1, <1>2, <1>4, OthersStand DEF Resume, SetState
<1>6. CountsOK'
  <2>1. phase \in StopPhases => Acknowledged' = Acknowledged
    BY <1>1, <1>2 DEF Resume, SetState, Acknowledged, ThreadOK, Quiet, StoppingOK,
      InSigSuspend, StopPhases, worldVars, TypeOK, Visited
  <2>2. Restarted' = Restarted
    BY <1>1, <1>2 DEF Resume, SetState, Restarted, worldVars, TypeOK, Visited
  <2>. QED BY <1>1, <1>2, <2>1, <2>2 DEF Resume, CountsOK, worldVars, StopPhases, StartPhases
<1>7. OnlyResendRace'
  BY <1>1 DEF Resume, SetState, OnlyResendRace, MannerOK, TypeOK
<1>. QED BY <1>3, <1>5, <1>6, <1>7 DEF Inv

(* A thread is counted as it leaves the handler. *)
LEMMA PostStartedInv ==
  ASSUME NEW t \in Threads, Inv, PostStarted(t)
  PROVE  Inv'
<1>1. TypeOK /\ PhaseOK /\ CountsOK /\ OnlyResendRace /\ MannerOK(t) /\ ThreadOK(t)
  BY DEF Inv
<1>2. UNCHANGED worldVars /\ Visited' = Visited
  BY DEF PostStarted, worldVars, Visited
<1>3. TypeOK'
  BY <1>1 DEF PostStarted, TypeOK, States, worldVars
<1>4. MannerOK(t)' /\ ThreadOK(t)'
  BY <1>1, <1>2 DEF PostStarted, worldVars,
    MannerOK, ThreadOK, Quiet, Parked, StoppingOK, StartingOK, InSigSuspend,
    StopPhases, StartPhases, TypeOK
<1>5. PhaseOK' /\ \A u \in Threads : MannerOK(u)' /\ ThreadOK(u)'
  <2>1. \A u \in Threads \ {t} :
           state'[u] = state[u] /\ handler'[u] = handler[u]
             /\ critical'[u] = critical[u] /\ pending'[u] = pending[u]
    BY <1>1 DEF PostStarted, TypeOK
  <2>. QED BY <2>1, <1>2, <1>4, OthersStand DEF PostStarted
<1>6. CountsOK'
  <2>1. phase \in StartPhases /\ useSignals
    BY <1>1 DEF PostStarted, ThreadOK, MannerOK, TypeOK, Quiet, Parked, StoppingOK,
      InSigSuspend, StopPhases, StartPhases
  <2>2. t \in Visited
    BY <1>1, <2>1 DEF PostStarted, ThreadOK, Quiet, Parked, Visited
  <2>3. Restarted' = Restarted \cup {t} /\ t \notin Restarted
    BY <1>1, <1>2, <2>2 DEF PostStarted, Restarted, worldVars, TypeOK, Visited
  <2>4. Cardinality(Restarted') = Cardinality(Restarted) + 1
    BY <1>1, <2>3, CountedFinite, FS_AddElement
  <2>. QED BY <1>1, <1>2, <2>1, <2>4 DEF PostStarted, CountsOK, worldVars, StopPhases, StartPhases
<1>7. OnlyResendRace'
  BY <1>1 DEF PostStarted, OnlyResendRace, MannerOK, TypeOK
<1>. QED BY <1>3, <1>5, <1>6, <1>7 DEF Inv

------------------------------------------------------------------------------
(* Steps of the collector that visit no thread.                            *)

(* When no thread moves, what is said of each of them is for the collector *)
(* to keep true.                                                           *)
LEMMA MannerStands ==
  ASSUME Inv, UNCHANGED <<useSignals, state, threadVars>>
  PROVE  \A t \in Threads : MannerOK(t)'
BY DEF Inv, MannerOK, threadVars

(* SuspendOthers starts from a quiet world with nothing counted. *)
LEMMA SuspendOthersInv == Inv /\ SuspendOthers => Inv'
<1>. SUFFICES ASSUME Inv, SuspendOthers PROVE Inv'
  OBVIOUS
<1>1. TypeOK /\ PhaseOK /\ CountsOK /\ OnlyResendRace
  BY DEF Inv
<1>2. TypeOK' /\ PhaseOK' /\ OnlyResendRace'
  BY <1>1 DEF SuspendOthers, In, TypeOK, States, PhaseOK, OnlyResendRace, threadVars
<1>3. ASSUME NEW t \in Threads PROVE ThreadOK(t)'
  <2>1. ThreadOK(t)
    BY DEF Inv
  <2>. QED BY <2>1 DEF SuspendOthers, In, ThreadOK, Quiet, Visited, StopPhases, StartPhases,
         threadVars
<1>4. CountsOK'
  <2>1. Visited' = {}
    BY DEF SuspendOthers, Visited
  <2>2. \A t \in ring : Quiet(t)
    BY <1>1 DEF Inv, SuspendOthers, In, ThreadOK, TypeOK
  <2>3. Acknowledged' = {}
    BY <2>2 DEF SuspendOthers, Acknowledged, Quiet, InSigSuspend, threadVars
  <2>. QED BY <1>1, <2>1, <2>3, FS_EmptySet DEF SuspendOthers, In, CountsOK, StopPhases,
         StartPhases
<1>5. \A t \in Threads : MannerOK(t)'
  BY MannerStands DEF SuspendOthers
<1>. QED BY <1>2, <1>3, <1>4, <1>5 DEF Inv

(* All threads are asked; without any there is nothing to wait for. *)
LEMMA StopSentInv == Inv /\ StopSent => Inv'
<1>. SUFFICES ASSUME Inv, StopSent PROVE Inv'
  OBVIOUS
<1>1. TypeOK /\ PhaseOK /\ CountsOK /\ OnlyResendRace
  BY DEF Inv
<1>2. Visited = ring /\ Visited' = ring /\ Acknowledged' = Acknowledged
  BY <1>1 DEF StopSent, In, Visited, Acknowledged, InSigSuspend, TypeOK, threadVars
<1>3. nLive = 0 /\ useSignals => ring = {}
  <2>1. useSignals => nLive = Cardinality(ring)
    BY <1>1, <1>2 DEF StopSent, In, CountsOK, StopPhases
  <2>. QED BY <1>1, <2>1, CountedFinite, FS_EmptySet
<1>4. useSignals \/ nLive = 0
  BY <1>1 DEF StopSent, In, CountsOK, StopPhases
<1>5. TypeOK' /\ PhaseOK' /\ OnlyResendRace'
  BY <1>1, <1>4 DEF StopSent, In, TypeOK, States, PhaseOK, OnlyResendRace, threadVars
<1>6. ASSUME NEW t \in Threads PROVE ThreadOK(t)'
  <2>1. ThreadOK(t) /\ MannerOK(t)
    BY DEF Inv
  <2>. QED BY <1>1, <1>2, <1>3, <2>1 DEF StopSent, In, ThreadOK, MannerOK, StoppingOK, Parked,
         Quiet, InSigSuspend, StopPhases, StartPhases, threadVars, TypeOK
<1>7. CountsOK'
  <2>1. nLive = 0 => Acknowledged = {}
    BY <1>1, <1>3 DEF Inv, MannerOK, Acknowledged, InSigSuspend, TypeOK
  <2>2. nLive = 0 => acks = 0
    BY <1>1, <2>1, FS_EmptySet DEF CountsOK, StopSent, In, StopPhases
  <2>. QED BY <1>1, <1>2, <2>2 DEF StopSent, In, CountsOK, StopPhases, StartPhases
<1>8. \A t \in Threads : MannerOK(t)'
  BY MannerStands DEF StopSent
<1>. QED BY <1>5, <1>6, <1>7, <1>8 DEF Inv

(* As many acknowledgements as threads: every one of them is parked. *)
LEMMA StopAckedInv == Inv /\ StopAcked => Inv'
<1>. SUFFICES ASSUME Inv, StopAcked PROVE Inv'
  OBVIOUS
<1>1. TypeOK /\ PhaseOK /\ CountsOK /\ OnlyResendRace
  BY DEF Inv
<1>2. acks = Cardinality(Acknowledged) /\ nLive = Cardinality(ring)
  BY <1>1 DEF StopAcked, In, PhaseOK, CountsOK, StopPhases, Visited
<1>3. Acknowledged = ring
  <2>1. IsFiniteSet(ring) /\ Acknowledged \in SUBSET ring
    BY <1>1, CountedFinite
  <2>2. Cardinality(Acknowledged) = Cardinality(ring)
    BY <1>2 DEF StopAcked
  <2>. QED BY <2>1, <2>2, AllCounted
<1>4. TypeOK' /\ PhaseOK' /\ OnlyResendRace' /\ CountsOK'
  BY <1>1 DEF StopAcked, In, TypeOK, States, PhaseOK, OnlyResendRace, CountsOK, threadVars,
    StopPhases, StartPhases
<1>5. ASSUME NEW t \in Threads PROVE ThreadOK(t)'
  <2>1. ThreadOK(t) /\ (t \in ring => InSigSuspend(t))
    BY <1>3 DEF Inv, Acknowledged
  <2>. QED BY <2>1 DEF StopAcked, In, ThreadOK, Visited, StoppingOK, Parked, Quiet,
         InSigSuspend, StopPhases, StartPhases, threadVars
<1>6. \A t \in Threads : MannerOK(t)'
  BY MannerStands DEF StopAcked
<1>. QED BY <1>4, <1>5, <1>6 DEF Inv

(* wait_nsecs has run out: the count is still below nLive. *)
LEMMA StopTimeoutInv == Inv /\ StopTimeout => Inv'
<1>. SUFFICES ASSUME Inv, StopTimeout PROVE Inv'
  OBVIOUS
<1>1. TypeOK /\ PhaseOK /\ CountsOK /\ OnlyResendRace
  BY DEF Inv
<1>2. acks < nLive
  <2>1. acks = Cardinality(Acknowledged) /\ nLive = Cardinality(ring)
    BY <1>1 DEF StopTimeout, In, PhaseOK, CountsOK, StopPhases, Visited
  <2>2. Cardinality(Acknowledged) <= Cardinality(ring)
    BY <1>1, CountedFinite, FS_Subset
  <2>3. acks \in Nat /\ nLive \in Nat /\ acks # nLive
    BY <1>1 DEF StopTimeout, TypeOK
  <2>. QED BY <2>1, <2>2, <2>3
<1>3. fault' = fault
  BY <1>2 DEF StopTimeout, Ensure
<1>4. Visited' = Visited /\ Acknowledged' = Acknowledged
  BY DEF StopTimeout, In, Visited, Acknowledged, InSigSuspend, threadVars
<1>5. TypeOK' /\ PhaseOK' /\ OnlyResendRace' /\ CountsOK'
  BY <1>1, <1>3, <1>4 DEF StopTimeout, In, TypeOK, States, PhaseOK, OnlyResendRace, CountsOK,
    threadVars, StopPhases, StartPhases
<1>6. ASSUME NEW t \in Threads PROVE ThreadOK(t)'
  <2>1. ThreadOK(t)
    BY DEF Inv
  <2>. QED BY <2>1, <1>3, <1>4 DEF StopTimeout, In, ThreadOK, StoppingOK, Parked, Quiet,
         InSigSuspend, StopPhases, StartPhases, threadVars
<1>7. \A t \in Threads : MannerOK(t)'
  BY MannerStands DEF StopTimeout
<1>. QED BY <1>5, <1>6, <1>7 DEF Inv

(* The re-sending loop is through. *)
LEMMA StopResentInv == Inv /\ StopResent => Inv'
<1>. SUFFICES ASSUME Inv, StopResent PROVE Inv'
  OBVIOUS
<1>1. TypeOK /\ PhaseOK /\ CountsOK /\ OnlyResendRace
  BY DEF Inv
<1>2. Visited' = Visited /\ Acknowledged' = Acknowledged
  BY DEF StopResent, In, Visited, Acknowledged, InSigSuspend, threadVars
<1>3. TypeOK' /\ PhaseOK' /\ OnlyResendRace' /\ CountsOK'
  BY <1>1, <1>2 DEF StopResent, In, TypeOK, States, PhaseOK, OnlyResendRace, CountsOK,
    threadVars, StopPhases, StartPhases
<1>4. ASSUME NEW t \in Threads PROVE ThreadOK(t)'
  <2>1. ThreadOK(t)
    BY DEF Inv
  <2>. QED BY <2>1, <1>2 DEF StopResent, In, ThreadOK, StoppingOK, Parked, Quiet,
         InSigSuspend, StopPhases, StartPhases, threadVars
<1>5. \A t \in Threads : MannerOK(t)'
  BY MannerStands DEF StopResent
<1>. QED BY <1>3, <1>4, <1>5 DEF Inv

(* ResumeOthers: the assertion of ProcessOther holds unless the race has   *)
(* struck, and then the model stops.                                       *)
LEMMA ResumeOthersInv == Inv /\ ResumeOthers => Inv'
<1>. SUFFICES ASSUME Inv, ResumeOthers PROVE Inv'
  OBVIOUS
<1>1. TypeOK /\ PhaseOK /\ CountsOK /\ OnlyResendRace
  BY DEF Inv
<1>2. TypeOK' /\ PhaseOK'
  BY <1>1 DEF ResumeOthers, In, Ensure, TypeOK, States, PhaseOK, threadVars
<1>3. OnlyResendRace'
  <2>1. CASE useSignals
    BY <2>1, <1>1 DEF ResumeOthers, In, Ensure, OnlyResendRace
  <2>2. CASE ~useSignals
    <3>1. \A t \in ring : state[t] = "Stopped"
      BY <1>1, <2>2 DEF Inv, ResumeOthers, In, ThreadOK, MannerOK, Parked, TypeOK
    <3>. QED BY <3>1, <1>1 DEF ResumeOthers, In, Ensure, OnlyResendRace
  <2>. QED BY <2>1, <2>2
<1>4. Visited' = {}
  BY DEF ResumeOthers, Visited
<1>5. CountsOK'
  <2>1. Restarted' = {}
    BY <1>4 DEF Restarted
  <2>. QED BY <1>1, <1>4, <2>1, FS_EmptySet DEF ResumeOthers, In, CountsOK, StopPhases,
         StartPhases
<1>6. ASSUME NEW t \in Threads PROVE ThreadOK(t)'
  <2>1. ThreadOK(t)
    BY DEF Inv
  <2>2. fault' = "none" /\ t \in ring => state[t] = "Stopped"
    BY DEF ResumeOthers, In, Ensure
  <2>. QED BY <2>1, <2>2, <1>4 DEF ResumeOthers, In, ThreadOK, Parked, Quiet,
         StopPhases, StartPhases, threadVars
<1>7. \A t \in Threads : MannerOK(t)'
  BY MannerStands DEF ResumeOthers
<1>. QED BY <1>2, <1>3, <1>5, <1>6, <1>7 DEF Inv

(* Every thread has been asked to start. *)
LEMMA StartSentInv == Inv /\ StartSent => Inv'
<1>. SUFFICES ASSUME Inv, StartSent PROVE Inv'
  OBVIOUS
<1>1. TypeOK /\ PhaseOK /\ CountsOK /\ OnlyResendRace
  BY DEF Inv
<1>2. Visited = ring /\ Visited' = ring /\ Restarted' = Restarted
  BY <1>1 DEF StartSent, In, Visited, Restarted, TypeOK, threadVars
<1>3. nLive = 0 /\ useSignals => ring = {} /\ acks = 0
  <2>1. useSignals => nLive = Cardinality(ring) /\ acks = Cardinality(Restarted)
    BY <1>1, <1>2 DEF StartSent, In, CountsOK, StartPhases
  <2>2. nLive = 0 /\ useSignals => ring = {}
    BY <1>1, <2>1, CountedFinite, FS_EmptySet
  <2>3. ring = {} => Restarted = {}
    BY <1>2 DEF Restarted
  <2>. QED BY <2>1, <2>2, <2>3, FS_EmptySet
<1>4. ~useSignals => nLive = 0 /\ acks = 0
  BY <1>1 DEF StartSent, In, CountsOK, StartPhases
<1>5. TypeOK' /\ PhaseOK' /\ OnlyResendRace'
  BY <1>1, <1>4 DEF StartSent, In, TypeOK, States, PhaseOK, OnlyResendRace, threadVars
<1>6. ASSUME NEW t \in Threads PROVE ThreadOK(t)'
  <2>1. ThreadOK(t) /\ MannerOK(t)
    BY DEF Inv
  <2>. QED BY <1>2, <1>3, <1>4, <2>1 DEF StartSent, In, ThreadOK, MannerOK, StartingOK,
         Quiet, InSigSuspend, StopPhases, StartPhases, threadVars
<1>7. CountsOK'
  BY <1>1, <1>2, <1>3, <1>4 DEF StartSent, In, CountsOK, StopPhases, StartPhases
<1>8. \A t \in Threads : MannerOK(t)'
  BY MannerStands DEF StartSent
<1>. QED BY <1>5, <1>6, <1>7, <1>8 DEF Inv

(* As many acknowledgements as threads: every one of them runs again. *)
LEMMA StartAckedInv == Inv /\ StartAcked => Inv'
<1>. SUFFICES ASSUME Inv, StartAcked PROVE Inv'
  OBVIOUS
<1>1. TypeOK /\ PhaseOK /\ CountsOK /\ OnlyResendRace
  BY DEF Inv
<1>2. Visited = ring /\ acks = Cardinality(Restarted) /\ nLive = Cardinality(ring)
  BY <1>1 DEF StartAcked, In, PhaseOK, CountsOK, StartPhases, Visited
<1>3. Restarted = ring
  <2>1. IsFiniteSet(ring) /\ Restarted \in SUBSET ring
    BY <1>1, <1>2, CountedFinite
  <2>2. Cardinality(Restarted) = Cardinality(ring)
    BY <1>2 DEF StartAcked
  <2>. QED BY <2>1, <2>2, AllCounted
<1>4. TypeOK' /\ PhaseOK' /\ OnlyResendRace' /\ CountsOK'
  BY <1>1 DEF StartAcked, In, TypeOK, States, PhaseOK, OnlyResendRace, CountsOK, threadVars,
    StopPhases, StartPhases
<1>5. ASSUME NEW t \in Threads PROVE ThreadOK(t)'
  <2>1. ThreadOK(t) /\ (t \in ring => handler[t] = "out")
    BY <1>3 DEF Inv, Restarted
  <2>. QED BY <2>1, <1>2 DEF StartAcked, In, ThreadOK, StartingOK, Quiet,
         InSigSuspend, StopPhases, StartPhases, threadVars
<1>6. \A t \in Threads : MannerOK(t)'
  BY MannerStands DEF StartAcked
<1>. QED BY <1>4, <1>5, <1>6 DEF Inv

(* wait_nsecs has run out: the count is still below nDead. *)
LEMMA StartTimeoutInv == Inv /\ StartTimeout => Inv'
<1>. SUFFICES ASSUME Inv, StartTimeout PROVE Inv'
  OBVIOUS
<1>1. TypeOK /\ PhaseOK /\ CountsOK /\ OnlyResendRace
  BY DEF Inv
<1>2. acks < nLive
  <2>1. Visited = ring /\ acks = Cardinality(Restarted) /\ nLive = Cardinality(ring)
    BY <1>1 DEF StartTimeout, In, PhaseOK, CountsOK, StartPhases, Visited
  <2>2. Cardinality(Restarted) <= Cardinality(ring)
    BY <1>1, <2>1, CountedFinite, FS_Subset
  <2>3. acks \in Nat /\ nLive \in Nat /\ acks # nLive
    BY <1>1 DEF StartTimeout, TypeOK
  <2>. QED BY <2>1, <2>2, <2>3
<1>3. fault' = fault
  BY <1>2 DEF StartTimeout, Ensure
<1>4. Visited' = Visited /\ Restarted' = Restarted
  BY DEF StartTimeout, In, Visited, Restarted, threadVars
<1>5. TypeOK' /\ PhaseOK' /\ OnlyResendRace' /\ CountsOK'
  BY <1>1, <1>3, <1>4 DEF StartTimeout, In, TypeOK, States, PhaseOK, OnlyResendRace, CountsOK,
    threadVars, StopPhases, StartPhases
<1>6. ASSUME NEW t \in Threads PROVE ThreadOK(t)'
  <2>1. ThreadOK(t)
    BY DEF Inv
  <2>. QED BY <2>1, <1>3, <1>4 DEF StartTimeout, In, ThreadOK, StartingOK, Parked,
         Quiet, InSigSuspend, StopPhases, StartPhases, threadVars
<1>7. \A t \in Threads : MannerOK(t)'
  BY MannerStands DEF StartTimeout
<1>. QED BY <1>5, <1>6, <1>7 DEF Inv

(* The re-sending loop of StartWorld is through. *)
LEMMA StartResentInv == Inv /\ StartResent => Inv'
<1>. SUFFICES ASSUME Inv, StartResent PROVE Inv'
  OBVIOUS
<1>1. TypeOK /\ PhaseOK /\ CountsOK /\ OnlyResendRace
  BY DEF Inv
<1>2. Visited' = Visited /\ Restarted' = Restarted
  BY DEF StartResent, In, Visited, Restarted, threadVars
<1>3. TypeOK' /\ PhaseOK' /\ OnlyResendRace' /\ CountsOK'
  BY <1>1, <1>2 DEF StartResent, In, TypeOK, States, PhaseOK, OnlyResendRace, CountsOK,
    threadVars, StopPhases, StartPhases
<1>4. ASSUME NEW t \in Threads PROVE ThreadOK(t)'
  <2>1. ThreadOK(t)
    BY DEF Inv
  <2>. QED BY <2>1, <1>2 DEF StartResent, In, ThreadOK, StartingOK, Parked,
         Quiet, InSigSuspend, StopPhases, StartPhases, threadVars
<1>5. \A t \in Threads : MannerOK(t)'
  BY MannerStands DEF StartResent
<1>. QED BY <1>3, <1>4, <1>5 DEF Inv

------------------------------------------------------------------------------
(* Steps of the collector that visit one thread.                           *)

(* A thread is asked to stop, and counted. *)
LEMMA StopBySignalInv ==
  ASSUME NEW t \in Threads, Inv, StopBySignal(t)
  PROVE  Inv'
<1>1. TypeOK /\ PhaseOK /\ CountsOK /\ OnlyResendRace
  BY DEF Inv
<1>2. t \in ring /\ t \notin Visited /\ MannerOK(t) /\ Quiet(t)
  BY <1>1 DEF Inv, StopBySignal, In, TypeOK, Visited, ThreadOK, StopPhases
<1>3. state' = [state EXCEPT ![t] = "Stopping"] /\ pending' = [pending EXCEPT ![t] = @ + 1]
        /\ nLive' = nLive + 1 /\ fault' = fault /\ pending[t] < MaxPending
  BY <1>2 DEF StopBySignal, Quiet, Ensure, SetState, SignalThread
<1>4. Visited' = Visited \cup {t}
  BY <1>1, <1>2 DEF StopBySignal, In, Visited
<1>5. TypeOK'
  <2>1. pending[t] + 1 \in 0 .. MaxPending
    <3>1. pending[t] \in 0 .. MaxPending
      BY <1>1 DEF TypeOK
    <3>. QED BY <1>3, <3>1, PendingAssumption
  <2>2. pending' \in [Threads -> 0 .. MaxPending]
    BY <1>1, <1>3, <2>1 DEF TypeOK
  <2>3. state' \in [Threads -> States] /\ nLive' \in Nat
    <3>1. state \in [Threads -> States] /\ nLive \in Nat
      BY <1>1 DEF TypeOK
    <3>2. state' \in [Threads -> States]
      BY <1>3, <3>1 DEF States
    <3>. QED BY <1>3, <3>1, <3>2
  <2>4. UNCHANGED <<useSignals, ring, critical, handler, acks, phase, target>> /\ todo' \subseteq todo
    BY DEF StopBySignal
  <2>. QED BY <1>1, <1>3, <2>2, <2>3, <2>4 DEF TypeOK
<1>6. PhaseOK' /\ OnlyResendRace'
  BY <1>1, <1>3 DEF StopBySignal, In, PhaseOK, OnlyResendRace
<1>7. ASSUME NEW u \in Threads PROVE MannerOK(u)' /\ ThreadOK(u)'
  <2>1. MannerOK(u) /\ ThreadOK(u)
    BY DEF Inv
  <2>2. CASE u = t
    BY <1>1, <1>2, <1>3, <1>4, <2>2 DEF StopBySignal, In, MannerOK, ThreadOK, Quiet,
      StoppingOK, StopPhases, StartPhases, TypeOK
  <2>3. CASE u # t
    <3>1. state'[u] = state[u] /\ pending'[u] = pending[u]
      BY <1>1, <1>3, <2>3 DEF TypeOK
    <3>. QED BY <2>1, <2>3, <3>1, <1>4 DEF StopBySignal, In, MannerOK, ThreadOK, Quiet,
           StoppingOK, InSigSuspend, StopPhases, StartPhases
  <2>. QED BY <2>2, <2>3
<1>8. CountsOK'
  <2>1. Cardinality(Visited') = Cardinality(Visited) + 1
    BY <1>1, <1>2, <1>4, CountedFinite, FS_AddElement
  <2>2. Acknowledged' = Acknowledged
    BY DEF StopBySignal, Acknowledged, InSigSuspend
  <2>. QED BY <1>1, <1>3, <2>1, <2>2 DEF StopBySignal, In, CountsOK, StopPhases, StartPhases
<1>. QED BY <1>5, <1>6, <1>7, <1>8 DEF Inv

(* A thread is suspended directly, unless it is in a critical section. *)
LEMMA StopDirectlyInv ==
  ASSUME NEW t \in Threads, Inv, StopDirectly(t)
  PROVE  Inv'
<1>1. TypeOK /\ PhaseOK /\ CountsOK /\ OnlyResendRace
  BY DEF Inv
<1>2. CASE critical[t]
  <2>1. UNCHANGED vars
    BY <1>2 DEF StopDirectly, StopThread, In, vars
  <2>2. UNCHANGED <<Visited, Acknowledged, Restarted>>
    BY <2>1 DEF vars, Visited, Acknowledged, Restarted, InSigSuspend
  <2>3. \A u \in Threads : MannerOK(u)' /\ ThreadOK(u)'
    BY <2>1, <2>2 DEF Inv, vars, MannerOK, ThreadOK, StoppingOK, StartingOK, Quiet, Parked,
      InSigSuspend
  <2>. QED BY <1>1, <2>1, <2>2, <2>3 DEF Inv, vars, TypeOK, PhaseOK, CountsOK, OnlyResendRace
<1>3. CASE ~critical[t]
  <2>1. state' = [state EXCEPT ![t] = "Stopped"]
          /\ handler' = [handler EXCEPT ![t] = "suspended"] /\ todo' = todo \ {t}
    BY <1>3 DEF StopDirectly, StopThread, SetState
  <2>2. t \in ring /\ t \notin Visited /\ Visited' = Visited \cup {t}
    BY <1>1, <2>1 DEF StopDirectly, In, TypeOK, Visited
  <2>3. TypeOK' /\ PhaseOK' /\ OnlyResendRace'
    BY <1>1, <2>1 DEF StopDirectly, In, TypeOK, States, PhaseOK, OnlyResendRace
  <2>4. ASSUME NEW u \in Threads PROVE MannerOK(u)' /\ ThreadOK(u)'
    <3>1. MannerOK(u) /\ ThreadOK(u)
      BY DEF Inv
    <3>2. CASE u = t
      BY <1>1, <1>3, <2>1, <2>2, <3>1, <3>2 DEF StopDirectly, In, MannerOK, ThreadOK,
        StoppingOK, StopPhases, StartPhases, TypeOK
    <3>3. CASE u # t
      <4>1. state'[u] = state[u] /\ handler'[u] = handler[u]
        BY <1>1, <2>1, <3>3 DEF TypeOK
      <4>. QED BY <2>2, <3>1, <3>3, <4>1 DEF StopDirectly, In, MannerOK, ThreadOK, Quiet,
             StoppingOK, InSigSuspend, StopPhases, StartPhases
    <3>. QED BY <3>2, <3>3
  <2>5. CountsOK'
    <3>1. Acknowledged' = Acknowledged
      BY <1>1, <2>1 DEF Inv, StopDirectly, Acknowledged, InSigSuspend, MannerOK, TypeOK
    <3>. QED BY <1>1, <3>1 DEF StopDirectly, In, CountsOK, StopPhases, StartPhases
  <2>. QED BY <2>3, <2>4, <2>5 DEF Inv
<1>. QED BY <1>2, <1>3

(* The re-sending loop looks at a thread. *)
LEMMA StopResendTestInv ==
  ASSUME NEW t \in Threads, Inv, StopResendTest(t)
  PROVE  Inv'
<1>1. TypeOK /\ PhaseOK /\ CountsOK /\ OnlyResendRace
  BY DEF Inv
<1>2. t \in ring /\ useSignals /\ state[t] # "Starting"
  BY <1>1 DEF Inv, StopResendTest, In, TypeOK, PhaseOK, ThreadOK, StoppingOK, Quiet,
    StopPhases
<1>3. fault' = fault
  BY <1>2 DEF StopResendTest, Ensure
<1>4. Visited = ring /\ Visited' = ring /\ Acknowledged' = Acknowledged
  BY <1>1 DEF StopResendTest, In, Visited, Acknowledged, InSigSuspend, threadVars
<1>5. TypeOK' /\ PhaseOK' /\ OnlyResendRace' /\ CountsOK'
  BY <1>1, <1>2, <1>3, <1>4 DEF StopResendTest, In, TypeOK, States, PhaseOK, OnlyResendRace,
    CountsOK, threadVars, StopPhases, StartPhases
<1>6. ASSUME NEW u \in Threads PROVE ThreadOK(u)'
  <2>1. ThreadOK(u)
    BY DEF Inv
  <2>. QED BY <2>1, <1>3, <1>4 DEF StopResendTest, In, ThreadOK, StoppingOK, Quiet,
         InSigSuspend, StopPhases, StartPhases, threadVars
<1>7. \A u \in Threads : MannerOK(u)'
  BY MannerStands DEF StopResendTest
<1>. QED BY <1>5, <1>6, <1>7 DEF Inv

(* ... and signals it, whatever it has done meanwhile. *)
LEMMA StopResendInv ==
  ASSUME NEW t \in Threads, Inv, StopResend(t)
  PROVE  Inv'
<1>1. TypeOK /\ PhaseOK /\ CountsOK /\ OnlyResendRace
  BY DEF Inv
<1>2. t \in ring /\ useSignals /\ MannerOK(t) /\ ThreadOK(t)
  BY <1>1 DEF Inv, StopResend, In, PhaseOK
<1>3. state' = [state EXCEPT ![t] = "Stopping"] /\ pending' = [pending EXCEPT ![t] = @ + 1]
        /\ pending[t] < MaxPending
  BY DEF StopResend, SetState, SignalThread
<1>4. Visited = ring /\ Visited' = ring /\ Acknowledged' = Acknowledged
  BY <1>1 DEF StopResend, In, Visited, Acknowledged, InSigSuspend
<1>5. TypeOK'
  <2>1. pending[t] + 1 \in 0 .. MaxPending
    <3>1. pending[t] \in 0 .. MaxPending
      BY <1>1 DEF TypeOK
    <3>. QED BY <1>3, <3>1, PendingAssumption
  <2>2. pending' \in [Threads -> 0 .. MaxPending]
    BY <1>1, <1>3, <2>1 DEF TypeOK
  <2>. QED BY <1>1, <1>3, <2>2 DEF StopResend, In, TypeOK, States
<1>6. PhaseOK' /\ OnlyResendRace' /\ CountsOK'
  BY <1>1, <1>2, <1>4 DEF StopResend, In, PhaseOK, OnlyResendRace, CountsOK, StopPhases,
    StartPhases
<1>7. ASSUME NEW u \in Threads PROVE MannerOK(u)' /\ ThreadOK(u)'
  <2>1. MannerOK(u) /\ ThreadOK(u)
    BY DEF Inv
  <2>2. CASE u = t
    BY <1>1, <1>2, <1>3, <1>4, <2>2 DEF StopResend, In, MannerOK, ThreadOK, Quiet,
      StoppingOK, InSigSuspend, StopPhases, StartPhases, TypeOK
  <2>3. CASE u # t
    <3>1. state'[u] = state[u] /\ pending'[u] = pending[u]
      BY <1>1, <1>3, <2>3 DEF TypeOK
    <3>. QED BY <2>1, <3>1, <1>4 DEF StopResend, In, MannerOK, ThreadOK, Quiet,
           StoppingOK, InSigSuspend, StopPhases, StartPhases
  <2>. QED BY <2>2, <2>3
<1>. QED BY <1>5, <1>6, <1>7 DEF Inv

(* A parked thread is asked to start, and counted. *)
LEMMA StartBySignalInv ==
  ASSUME NEW t \in Threads, Inv, StartBySignal(t)
  PROVE  Inv'
<1>1. TypeOK /\ PhaseOK /\ CountsOK /\ OnlyResendRace
  BY DEF Inv
<1>2. t \in ring /\ t \notin Visited /\ MannerOK(t) /\ Parked(t) /\ state[t] = "Stopped"
  BY <1>1 DEF Inv, StartBySignal, In, TypeOK, Visited, ThreadOK, StartPhases
<1>3. state' = [state EXCEPT ![t] = "Starting"] /\ pending' = [pending EXCEPT ![t] = @ + 1]
        /\ nLive' = nLive + 1 /\ fault' = fault /\ pending[t] < MaxPending
  BY <1>2 DEF StartBySignal, Ensure, SetState, SignalThread
<1>4. Visited' = Visited \cup {t}
  BY <1>1, <1>2 DEF StartBySignal, In, Visited
<1>5. TypeOK'
  <2>1. pending[t] + 1 \in 0 .. MaxPending
    <3>1. pending[t] \in 0 .. MaxPending
      BY <1>1 DEF TypeOK
    <3>. QED BY <1>3, <3>1, PendingAssumption
  <2>2. pending' \in [Threads -> 0 .. MaxPending]
    BY <1>1, <1>3, <2>1 DEF TypeOK
  <2>3. state' \in [Threads -> States] /\ nLive' \in Nat
    <3>1. state \in [Threads -> States] /\ nLive \in Nat
      BY <1>1 DEF TypeOK
    <3>2. state' \in [Threads -> States]
      BY <1>3, <3>1 DEF States
    <3>. QED BY <1>3, <3>1, <3>2
  <2>4. UNCHANGED <<useSignals, ring, critical, handler, acks, phase, target>> /\ todo' \subseteq todo
    BY DEF StartBySignal
  <2>. QED BY <1>1, <1>3, <2>2, <2>3, <2>4 DEF TypeOK
<1>6. PhaseOK' /\ OnlyResendRace'
  BY <1>1, <1>3 DEF StartBySignal, In, PhaseOK, OnlyResendRace
<1>7. ASSUME NEW u \in Threads PROVE MannerOK(u)' /\ ThreadOK(u)'
  <2>1. MannerOK(u) /\ ThreadOK(u)
    BY DEF Inv
  <2>2. CASE u = t
    BY <1>1, <1>2, <1>3, <1>4, <2>2 DEF StartBySignal, In, MannerOK, ThreadOK, Parked,
      StartingOK, InSigSuspend, StopPhases, StartPhases, TypeOK
  <2>3. CASE u # t
    <3>1. state'[u] = state[u] /\ pending'[u] = pending[u]
      BY <1>1, <1>3, <2>3 DEF TypeOK
    <3>. QED BY <2>1, <2>3, <3>1, <1>3, <1>4 DEF StartBySignal, In, MannerOK, ThreadOK, Quiet,
           StartingOK, Parked, InSigSuspend, StopPhases, StartPhases
  <2>. QED BY <2>2, <2>3
<1>8. CountsOK'
  <2>1. Cardinality(Visited') = Cardinality(Visited) + 1
    BY <1>1, <1>2, <1>4, CountedFinite, FS_AddElement
  <2>2. Restarted' = Restarted
    BY <1>2, <1>4 DEF StartBySignal, Restarted, Parked
  <2>. QED BY <1>1, <1>3, <2>1, <2>2 DEF StartBySignal, In, CountsOK, StopPhases, StartPhases
<1>. QED BY <1>5, <1>6, <1>7, <1>8 DEF Inv

(* A thread suspended directly is let go. *)
LEMMA StartDirectlyInv ==
  ASSUME NEW t \in Threads, Inv, StartDirectly(t)
  PROVE  Inv'
<1>1. TypeOK /\ PhaseOK /\ CountsOK /\ OnlyResendRace
  BY DEF Inv
<1>2. t \in ring /\ Visited' = Visited \cup {t}
  BY <1>1 DEF StartDirectly, In, TypeOK, Visited
<1>3. state' = [state EXCEPT ![t] = "Started"] /\ handler' = [handler EXCEPT ![t] = "out"]
  BY DEF StartDirectly, SetState
<1>4. TypeOK' /\ PhaseOK' /\ OnlyResendRace' /\ CountsOK'
  BY <1>1, <1>3 DEF StartDirectly, In, TypeOK, States, PhaseOK, OnlyResendRace, CountsOK,
    StopPhases, StartPhases
<1>5. ASSUME NEW u \in Threads PROVE MannerOK(u)' /\ ThreadOK(u)'
  <2>1. MannerOK(u) /\ ThreadOK(u)
    BY DEF Inv
  <2>2. CASE u = t
    BY <1>1, <1>2, <1>3, <2>1, <2>2 DEF StartDirectly, In, MannerOK, ThreadOK, Quiet,
      StartingOK, StopPhases, StartPhases, TypeOK
  <2>3. CASE u # t
    <3>1. state'[u] = state[u] /\ handler'[u] = handler[u]
      BY <1>1, <1>3, <2>3 DEF TypeOK
    <3>. QED BY <1>2, <2>1, <2>3, <3>1 DEF StartDirectly, In, MannerOK, ThreadOK, Quiet,
           StartingOK, Parked, InSigSuspend, StopPhases, StartPhases
  <2>. QED BY <2>2, <2>3
<1>. QED BY <1>4, <1>5 DEF Inv

(* A thread that has not said that it runs is signalled again. *)
LEMMA StartResendInv ==
  ASSUME NEW t \in Threads, Inv, StartResend(t)
  PROVE  Inv'
<1>1. TypeOK /\ PhaseOK /\ CountsOK /\ OnlyResendRace
  BY DEF Inv
<1>2. useSignals /\ state[t] # "Stopping"
  BY <1>1 DEF Inv, StartResend, In, TypeOK, PhaseOK, ThreadOK, StartingOK, Parked, Quiet,
    StartPhases
<1>3. fault' = fault
  BY <1>2 DEF StartResend, Ensure
<1>4. Visited' = Visited /\ Restarted' = Restarted
  BY <1>1 DEF StartResend, In, Visited, Restarted
<1>5. TypeOK'
  <2>1. pending' \in [Threads -> 0 .. MaxPending]
    <3>1. pending[t] < MaxPending => pending[t] + 1 \in 0 .. MaxPending
      <4>1. pending[t] \in 0 .. MaxPending
        BY <1>1 DEF TypeOK
      <4>. QED BY <4>1, PendingAssumption
    <3>. QED BY <1>1, <3>1 DEF StartResend, SignalThread, TypeOK
  <2>. QED BY <1>1, <1>3, <2>1 DEF StartResend, In, TypeOK
<1>6. PhaseOK' /\ OnlyResendRace' /\ CountsOK'
  BY <1>1, <1>2, <1>3, <1>4 DEF StartResend, In, PhaseOK, OnlyResendRace, CountsOK,
    StopPhases, StartPhases
<1>7. ASSUME NEW u \in Threads PROVE MannerOK(u)' /\ ThreadOK(u)'
  <2>1. MannerOK(u) /\ ThreadOK(u)
    BY DEF Inv
  <2>2. MannerOK(u)'
    BY <1>2, <2>1 DEF StartResend, MannerOK
  <2>3. ThreadOK(u)'
    BY <1>3, <1>4, <2>1 DEF StartResend, In, ThreadOK, StartingOK, Parked, Quiet,
      InSigSuspend, StopPhases, StartPhases
  <2>. QED BY <2>2, <2>3
<1>. QED BY <1>5, <1>6, <1>7 DEF Inv

------------------------------------------------------------------------------
(* Threads come and go.                                                    *)

(* A new thread is enlisted between collections. *)
LEMMA EnlistInv ==
  ASSUME NEW t \in Threads, Inv, Enlist(t)
  PROVE  Inv'
<1>1. TypeOK /\ PhaseOK /\ CountsOK /\ OnlyResendRace
  BY DEF Inv
<1>2. TypeOK' /\ PhaseOK' /\ OnlyResendRace' /\ CountsOK'
  BY <1>1 DEF Enlist, In, TypeOK, PhaseOK, OnlyResendRace, CountsOK, threadVars,
    StopPhases, StartPhases
<1>3. ASSUME NEW u \in Threads PROVE ThreadOK(u)'
  <2>1. ThreadOK(u)
    BY DEF Inv
  <2>. QED BY <2>1 DEF Enlist, In, ThreadOK, Quiet, StopPhases, StartPhases, threadVars
<1>4. \A u \in Threads : MannerOK(u)'
  BY MannerStands DEF Enlist
<1>. QED BY <1>2, <1>3, <1>4 DEF Inv

(* A dying thread is delisted between collections. *)
LEMMA DelistInv ==
  ASSUME NEW t \in Threads, Inv, Delist(t)
  PROVE  Inv'
<1>1. TypeOK /\ PhaseOK /\ CountsOK /\ OnlyResendRace
  BY DEF Inv
<1>2. todo = {} /\ target = {}
  BY <1>1 DEF Delist, In, PhaseOK
<1>3. TypeOK'
  <2>1. pending' \in [Threads -> 0 .. MaxPending] /\ state' \in [Threads -> States]
    <3>1. 0 \in 0 .. MaxPending
      BY PendingAssumption
    <3>. QED BY <1>1, <3>1 DEF Delist, SetState, TypeOK, States
  <2>. QED BY <1>1, <1>2, <2>1 DEF Delist, TypeOK
<1>4. PhaseOK' /\ OnlyResendRace' /\ CountsOK'
  BY <1>1, <1>2 DEF Delist, In, PhaseOK, OnlyResendRace, CountsOK, StopPhases, StartPhases
<1>5. ASSUME NEW u \in Threads PROVE MannerOK(u)' /\ ThreadOK(u)'
  <2>1. MannerOK(u) /\ ThreadOK(u) /\ Quiet(u)
    BY DEF Inv, Delist, In, ThreadOK
  <2>2. pending'[u] = (IF u = t THEN 0 ELSE pending[u]) /\ state'[u] = "Started"
    BY <1>1, <2>1 DEF Delist, SetState, Quiet, TypeOK
  <2>. QED BY <2>1, <2>2 DEF Delist, In, MannerOK, ThreadOK, Quiet, StopPhases, StartPhases
<1>. QED BY <1>3, <1>4, <1>5 DEF Inv

------------------------------------------------------------------------------

(* Inv is inductive. *)
LEMMA NextInv == Inv /\ [Next]_vars => Inv'
<1>. SUFFICES ASSUME Inv, [Next]_vars PROVE Inv'
  OBVIOUS
<1>1. CASE SuspendOthers
  BY <1>1, SuspendOthersInv
<1>2. CASE StopWorld
  <2>1. CASE StopSent \/ StopAcked \/ StopTimeout \/ StopResent
    BY <2>1, StopSentInv, StopAckedInv, StopTimeoutInv, StopResentInv
  <2>2. ASSUME NEW t \in Threads,
               StopBySignal(t) \/ StopDirectly(t) \/ StopResendTest(t) \/ StopResend(t)
        PROVE  Inv'
    BY <2>2, StopBySignalInv, StopDirectlyInv, StopResendTestInv, StopResendInv
  <2>. QED BY <1>2, <2>1, <2>2 DEF StopWorld
<1>3. CASE ResumeOthers
  BY <1>3, ResumeOthersInv
<1>4. CASE StartWorld
  <2>1. CASE StartSent \/ StartAcked \/ StartTimeout \/ StartResent
    BY <2>1, StartSentInv, StartAckedInv, StartTimeoutInv, StartResentInv
  <2>2. ASSUME NEW t \in Threads, StartBySignal(t) \/ StartDirectly(t) \/ StartResend(t)
        PROVE  Inv'
    BY <2>2, StartBySignalInv, StartDirectlyInv, StartResendInv
  <2>. QED BY <1>4, <2>1, <2>2 DEF StartWorld
<1>5. ASSUME NEW t \in Threads, Handler(t)
      PROVE  Inv'
  BY <1>5, EnterHandlerInv, RefuseInv, StopInv, PostStoppedInv, SigSuspendReturnsInv,
    ResumeInv, PostStartedInv DEF Handler
<1>6. ASSUME NEW t \in Threads, Mutator(t)
      PROVE  Inv'
  BY <1>6, EnterCriticalInv, LeaveCriticalInv, EnlistInv, DelistInv DEF Mutator
<1>7. CASE UNCHANGED vars
  <2>1. TypeOK' /\ PhaseOK' /\ OnlyResendRace'
    BY <1>7 DEF vars, Inv, TypeOK, PhaseOK, OnlyResendRace
  <2>2. Visited' = Visited /\ Acknowledged' = Acknowledged /\ Restarted' = Restarted
    BY <1>7 DEF vars, Visited, Acknowledged, Restarted, InSigSuspend
  <2>3. CountsOK'
    BY <1>7, <2>2 DEF vars, Inv, CountsOK
  <2>4. ASSUME NEW t \in Threads PROVE MannerOK(t)' /\ ThreadOK(t)'
    <3>1. MannerOK(t) /\ ThreadOK(t)
      BY DEF Inv
    <3>. QED BY <1>7, <2>2, <3>1 DEF vars, MannerOK, ThreadOK, StoppingOK, StartingOK, Quiet,
           Parked, InSigSuspend
  <2>. QED BY <2>1, <2>3, <2>4 DEF Inv
<1>. QED BY <1>1, <1>2, <1>3, <1>4, <1>5, <1>6, <1>7 DEF Next

(* Inv holds of every reachable state, so the variables keep their types,  *)
(* the semaphore counts the parked threads and the assertions that can     *)
(* fail are those of the re-sending race.                                  *)
THEOREM Invariance == Spec => []Inv
<1>. QED BY InitInv, NextInv, PTL DEF Spec

(* When SuspendOthers returns, every thread on allThreads is parked, and   *)
(* outside its critical sections.                                          *)
THEOREM WorldStops == Spec => []WorldStopped
<1>1. Inv => WorldStopped
  <2>. SUFFICES ASSUME Inv, phase = "processing", NEW t \in ring
                PROVE  Parked(t) /\ ~critical[t]
    BY DEF WorldStopped
  <2>1. t \in Threads
    BY DEF Inv, TypeOK
  <2>. QED BY <2>1 DEF Inv, ThreadOK, MannerOK, Parked
<1>. QED BY <1>1, Invariance, PTL

(* Collections leave no acknowledgement and no parked thread behind.       *)
THEOREM CleanBetween == Spec => []CleanWhenIdle
<1>1. Inv => CleanWhenIdle
  BY DEF Inv, CountsOK, ThreadOK, Quiet, CleanWhenIdle
<1>. QED BY <1>1, Invariance, PTL

(* No thread sits in the handler in the middle of a critical section.      *)
THEOREM CriticalRuns == Spec => []NotStoppedInCritical
<1>1. Inv => NotStoppedInCritical
  BY DEF Inv, MannerOK, NotStoppedInCritical
<1>. QED BY <1>1, Invariance, PTL

(* Only the race of StopWorld's re-sending loop makes an assertion fail,   *)
(* and direct suspension makes none fail.                                  *)
THEOREM AssertionsHold == Spec => []OnlyResendRace
<1>1. Inv => OnlyResendRace
  BY DEF Inv
<1>. QED BY <1>1, Invariance, PTL

================================================================================
