------------------------------ MODULE ThreadLife ------------------------------
(***************************************************************************)
(* The life of a thread in ThreadPThread.m3: Fork, the table of slots that *)
(* keeps its T alive, the list of active threads, Join, the collection of  *)
(* its T and the disposal of its Activation, and a fork of the process.    *)
(*                                                                         *)
(* A T and its Activation t.act come to life together and have one name    *)
(* here.  Every stretch of code under slotsMu, activeMu or joinMu is one   *)
(* action; the windows between them are what the model interleaves.        *)
(* slots[0] is not used by the code and left out; last is LAST(slots^).    *)
(* Waiting on t.join is taken at the level of ThreadSpec: an AlertWait     *)
(* returns after the broadcast, or decides to raise Alerted, in which case *)
(* it has yet to get joinMu back.                                          *)
(* A collection is one step: what is unreachable stays so, hence a cleanup *)
(* that comes later than the decision is a later collection.               *)
(***************************************************************************)
EXTENDS Integers, FiniteSets

CONSTANTS Threads,    \* numbered in the order in which they are forked
          NIL,
          TableSize,  \* entries of the table InitWithStackBase leaves: 19
          Growths,    \* entries a larger table may add; the code: as many again
          Programs    \* kinds of program: the threads it has and what it does

Main == 0  \* the initial thread

AllCalls == {"AlertJoin", "ForkProcess", "OutOfMemory", "Collect"}

ASSUME ThreadsAssumption == Threads \subseteq Nat /\ Main \in Threads
ASSUME FiniteAssumption == IsFiniteSet(Threads)
ASSUME NilAssumption == NIL \notin Threads
ASSUME SizesAssumption == TableSize \in Nat \ {0} /\ Growths \subseteq Nat \ {0}
ASSUME ProgramsAssumption ==
  Programs \subseteq [threads : SUBSET Threads, calls : SUBSET AllCalls]

VARIABLES
  pc,          \* where each thread is
  arg,         \* the thread it is forking or joining, or NIL
  n,           \* AssignSlot's local: the size it found full
  slots, last, \* the table, slots[1..last]
  n_slotted, next_slot,
  slot,        \* Activation.slot, 0 for none
  allThreads,  \* activations on the circular list
  act,         \* memory of the Activation: "none", "live" or "disposed"
  ended,       \* t.join = NIL
  joined,      \* t.joined
  known,       \* threads that the program's data refer to
  reaped,      \* threads a Join has returned for
  cleaned,     \* threads whose T has been collected and cleaned
  program,     \* the kind of program this is
  forked,      \* this process is the child of a fork
  fault        \* "none", or what killed the program

table == <<slots, last, n_slotted, next_slot, slot>>
process == <<program, forked>>
heap == <<known, act, cleaned>>
joining == <<ended, joined, reaped>>
vars == <<pc, arg, n, slots, last, n_slotted, next_slot, slot, allThreads, act,
          ended, joined, known, reaped, cleaned, program, forked, fault>>

Forking == {"assign", "allocate", "create"}
Joining == {"join", "alertJoin", "raise"}
Running == {"run"} \cup Forking \cup Joining
Leaving == {"done", "unslotted", "delisted"}

TypeOK ==
  /\ pc \in [Threads -> {"none", "created", "listed", "over", "gone"}
                          \cup Running \cup Leaving]
  /\ arg \in [Threads -> Threads \cup {NIL}]
  /\ n \in [Threads -> Nat]
  /\ last \in Nat \ {0}
  /\ slots \in [1..last -> Threads \cup {NIL}]
  /\ n_slotted \in Nat
  /\ next_slot \in 1..last
  /\ slot \in [Threads -> 0..last]
  /\ allThreads \subseteq Threads
  /\ act \in [Threads -> {"none", "live", "disposed"}]
  /\ ended \in [Threads -> BOOLEAN]
  /\ joined \in [Threads -> BOOLEAN]
  /\ known \subseteq Threads
  /\ reaped \subseteq Threads
  /\ cleaned \subseteq Threads
  /\ program \in Programs
  /\ forked \in BOOLEAN
  /\ fault \in {"none", "bad slot", "unslotted thread", "no free slot",
                "join twice", "disposed twice", "disposed in use",
                "not created", "dead handle"}

(* After InitWithStackBase: the first thread is active and has slot 1. *)
Init ==
  /\ pc = [t \in Threads |-> IF t = Main THEN "run" ELSE "none"]
  /\ arg = [t \in Threads |-> NIL]
  /\ n = [t \in Threads |-> 0]
  /\ last = TableSize
  /\ slots = [i \in 1..TableSize |-> IF i = 1 THEN Main ELSE NIL]
  /\ n_slotted = 1
  /\ next_slot = 1
  /\ slot = [t \in Threads |-> IF t = Main THEN 1 ELSE 0]
  /\ allThreads = {Main}
  /\ act = [t \in Threads |-> IF t = Main THEN "live" ELSE "none"]
  /\ ended = [t \in Threads |-> t = Main]
  /\ joined = [t \in Threads |-> FALSE]
  /\ known = {}
  /\ reaped = {}
  /\ cleaned = {}
  /\ program \in Programs
  /\ forked = FALSE
  /\ fault = "none"

NoFault == fault = "none"

At(p, where) == NoFault /\ pc[p] = where

Goto(p, where) == pc' = [pc EXCEPT ![p] = where]

Ensure(ok, what) == fault' = IF ok THEN fault ELSE what

(* A call on t is over: the program keeps its reference to t in its data,  *)
(* or this was the last one (dropping it later makes no difference).       *)
KeepOrDrop(t) ==
  \/ known' = known \cup {t}
  \/ "Collect" \in program.calls /\ known' = known \ {t}

------------------------------------------------------------------------------
(* Fork and AssignSlot.                                                    *)

(* The activation and the T are new; t is registered for CleanThread.      *)
Fork(p, t) ==
  /\ At(p, "run") /\ t \in program.threads
  /\ act[t] = "none" /\ \A u \in Threads : act[u] = "none" => t <= u
  /\ Goto(p, "assign")
  /\ arg' = [arg EXCEPT ![p] = t]
  /\ act' = [act EXCEPT ![t] = "live"]
  /\ UNCHANGED <<n, table, allThreads, joining, known, cleaned, process,
                 fault>>

FreeSlots(s) == {i \in DOMAIN s : s[i] = NIL}

(* The search starts at next_slot and wraps from the last entry to 1. *)
FirstFree(s, size, i) ==
  /\ i \in FreeSlots(s)
  /\ \A j \in FreeSlots(s) : (i - next_slot) % size <= (j - next_slot) % size

(* The rest of AssignSlot, with the table s of that many entries.  With no *)
(* entry free the search does not end.                                     *)
TakeSlot(p, s, size) ==
  /\ Ensure(FreeSlots(s) # {}, "no free slot")
  /\ last' = size
  /\ IF FreeSlots(s) = {} THEN
       /\ slots' = s
       /\ UNCHANGED <<pc, n, n_slotted, next_slot, slot>>
     ELSE \E i \in FreeSlots(s) :
       /\ FirstFree(s, size, i)
       /\ slots' = [s EXCEPT ![i] = arg[p]]
       /\ next_slot' = i
       /\ n_slotted' = n_slotted + 1
       /\ slot' = [slot EXCEPT ![arg[p]] = i]
       /\ n' = [n EXCEPT ![p] = 0]
       /\ Goto(p, "create")

(* Mutant: the table is enlarged one thread too late. *)
AssignSlot_OffByOne(p) ==
  /\ At(p, "assign")
  /\ IF n_slotted > last THEN
       /\ n' = [n EXCEPT ![p] = last]
       /\ Goto(p, "allocate")
       /\ UNCHANGED <<table, fault>>
     ELSE TakeSlot(p, slots, last)
  /\ UNCHANGED <<arg, allThreads, heap, joining, process>>

AssignSlot(p) ==
  /\ At(p, "assign")
  /\ IF n_slotted >= last THEN
       /\ n' = [n EXCEPT ![p] = last]
       /\ Goto(p, "allocate")
       /\ UNCHANGED <<table, fault>>
     ELSE TakeSlot(p, slots, last)
  /\ UNCHANGED <<arg, allThreads, heap, joining, process>>

Larger(size) == [i \in 1..size |-> IF i <= last THEN slots[i] ELSE NIL]

(* Mutant: the size is not looked at again after a lost race. *)
GrowTable_StaleSize(p) ==
  /\ At(p, "allocate")
  /\ IF n[p] = last
     THEN \E g \in Growths : TakeSlot(p, Larger(last + g), last + g)
     ELSE IF n_slotted < last THEN TakeSlot(p, slots, last)
     ELSE UNCHANGED <<pc, n, table, fault>>
  /\ UNCHANGED <<arg, allThreads, heap, joining, process>>

(* slotsMu is locked again, with a new table in hand: it is installed if   *)
(* the table is still as large as it was.                                  *)
GrowTable(p) ==
  /\ At(p, "allocate")
  /\ IF n[p] = last
     THEN \E g \in Growths : TakeSlot(p, Larger(last + g), last + g)
     ELSE IF n_slotted < last THEN TakeSlot(p, slots, last)
     ELSE /\ n' = [n EXCEPT ![p] = 0]
          /\ Goto(p, "assign")
          /\ UNCHANGED <<table, fault>>
  /\ UNCHANGED <<arg, allThreads, heap, joining, process>>

(* NEW raises OutOfMemory, and Fork's FINALLY, with act.slot still 0,      *)
(* disposes the activation.                                                *)
ForkFails(p) ==
  /\ "OutOfMemory" \in program.calls
  /\ At(p, "allocate")
  /\ Goto(p, "run")
  /\ act' = [act EXCEPT ![arg[p]] = "disposed"]
  /\ n' = [n EXCEPT ![p] = 0]
  /\ arg' = [arg EXCEPT ![p] = NIL]
  /\ UNCHANGED <<table, allThreads, joining, known, cleaned, process, fault>>

(* thread_create; Fork returns t to its caller. *)
Create(p) ==
  /\ At(p, "create")
  /\ pc' = [pc EXCEPT ![p] = "run", ![arg[p]] = "created"]
  /\ KeepOrDrop(arg[p])
  /\ arg' = [arg EXCEPT ![p] = NIL]
  /\ UNCHANGED <<n, table, allThreads, act, joining, cleaned, process, fault>>

(* thread_create fails, as it does for want of memory: DieI. *)
CreateFails(p) ==
  /\ "OutOfMemory" \in program.calls
  /\ At(p, "create")
  /\ Ensure(FALSE, "not created")
  /\ UNCHANGED <<pc, arg, n, table, allThreads, heap, joining, process>>

------------------------------------------------------------------------------
(* ThreadBase and RunThread.                                               *)

Enlist(t) ==
  /\ At(t, "created")
  /\ allThreads' = allThreads \cup {t}
  /\ Goto(t, "listed")
  /\ UNCHANGED <<arg, n, table, heap, joining, process, fault>>

(* self := slots[me.slot], whose closure is then applied. *)
Apply(t) ==
  /\ At(t, "listed")
  /\ Ensure(slot[t] \in DOMAIN slots /\ slots[slot[t]] = t, "bad slot")
  /\ Goto(t, "run")
  /\ UNCHANGED <<arg, n, table, allThreads, heap, joining, process>>

(* The closure returns: Broadcast(self.join), self.join := NIL. *)
Finish(t) ==
  /\ At(t, "run") /\ t # Main
  /\ ended' = [ended EXCEPT ![t] = TRUE]
  /\ Goto(t, "done")
  /\ UNCHANGED <<arg, n, table, allThreads, heap, joined, reaped,
                 process, fault>>

(* Mutant: n_slotted still counts the thread. *)
FreeSlot_Counted(t) ==
  /\ At(t, "done")
  /\ Ensure(slot[t] \in DOMAIN slots /\ slots[slot[t]] = t, "unslotted thread")
  /\ slots' = [slots EXCEPT ![slot[t]] = NIL]
  /\ slot' = [slot EXCEPT ![t] = 0]
  /\ Goto(t, "unslotted")
  /\ UNCHANGED <<arg, n, last, n_slotted, next_slot, allThreads, heap, joining,
                 process>>

FreeSlot(t) ==
  /\ At(t, "done")
  /\ n_slotted' = n_slotted - 1
  /\ Ensure(slot[t] \in DOMAIN slots /\ slots[slot[t]] = t, "unslotted thread")
  /\ slots' = [slots EXCEPT ![slot[t]] = NIL]
  /\ slot' = [slot EXCEPT ![t] = 0]
  /\ Goto(t, "unslotted")
  /\ UNCHANGED <<arg, n, last, next_slot, allThreads, heap, joining, process>>

Delist(t) ==
  /\ At(t, "unslotted")
  /\ allThreads' = allThreads \ {t}
  /\ Goto(t, "delisted")
  /\ UNCHANGED <<arg, n, table, heap, joining, process, fault>>

(* me.next := NIL; me.prev := NIL, after activeMu has been unlocked. *)
ClearLinks(t) ==
  /\ At(t, "delisted")
  /\ Goto(t, "over")
  /\ UNCHANGED <<arg, n, table, allThreads, heap, joining, process, fault>>
------------------------------------------------------------------------------
(* XJoin.  joinMu is held within each of these steps only.  A client joins *)
(* a thread it knows, once: not while another Join of it is going on, nor  *)
(* after one has returned.                                                 *)

Join(p, t, how) ==
  /\ At(p, "run") /\ t \in known /\ t # p
  /\ t \notin reaped /\ \A q \in Threads : pc[q] \in Joining => arg[q] # t
  /\ IF joined[t] THEN
       /\ Ensure(FALSE, "join twice")
       /\ UNCHANGED <<pc, arg, known, joining>>
     ELSE
       /\ joined' = [joined EXCEPT ![t] = TRUE]
       /\ IF ended[t]
          THEN /\ reaped' = reaped \cup {t}
               /\ KeepOrDrop(t)
               /\ UNCHANGED <<pc, arg>>
          ELSE /\ Goto(p, how)
               /\ arg' = [arg EXCEPT ![p] = t]
               /\ UNCHANGED <<reaped, known>>
       /\ UNCHANGED <<ended, fault>>
  /\ UNCHANGED <<n, table, allThreads, act, cleaned, process>>

(* XWait returns normally once the broadcast has been made, and the loop   *)
(* ends; t.result is the caller's.                                         *)
JoinReturns(p) ==
  /\ NoFault /\ pc[p] \in {"join", "alertJoin"} /\ ended[arg[p]]
  /\ reaped' = reaped \cup {arg[p]}
  /\ KeepOrDrop(arg[p])
  /\ Goto(p, "run")
  /\ arg' = [arg EXCEPT ![p] = NIL]
  /\ UNCHANGED <<n, table, allThreads, act, cleaned, ended, joined, process,
                 fault>>

(* XWait looks at the alert first, whether or not t has ended meanwhile.   *)
(* The alert may have come at any time before.                             *)
AlertChosen(p) ==
  /\ At(p, "alertJoin")
  /\ Goto(p, "raise")
  /\ UNCHANGED <<arg, n, table, allThreads, heap, joining, process, fault>>

(* With joinMu again: FINALLY IF t.join # NIL THEN t.joined := FALSE END.  *)
AlertRaised(p) ==
  /\ At(p, "raise")
  /\ joined' = [joined EXCEPT ![arg[p]] = @ /\ ended[arg[p]]]
  /\ KeepOrDrop(arg[p])
  /\ Goto(p, "run")
  /\ arg' = [arg EXCEPT ![p] = NIL]
  /\ UNCHANGED <<n, table, allThreads, act, cleaned, ended, reaped, process,
                 fault>>

------------------------------------------------------------------------------
(* Collections.                                                            *)

(* Mutant: the table is not among the roots. *)
Reachable_NoTable(t) ==
  \/ t \in known
  \/ \E p \in Threads : pc[p] \in Forking \cup Joining /\ arg[p] = t

(* What keeps a T: the program's data, the table, and the stacks of the    *)
(* threads that fork or join it.  A thread that has freed its slot "cannot *)
(* touch traced refs" and does not keep its own.                           *)
Reachable(t) ==
  \/ t \in known
  \/ \E i \in 1..last : slots[i] = t
  \/ \E p \in Threads : pc[p] \in Forking \cup Joining /\ arg[p] = t

Allocating == \E p \in Threads : pc[p] \in {"run", "allocate"}

(* The activation is on allThreads, which every collection walks, or its   *)
(* thread has yet to touch it.                                             *)
InUse(t) == t \in allThreads \/ pc[t] \in Leaving

(* Deletes the activation's mutex and condition and disposes it.           *)
CleanThread(t) ==
  /\ act' = [act EXCEPT ![t] = "disposed"]
  /\ cleaned' = cleaned \cup {t}
  /\ fault' = IF act[t] = "disposed" THEN "disposed twice"
              ELSE IF InUse(t) THEN "disposed in use"
              ELSE fault

Collect(t) ==
  /\ NoFault /\ "Collect" \in program.calls /\ Allocating
  /\ act[t] # "none" /\ t \notin cleaned /\ ~Reachable(t)
  /\ \A q \in allThreads : pc[q] # "gone"
  /\ CleanThread(t)
  /\ UNCHANGED <<pc, arg, n, table, allThreads, joining, known, process>>

(* StopWorld sends a signal to the handle of every activation on the list; *)
(* pthread_kill fails for a thread that does not exist in this process.    *)
CollectInChild ==
  /\ NoFault /\ "Collect" \in program.calls /\ Allocating
  /\ \E q \in allThreads : pc[q] = "gone"
  /\ Ensure(FALSE, "dead handle")
  /\ UNCHANGED <<pc, arg, n, table, allThreads, heap, joining, process>>

------------------------------------------------------------------------------
(* A fork of the process by p, seen in the child: the other threads do not *)
(* exist there.  AtForkPrepare has kept them out of every stretch under a  *)
(* lock but those under joinMu, which is taken here to be free.            *)
(* AtForkChild clears the slots of those on allThreads, and leaves the     *)
(* list and n_slotted as they were.                                        *)
Lives(t) == pc[t] \notin {"none", "over", "gone"}

ForkProcess(p) ==
  /\ "ForkProcess" \in program.calls /\ ~forked
  /\ At(p, "run")
  /\ forked' = TRUE
  /\ pc' = [t \in Threads |-> IF t # p /\ Lives(t) THEN "gone" ELSE pc[t]]
  /\ arg' = [t \in Threads |-> NIL]
  /\ n' = [t \in Threads |-> 0]
  /\ slots' = [i \in 1..last |->
                 IF \E t \in allThreads \ {p} : slot[t] = i THEN NIL
                 ELSE slots[i]]
  /\ slot' = [t \in Threads |-> IF t \in allThreads \ {p} THEN 0 ELSE slot[t]]
  /\ UNCHANGED <<last, n_slotted, next_slot, allThreads, heap, joining,
                 program, fault>>

------------------------------------------------------------------------------
Step(p) ==
  \/ AssignSlot(p) \/ GrowTable(p) \/ Create(p)
  \/ Enlist(p) \/ Apply(p) \/ FreeSlot(p) \/ Delist(p) \/ ClearLinks(p)
  \/ JoinReturns(p) \/ AlertRaised(p)

Next ==
  \/ \E p \in Threads : Step(p)
  \/ \E p, t \in Threads : Fork(p, t)
  \/ \E p, t \in Threads : Join(p, t, "join")
  \/ "AlertJoin" \in program.calls
     /\ \E p, t \in Threads : Join(p, t, "alertJoin")
  \/ \E p \in Threads : ForkFails(p) \/ CreateFails(p)
  \/ \E t \in Threads : Finish(t)
  \/ \E p \in Threads : AlertChosen(p)
  \/ \E t \in Threads : Collect(t)
  \/ CollectInChild
  \/ \E p \in Threads : ForkProcess(p)

Spec == Init /\ [][Next]_vars

(* Threads run: each finishes the calls it has begun, and its own end.     *)
FairSpec == Spec /\ \A p \in Threads : WF_vars(Step(p))

------------------------------------------------------------------------------
(* Properties.                                                             *)

Taken(s) == DOMAIN s \ FreeSlots(s)

(* A thread that Fork has given a slot and that has not freed it yet.      *)
Slotted(t) ==
  \/ pc[t] \in {"created", "listed", "done"} \cup Running
  \/ \E p \in Threads : pc[p] = "create" /\ arg[p] = t

(* The table is exact: every thread between AssignSlot and FreeSlot has    *)
(* the entry its activation names, and no other entry is taken.  So the    *)
(* collector finds the T of every thread that may still use it.            *)
SlotTable ==
  /\ \A t \in Threads : Slotted(t) => slot[t] # 0
  /\ \A t \in Threads : slot[t] # 0 => slots[slot[t]] = t
  /\ \A i \in 1..last : slots[i] # NIL => slot[slots[i]] = i

(* n_slotted counts the entries that are taken, except that a forked child *)
(* keeps counting threads that are gone: the search of AssignSlot ends.    *)
SlotCount ==
  /\ Cardinality(Taken(slots)) <= n_slotted
  /\ forked \/ Cardinality(Taken(slots)) = n_slotted
  /\ n_slotted <= last

(* A thread on its way into existence belongs to one Fork, and has nothing *)
(* yet; before that it is not there at all.                                *)
Unborn ==
  /\ \A t \in Threads : act[t] = "none" => pc[t] = "none" /\ slot[t] = 0
  /\ \A p \in Threads : pc[p] \in Forking => pc[arg[p]] = "none"
  /\ \A p \in Threads : pc[p] \in {"assign", "allocate"} => slot[arg[p]] = 0
  /\ \A p, q \in Threads :
       pc[p] \in Forking /\ pc[q] \in Forking /\ arg[p] = arg[q] => p = q

(* What a call is about has its activation, and so has what the program    *)
(* holds, which is never a thread on its way into existence.               *)
Held ==
  /\ \A p \in Threads : pc[p] \in Forking \cup Joining <=> arg[p] # NIL
  /\ \A p \in Threads : pc[p] \in Forking \cup Joining => act[arg[p]] = "live"
  /\ \A p \in Threads : pc[p] \in Joining => pc[arg[p]] # "none"
  /\ \A t \in known : pc[t] # "none" /\ act[t] = "live"

(* The list of active threads: no thread that has not come to ThreadBase,  *)
(* none that has left it, and whoever may run.                             *)
ActiveList ==
  /\ \A t \in allThreads : pc[t] \notin {"none", "created", "delisted", "over"}
  /\ \A t \in Threads :
       pc[t] \in {"listed", "done"} \cup Running => t \in allThreads
  /\ \A t \in Threads : pc[t] = "gone" => forked

(* A thread is joined by one caller at most, and only once it has ended.   *)
(* Without alerts and forks of the process, t.joined tells of exactly that.*)
JoinedByOne ==
  /\ \A t \in reaped : ended[t]
  /\ \A p, q \in Threads :
       pc[p] \in Joining /\ pc[q] \in Joining /\ arg[p] = arg[q] => p = q
  /\ \A p \in Threads : pc[p] \in Joining => joined[arg[p]]
  /\ \A p \in Threads :
       pc[p] \in {"alertJoin", "raise"} => "AlertJoin" \in program.calls
  /\ \A t \in Threads :
       joined[t] /\ ~forked /\ t \notin reaped
         => (\E p \in Threads : pc[p] \in Joining /\ arg[p] = t)
              \/ (ended[t] /\ "AlertJoin" \in program.calls)

(* The activation of a thread outlives every use of it: when it is         *)
(* disposed, the program does not hold the T, no call is about it, it has  *)
(* no slot, is not on the list, and its thread does not run.  Else it is   *)
(* the end of the program.                                                 *)
NoDangling ==
  NoFault => \A t \in Threads : act[t] = "disposed" =>
    /\ t \notin known /\ \A p \in Threads : arg[p] # t
    /\ slot[t] = 0 /\ t \notin allThreads
    /\ pc[t] \in {"none", "over", "gone"}

(* Only CleanThread disposes activations, or a Fork out of memory. *)
Disposed ==
  /\ \A t \in cleaned : act[t] = "disposed"
  /\ \A t \in Threads :
       act[t] = "disposed" => t \in cleaned \/ "OutOfMemory" \in program.calls

(* What ends a program is never the table: AssignSlot's search ends, and   *)
(* RunThread and FreeSlot find the thread they look for.  "Attempt to join *)
(* with thread twice" meets a program that joins once only if it uses      *)
(* AlertJoin or has forked.  An activation is disposed twice only if Fork  *)
(* has run out of memory, without which no thread fails to be created; and *)
(* while it is in use only if its thread has freed its slot and is about   *)
(* to end, or was left behind by a fork.                                   *)
OnlyKnownFaults ==
  /\ fault \notin {"bad slot", "unslotted thread", "no free slot"}
  /\ fault = "join twice" => "AlertJoin" \in program.calls \/ forked
  /\ fault = "disposed twice" => "OutOfMemory" \in program.calls
  /\ fault = "disposed in use" =>
       \E t \in Threads : /\ act[t] = "disposed"
                          /\ pc[t] \in {"unslotted", "delisted", "gone"}
  /\ fault = "not created" => "OutOfMemory" \in program.calls
  /\ fault = "dead handle" => forked

(* The inductive invariant. *)
Inv ==
  /\ TypeOK
  /\ SlotTable
  /\ SlotCount
  /\ Unborn
  /\ Held
  /\ ActiveList
  /\ JoinedByOne
  /\ Disposed
  /\ NoDangling
  /\ OnlyKnownFaults

(* Fork returns however other threads fill and free the table meanwhile,   *)
(* even if it has to start over.                                           *)
ForkReturns ==
  \A p \in Threads : pc[p] \in Forking ~> pc[p] \notin Forking \/ ~NoFault

(* Thread.lm3 ensures of an AlertJoin that raises Alerted UNCHANGED        *)
(* (t.joined), so t can be joined again.                                   *)
JoinableAfterAlert == fault # "join twice"
===============================================================================
