# Verification of the mm3 runtime

mm3 is a Modula-3 system: a compiler, its build tool, the runtime that compiled
programs link with (`m3-libs/m3core`), and the standard library
(`m3-libs/libm3`). This project models the part of it that is concurrent and
that every program depends on: how threads synchronise, how the collector stops
them and works beside them, and the library code that is built on both. The
compiler and the tools are sequential translations and are not modelled.

Paths below are relative to the repository's `src/`; PT stands for
`m3-libs/m3core/src/thread/PTHREAD/ThreadPThread.m3`, RC for
`m3-libs/m3core/src/runtime/common/RTCollector.m3`, FM for
`m3-libs/libm3/src/formatter/Formatter.m3`, AF for
`m3-libs/libm3/src/rw/AutoFlushWr.m3`.

Contents: 1 Inventory · 2 Plan · 3 Modules and the code · 4 Runs ·
5 Fairness · 6 What disagrees with the documentation · 7 Proofs ·
8 What is only model-checked, and what is not modelled

## 1. Inventory

### 1.1 The runtime

| Component | State | Operations | Correct when |
|---|---|---|---|
| Thread interface (`Thread.i3`, `Thread.lm3`) | holder of each MUTEX, set of waiters of each Condition, set of alerted threads, join flags | Acquire, Release, Wait, AlertWait, Signal, Broadcast, Alert, TestAlert, Fork, Join, AlertJoin, Pause | it is the specification: monitors as its Larch text divides them into atomic actions |
| Mutexes, conditions, alerts (PT 126–411) | per Mutex: holder, circular list of waiters; per Condition: the list; per Activation: waitingOn, nextWaiter, alerted, a pthread condition to park on | LockMutex, UnlockMutex, XWait, Signal, Broadcast, Alert, XTestAlert | mutual exclusion, no lost mutex or wake-up, first-come hand-off, a thread on one list at most, implements the interface |
| Life cycle of threads (PT 415–870, 1596–1682) | allThreads ring, slots table, per T: result, completed, joined, its Activation | Fork, ThreadBase, RunThread, XJoin, AssignSlot, FreeSlot, CleanThread, Pause, the three atfork handlers | a thread is joined once, its Activation is disposed once and after it has left the ring, slots name running threads |
| Suspension (PT 888–1330, `ThreadPThreadC.c`) | per Activation: state, inCritical; the semaphore; signals under way | SuspendOthers, ResumeOthers, StopWorld, StartWorld, SignalHandler, direct suspension where there is no SIG_SUSPEND | nobody runs, and nobody is inside an allocation, while the collector moves objects; everybody runs afterwards; the semaphore is not miscounted |
| Heap lock (PT 1684–1730) | heapMu, heapCond, inCritical per thread | LockHeap, UnlockHeap, WaitHeap, BroadcastHeap | the collector, WeakCleaner and allocating threads exclude each other; no wake-up is lost |
| Weak references (RC 1136–1330, 2020–2230) | weakTable, the lists weakLive0, weakFinal0, weakDead0, weakFree0, the Weak bit of headers | FromRef, ToRef, RegisterFinalCleanup, the two walks, PostHandleWeakRefs, WeakCleaner | a ref dies only with its object unreachable, never resolves again, cleanups are called, nothing reachable is freed |
| Incremental collector (RC 399–1113, 2231) | collectorState, the space, colour and gray bit of pages | Move, CopySome, CheckLoadTracedRef, the six states | the tricolor invariant, termination |
| Allocator, page table, type maps | pools, page descriptors | NEW, allocation of pages | address arithmetic; only NEW's effect on the heap is modelled |
| Coroutines (`CoroutineUcontext.m3`) | contexts, stacks on the thread's list, weak refs to coroutines | Create, Call, Run, collection of dead ones | control returns to the caller's context; a stack is scanned while it can run and disposed once |
| Linker, exceptions, process start and exit, parameters, text and number code | | | sequential |
| User-level and Windows threads, `ThreadPThread0.m3` | | | alternatives to PT; the last is not in the makefile |

### 1.2 The library

| Component | State | Operations | Correct when |
|---|---|---|---|
| Formatter (FM) | a circular array shared by client and printing thread, a segment and a cached limit for each | AddRef, Flush, Close; Probe, Get, Print | what is read without the lock is what was written; the array grows exactly when both are stuck; Flush and Close return |
| Auto-flushing writers (AF) | list of active writers, a worker thread, its pause, alerts | Seek, Flush, Close, Worker, Shutdown | the worker's pause is never longer than the shortest delay on the list, no signal to it is lost, what a writer on the list holds is flushed; an alert never meets code that calls it fatal |
| Readers and writers, tables, lists, pickles, operating system | one lock per stream or none | | sequential under that lock |
| `m3mod` MsgQueue and Pool | a bounded buffer; a set of identifiers | Send, Receive; New, Free | a bounded buffer over the monitors |

### 1.3 The tools

Builder, front end, intermediate code, back ends, linker of interface stamps,
Quake interpreter, packaging: sequential programs. The order in which the
Builder recompiles and the order in which RTLinker initialises modules are the
two algorithms worth a pure model; neither is in the plan's first half.

### 1.4 How they interact

- A program thread calls LockMutex and the rest; these use pthread mutexes for a
  few instructions at a time and park the thread on a pthread condition of its
  own.
- A thread that allocates or follows a pointer may have to take the heap lock
  and do a part of a collection. A collection begins and ends its flip by
  SuspendOthers and ResumeOthers; in between it reads the stacks of the others.
- The collector puts dead weak references on a list and broadcasts heapCond;
  WeakCleaner, a thread the first FromRef forks, waits there and calls the
  cleanup procedures as ordinary program code.
- The thread package itself relies on cleanups: CleanMutex, CleanCondition,
  CleanThread free the pthread objects of dead Mutexes, Conditions and T's
  through RegisterFinalCleanup.
- Formatter and AutoFlushWr fork threads and use alerts to end them.

### 1.5 What is hard here

Windows between two critical sections of one operation (a thread dequeued but
not yet told; a state tested and then overwritten); signals that may be late,
queued or repeated; a semaphore as the only count; a program that changes the
heap between the steps of a collection; table entries used again; data read
without a lock under a limit remembered earlier; fork in the middle of all of
it. PROJECT.json lists these hazards with their lines, and the properties that
watch over each.

## 2. Plan

In order of importance, and what each stands at:

1. **ThreadSpec, ThreadSync** — the monitors, abstract and as built. Done:
   checked; safety and the refinement proved.
2. **ThreadSuspend** — stopping the world. Done: checked, safety proved.
3. **WeakRefs** — weak references over the incremental collector. Done:
   checked, safety proved.
4. **FormatterBuffer** — two threads on one array. Done: checked, safety proved.
5. **ThreadLife** — Fork, the slots, ThreadBase, Join and AlertJoin, CleanThread,
   fork of the process. Done: checked, safety proved.
6. **AutoFlushWr** — the worker's list, its pause cut short by alerts, Shutdown.
   Done: checked, safety proved.
7. **Coroutines** — contexts, the stack list of PT and its disposal.
8. **MsgQueue** — a bounded buffer refined onto a queue.

Composition: ThreadSync refines ThreadSpec, so that whatever uses monitors can
be modelled over ThreadSpec's steps: FormatterBuffer, ThreadLife (Join) and
AutoFlushWr take Wait, Signal and alerts as ThreadSpec has them, a Wait returning
after a wake-up and an alert pending until it is taken. Runs stay few, one per
question; a module brings one run for safety and progress together where the
instance allows it.

Theorems worth proving: of each module the inductive invariant, then every
invariant and action property its runs check, and of ThreadSync that it
implements ThreadSpec. All of these are proved (section 7). What is left of the
plan are the modules 7 and 8 with theirs.

## 3. Modules and the code

### ThreadSpec
Thread.lm3 as TLA+: a mutex has a holder, a condition a set, an alert is
membership of a set. Wait is Enqueue, then ChooseReturn, then Resume; AlertWait
can take ChooseAlerted instead, but only while it is still a member of the
condition's set, as Thread.lm3 asks. There are no queues and no wake-ups.
RaiseSignalled is not a step of the specification: it is the one thing more that
ThreadSync may do, and ImplementsThreadSpec names it.

### ThreadSync
One action for each stretch of code under a pthread mutex. The stretches nest
only as *self.mutex, then the list's mutex*, and a thread that holds them
acquires nothing else, so each stretch can be moved together to the point where
its inner lock is taken (it only reads and writes what its locks guard): that
is why a stretch is one step. Between two stretches `pc` says where the thread
is:

| pc | where |
|---|---|
| run | client code; Acquire, Release, Signal, ... may be called |
| lockPark | LockMutex, in pthread_cond_wait with waitingOn set |
| handoff | UnlockMutex, the next holder dequeued and not yet woken |
| wake | Signal or Broadcast, going through the threads dequeued (`chain`) |
| release, check, park, relock | XWait: before it gives the mutex up; the test of alerted and waitingOn; parked; LockMutex again |

`waiters` is a sequence, the code's circular list with a tail pointer; `wake`
records that pthread_cond_signal found the thread parked (a signal to a thread
that is not parked is lost, as it is there) and spurious wake-ups are always
possible. Where the code would fail an assertion, follow NIL or search a list
for ever, the step sets `fault` and the model stops, so that the invariants can
say which failures are possible. Clients nest mutexes in the order LockRank and
release what they hold; otherwise they do what they like.

### ThreadSuspend
The collector's `phase` and the threads' `state` and `handler`. `state` is
shared without a lock, so each read and each write is its own step, except where
the other side stands still. Sending a signal belongs to the step before it: it
only adds to `pending`, and nobody else reads that before it is delivered.
`useSignals` is chosen at the start: with SIG_SUSPEND, StopWorld counts
acknowledgements on the semaphore and re-sends when they are late (each timeout
may come at any time); without, threads are stopped and let go again if they are
inside a critical section. On Linux SIG_SUSPEND is a real-time signal and every
one sent is delivered; MaxPending bounds the queue and is proved about as a
parameter. Threads join and leave `ring` (allThreads) while the lock allows it.
Without SIG_SUSPEND, a thread that the system fails to suspend (PT 1126) or to
restart (PT 1243) stays as it is and the loop over the threads comes back to it;
that changes nothing, and the fairness of section 5 says that it ends.

### WeakRefs
Every operation here runs with the heap locked, so it is one step; `CallCleanup`
and `CleanupReturns` are outside, and the program runs between them. Objects keep
their names when they are moved: `moved` is the new space, `gray` those of its
objects not yet cleaned. Pages are left out: the code moves, cleans and turns
black whole pages, that is, several objects at a time. A reference
on a stack or in the collector's hands counts as a root; where a conservative
root or an older generation pins an object on the code's own grounds, the
collector here may keep any set of further objects (`Others`), so nothing is
proved by the accident of an object being alone. Those of them that refer to
nothing in the old space need not be scanned again, as in the code the objects on
clean and pure pages are not (RC 565–575, 843–848); that the store barrier (RC
2256) makes a page dirty in time is supposed, not modelled. So is, with the
pages, the start of a fresh copying page before each half of the weak walks (RC
1140, 1238). Entries on the free list keep
stale r and p in the code; nobody reads them and they are NIL here. Globals are
fields of an object that is never dropped. The six collector states, the two
weak walks before the dead are known and the handling after it are one action
each, with the order of the lists as in the code: which objects a live cleanup
keeps depends on it. `Walks` is PreHandleWeakRefs' loop over weakLive0, what has
been promoted and marked after so many entries, and `Selected` the entries that
PostHandleWeakRefs unlinks from a list, in their order. WaitHeap and
BroadcastHeap are `cleaner = "waiting"` and the step that ends it.

### FormatterBuffer
Items are places in an endless stream; the array holds each at its place modulo
`bufSize`. A section under `t.lock` is a step, the Broadcast that follows is
another, and each store of an item and each look at one is a third, without the
lock, trusting `pPutLim` and `cGetLim`. The layout algorithm is Consumer's
freedom: it may look ahead of what it prints as far as the next FlushOp
(PrintRest and PrintUntil end there, FM 673–722) and prints an operation with its
arguments when it likes. Two operations take the item after them, whatever it
is, for Print is called without a look at it: NoAlign (PrintNoAlign, FM 1352) and
the Group of a row (PrintRow, FM 1283–1306). They are the `takers`. A FlushOp
taken in Thinking mode (FM 653) ends nothing and releases nothing, and Consumer
may look behind it: `MayLook` allows that, and `PastFlush` is Consumer waiting
there. Arguments are looked at one by one, where the code asks
for the last of them at once; both come to the same test of the limit.
Failure of the underlying writer, which ends Consumer, may come at any print. The
client calls AddRef, Flush or Close in any order until Close; it is not itself
alerted (FM declares Thread.Alerted fatal there). The Wr.Flush that ends Flush may
raise Wr.Failure, so that Close returns without alerting Consumer.
Two things the model keeps as they are: Consumer leaves `t.waiters` one too high
when an alert takes it out of Allocate, harmless since the formatter is then
closed; and the thread that expands goes on to wait even if it now has room, so
the other one may, when it needs more than it got, expand a second time.

### ThreadLife
A T and its Activation are born together and have one name, the thread's number;
`act` says whether the activation's memory is there, `cleaned` whether the T has
been collected. `pc` follows a thread through its whole life:

| pc | where |
|---|---|
| run | program code; it may fork, join, fork the process, or end |
| assign, allocate, create | Fork: AssignSlot before the lock, between its two locks with NEW to do, and before thread_create |
| created, listed | the new thread, before ThreadBase links it into allThreads, and before RunThread looks up its slot |
| done, unslotted, delisted, over | its end: before FreeSlot, before it leaves allThreads, before it clears its links (with activeMu unlocked), after |
| join, alertJoin, raise | XJoin in Wait, in AlertWait, and on its way to raise Alerted with joinMu yet to be taken again |
| gone | a thread that does not exist in this process, the child of a fork |

A stretch of code under slotsMu, activeMu or joinMu is one action. The table is
searched as the code does it, from next_slot on and round; that the search finds
nothing, that the thread in a slot is another, that a thread is joined twice,
that an activation is disposed twice or in use, and that a handle is dead, are
recorded in `fault`. `Reachable` is what keeps a T: the program's data, the table
and the stacks of those who fork or join it. A collection of one T and the call
of CleanThread are one step; what is unreachable stays so, and a cleanup called
later is a collection that came later. A larger table adds any number in
`Growths`; the code adds as many entries as there were. ForkProcess is what the
child sees: AtForkPrepare has taken slotsMu, perfMu, initMu, the heap lock,
activeMu and each activation's mutex, so no other thread is inside a stretch
under these. It does not take joinMu, which the model supposes to be free at that
moment (section 6). The
program joins a thread once, as Thread.i3 asks. `program` is the kind of program
it is: the calls it makes and the threads it forks.

### AutoFlushWr
Characters are counted: `lo`, `cur` and `hi` of a writer are those of the code.
The child is a FileWr used by nobody else, so that Copy to the child, the
child's method and Copy back are one step. `client` is where the clients of a
writer are, of whom its lock lets one at a time into Seek; the lock is held in
"enlist" and "signal", and the worker and Shutdown wait for it. `link` and `onQ`
are the list, `past` the writers whose alarm has passed, `due` those the worker
finds so with the clock it read before its scan. A pause ends after its delay or
by an alert, Forever only by an alert. WorkerAlerted is an alert that comes out
of the child's flush, where Worker declares it fatal.

## 4. Runs

| Run | Instance | What it shows |
|---|---|---|
| ThreadSyncAll | 3 threads, 2 mutexes, 1 condition, all operations, symmetric threads | mutual exclusion, no lost mutex or wake-up, one list per thread, order of hand-off, that a standstill is the clients' own, the one possible failure, the refinement but for a signalled AlertWait that raises |
| ThreadSyncLive | 3 threads, 1 mutex, 1 condition | a queued thread is granted the mutex; a signalled, and an alerted, waiter returns |
| ThreadSyncPrevNotNil | 2 threads, 1 mutex | violation: the list search of an alerted AlertWait follows NIL |
| ThreadSuspendAll | 2 threads, queue of 2 | the world is stopped when SuspendOthers returns, nobody in a critical section, nothing left over afterwards, the one possible failure; stopping and starting complete |
| WeakRefsAll | 3 objects, 2 weak refs, 3 references, table up to 3 | the inductive invariant, nothing reachable is lost, tricolor, the lists, the Weak bit, deaths only of what WeakRef.i3 calls unreachable, with two exceptions by name, dead refs stay dead |
| WeakRefsLive | 2 objects, one of the thread package | entries refer to live objects, final cleanup of the unreachable only, cleanups called, collections end |
| WeakRefsFinal | 2 objects, one of the thread package | violation: an object is held after its final cleanup |
| FormatterBufferAll | chunks of 2, stream of 10 items | items intact, growth only while both are blocked; never both asleep, and operations return, unless a FlushOp is taken by the NoAlign or row before it |
| ThreadLifeAll | 4 threads, a table of 2 that grows by 1 or by 3; a program of 3 threads that makes every call, and one of 4 that forks, may run out of memory, and joins | the slot table is exact, its search ends, activations outlive their uses, a thread is joined by one; the only possible failures; Fork returns |
| ThreadLifeAlertJoin | 3 threads, table of 2 | violation: a Join after an AlertJoin that raised is fatal |
| AutoFlushAll | 2 writers of different delay, buffers of 1, 3 characters each | the list is sound, the worker's pause is short enough, no signal is lost, what is on the list is flushed |
| AutoFlushAlways | 2 writers, buffers of 1, 1 character | violation: a character is never flushed |

**Why the bounds are enough.** ThreadSync: a window needs the thread in it, one
that changes its state and one more on the same list (to be lost); three threads
are that, two mutexes allow a nested Wait and a relock behind others. The proofs
have no bound. ThreadSuspend: threads meet only in the semaphore, where two
already can be taken for one another; the proofs are for any number. A queue of 2 lets a stale
signal arrive behind a fresh one. WeakRefs: three objects make the chains A → B
→ C on which the order of the walks matters; MaxEntries = 3 lets the table grow
twice and MaxB = 2 bounds the weak refs ever made, so that an entry is used
again; MaxRefs = 3 references suffice for a chain with a shared or a cyclic
link. FormatterBuffer: the array begins at 4 chunks of 2 items and doubles, and
10 items fill it past its end, so items change their places; the array grows when
a whole buffer of items is looked at and none printed. One taker at a time is
enough for a FlushOp to follow one; the proofs have no bound. ThreadLife: a
table of 2 is full with the first thread and one more, three can race to
enlarge it, and the program of four threads finds the larger table full again
before it can take a slot of it, the loop of AssignSlot. That is with a table that
grows by 1; by 3 is the code's law for a table of 2, which has an entry 0 as well
and doubles. The code's own sizes, 19 first, are among the parameters TableSize
and Growths. AutoFlushWr: two
writers put one on an empty list and one on a list that is not, with the
shorter or the longer delay; three characters over a buffer of one let a writer
leave the list and come back while the worker holds it. Names of bounds in
guards: MaxItems (the last item is kept for a Flush or Close), MaxTakers
(takers not printed yet), MaxPending,
MaxEntries, MaxB, MaxRefs, MaxChars.

**Deadlock.** Off for ThreadSync (all clients may wait on conditions; that this
is the only reason is StallOnlyInWait), for ThreadSuspend (a model that has
recorded a fault stops), for ThreadLife (likewise, and a program that has forked
and joined all its threads is over), for AutoFlushWr (all writers closed and
flushed, the worker waits for ever) and for FormatterBuffer (a closed formatter, or one out
of items, stops). On for WeakRefs.

## 5. Fairness

- ThreadSync: weak fairness of every step inside an operation (the system
  schedules a thread that can run, and pthread mutexes are held for a few
  instructions); strong fairness of a client's Release (it is not stuck in its
  critical section, although Wait may take it away in between). Nothing makes a
  client call anything.
- ThreadSuspend: weak fairness of the collector's loops and of the signal
  handler; strong fairness for leaving a critical section and for a thread to be
  found outside one: allocations are short, but new ones begin for ever, so a
  thread asked again and again is assumed to be caught in between at last. That
  is a probabilistic matter in the code too (its back-off sleeps a while).
- WeakRefs: the collection under way is continued (allocation and the background
  thread both do so); WeakCleaner runs, and cleanup procedures return, as
  WeakRef.i3 asks. The program is under no obligation.
- ThreadLife: each thread finishes the call it has begun and, its closure having
  returned, its own end. Nothing makes a program call anything, or a closure
  return.
- AutoFlushWr: a client inside Seek goes on, the worker and Shutdown run once
  they have begun, and time passes, so that every alarm passes in the end.
  Nothing makes a client call anything.
- FormatterBuffer: both threads are scheduled. Nothing makes the client call.

## 6. What disagrees with the documentation

Runs that TLC finds violated:

1. *AlertWait may follow NIL* (PrevNotNil, PT 287). Signal takes a thread off
   the condition's list under the list's lock and resets the thread's
   `waitingOn` later under another. An alert that arrives in between makes XWait
   search a list that it is no longer on: an empty one gives a NIL dereference,
   one with others drops another's entry or is searched for ever. The
   assertions of XWait suppose it cannot happen. OnlyAlertRace shows it is the
   only failure, and NoFaultWithoutAlertWait proves that programs without
   AlertWait are free of it.
2. *Final cleanup too early* (FinalBeforeFree, RC 1302). Cleanups of the runtime
   are to come just before the object is freed; they are called also for objects
   that an object with a pending cleanup still refers to.
3. *An AlertJoin that raises Alerted can spoil the Join after it*
   (JoinableAfterAlert, PT 719). `t.joined` is reset only if `t.join` is not NIL,
   and the thread may have ended while the alert was chosen. The next Join dies
   of "attempt to join with thread twice", where Thread.lm3 leaves `joined` as it
   was.
4. *Little output is never flushed* (AllFlushed, AF 97). A writer comes on the
   worker's list in Seek, that is, when its buffer is full; AutoFlushWr.i3
   promises a flush every p seconds, and the comment on its representation has
   an inactive writer's buffer of no length, so that the first character would
   call Seek. Init and Flush take over the child's `hi` instead. ListedFlushed is
   what does hold.

Seen while modelling; the models have these steps, and no run is about them:

- *A signalled AlertWait raises Alerted* (PT 280), where Thread.lm3 promises a
  normal return (`signalChosen' = CURRENT \notin c.waiting`, 100) and Thread.i3
  allows either. It is ThreadSpec's RaiseSignalled, and ImplementsThreadSpec says
  that there is no other departure.
- *A Flush that never returns* (FM 1352). After Align and NoAlign, or after the
  Group of a row, the FlushOp is printed in Thinking mode, released to nobody, and
  Consumer looks for an item behind it, while the client waits in WaitUntilEmpty
  for the FlushOp to be eaten: both sleep for ever. Formatter.i3 says that Flush
  supplies the missing Ends and returns. NeverBothWaiting and OperationsReturn
  name the case (PastFlush) and hold in every other.
- *A thread is processed that is not Stopped* (PT 1191). StopWorld's re-sending
  loop tests a thread's state and then writes Stopping; the thread stops in
  between. The next assertion over it fails. WorldStopped holds all the same:
  the thread is parked, only its state is wrong. OnlyResendRace says that
  nothing else fails.
- *A weak ref without a cleanup dies too early* (RC 1155). WeakRef.i3 (89–96) counts
  as reachable what another object with a cleanup leads to; PreHandleWeakRefs
  keeps only objects that have a cleanup of their own. ToRef returns NIL for an
  object that a cleanup is about to be given.
- *Cleanup order* (RC 1249). WeakRef.i3 has A cleaned up before a B it refers to.
  With a second collection before WeakCleaner has taken A, B is cleaned up first.
  This and the one before are the two exceptions in DiesUnreachable.
- *Out of memory in Fork* (PT 687): the activation is disposed at once, and once
  more when the T, already registered for CleanThread, is collected.
- *An activation disposed while it is on allThreads* (PT 663): its thread has
  freed its slot, so that the T is collected, and has yet to leave the list.
- *Dead handles in a forked child* (PT 1672): the other threads' activations stay
  on allThreads, and the child's first StopWorld signals them.
  OnlyKnownFaults says of each of these three when it can happen, and that it
  happens under no other condition.
- *An alert during the worker's flush is fatal* (AF 137), where a scan in
  progress makes every newcomer to the list alert the worker.
- *Exit while the worker holds a writer* (AF 264): Shutdown finds the list empty
  and returns before that writer has been flushed.

- *joinMu after a fork of the process* (PT 1604): AtForkPrepare does not take it, so a
  child may find it locked by a thread that is gone, and its Joins and the ends of
  its threads wait for ever. This one is not a step of ThreadLife.

Seen while reading: an empty row, Group and End inside an Align, makes PrintRow's
Print meet an EndOp, which is a fatal UnmatchedEnd. ProcessEachStack, which nothing
calls, has a loop whose pointer does not advance. Probe's assertion
`t.cGetLim >= i` (FM 545) is weaker than the `> i` its callers rely on, and that
holds.

## 7. Proofs

Checked by TLAPS for every value of the constants; the only assumptions are the
named ASSUMEs of the modules (NIL is not a thread, the set of threads is
finite, MaxPending, TableSize and Growths are positive, and the like).
ThreadSync does not assume its threads finite; the one theorem of it that needs
that, StallOnlyInWaitHolds, says so. Every invariant and every action property
that a run checks is stated by a theorem.

**ThreadSyncProofs.** `Invariance` is Spec => []Inv. Mutual exclusion is not
inductive by itself: a mutex can be held in three ways (by a client, by a thread
in XWait that has not released it yet, by a thread it has been handed to and
that is still parked), and HolderOK says that `holder` is exactly that. To keep
it over a hand-off one has to know that the dequeued thread is parked for that
very mutex and in nobody else's hands (QueuesOK, ChainsOK), and that its
waitingOn names the list it is on (WaitingOnOK). From Inv follow
MutualExclusion, NoLostMutex, OnlyAlertRace, OnOneList, HandoffInOrder, and that
without AlertWait nothing fails at all. NoFault is a premise of the last part of
ChainsOK because the alert race breaks exactly that part, the step before the
failure is recorded.

`NoLostWakeupHolds`: given Inv, NoLostWakeup is inductive. pthread_cond_signal
remembers nothing, so whatever clears waitingOn or sets alerted must signal a
thread that is already parked in the same stretch, and a thread must look at both
in the stretch that parks it; ChainsOK is what says that the thread being woken
is the one parked there. ProgressWakes and ClientWakes go through the steps
inside operations and the clients' calls.

**ThreadSyncRefines.** `ImplementsThreadSpecHolds` is the refinement. Abstractly a
mutex is held by the client that has it locked and by nobody else: one that has
been handed to a thread still parked, or that XWait has yet to release, is free,
so that Acquire is the return from LockMutex. A queue maps to the set of its
elements, an alert flag to membership. Each action has a lemma that names the
step of ThreadSpec it is, or says that it is a stutter. Beyond Inv they need
RankOK (LockMutex, and the relock of XWait, return a mutex the client does not
have) and RaiseOK (raise is set only on the way from the alert branch to the
return of XWait). The refinement claims the steps that record no fault: after
one the program has crashed. The alert branch of XWait is two abstract steps:
ChooseAlerted for a thread still on the condition's list, RaiseSignalled for one
that Signal has taken off it, and the latter is what the theorem excepts.

`StallOnlyInWaitHolds`: suppose everyone is parked for good. A thread in
LockMutex is on its mutex's queue (Listed), a client has that mutex locked, and
it is parked too: in a Wait, as claimed, or in LockMutex for a mutex of higher
rank (BehindHigher). Ranks are numbers and the
threads are finite, so the chain of holders ends, and it ends in a Wait.

**ThreadSuspendProofs.** `Invariance` again. The heart is CountsOK: while
stopping, the semaphore is the number of threads in sigsuspend, and nLive the
number visited; while starting, it is the number that have come out. Since
StopWorld reads nothing but the semaphore, that equality of cardinalities is
what makes "acks = nLive" mean "all are parked"; re-sent and stale signals must
not disturb it. The lemmas about cardinalities come from FiniteSetTheorems.
WorldStopped, CleanWhenIdle, NotStoppedInCritical and OnlyResendRace follow.

**FormatterBufferProofs.** `Invariance` for chunks of any size and any number of
items. The segments and limits (SegmentsOK, ProducerOK, ConsumerOK) keep each
thread's unlocked work inside its own part of the array; `ModUnique` says that
items fewer than an array's length apart have different places, and with it
Intact survives the unlocked store and Expand (`ExpandKeeps`). WaitersOK makes
`t.waiters` the exact number of threads in Allocate's loop up to Close, which is
why Expand finds both of them there (ExpandBothBlocked). NeverBothWaiting needs
SleepersOK, the reason each sleeper has: of two threads in the loop one has just
expanded and woken the other; and a Flush and a Probe cannot wait for each other
while looking ahead stops at the FlushOp, which the Flush has put and released,
so that Probe asks for no more than there is. Where it does ask for more, a taker
is in front of the FlushOp: that is PastFlush, and the theorem says that nothing
else puts both to sleep.

**ThreadLifeProofs.** `Invariance` for any number of threads, any first size and
growths of the table, and any kinds of program. NoDangling is what one wants, and
what the rest is for: an activation is disposed when its T is unreachable, so
every way of using it has to be shown to keep the T. A thread that runs has its
slot (Slotted, SlotTable), one in a Fork or a Join is on a stack (Held), one on
its way into existence belongs to one Fork (Unborn), and one on the list either
runs or is about to leave it (ActiveList), which is the one way left to fail.
`SearchEnds` and the rest of FaultsKnown need SlotCount, an equality between
n_slotted and the number of taken entries: a slot is taken or freed for exactly
one entry (`TakenFinite` and cardinality lemmas), and fewer taken than there are
entries means one is free (`SomeFree`). In a forked child the equality becomes an
inequality, since AtForkChild clears slots and does not count them; the search
still ends. JoinedByOne says when `joined` may be set without a Join to answer
for it, which is exactly the divergence 3 of section 6 and the fork.

**AutoFlushWrProofs.** `Invariance` for any number of writers, any delays and any
size of buffer. PauseShort needs to know that minDelay is right when Worker uses
it, although it is rebuilt from Forever in a scan that lets go of mu at every
flush, while writers join at the head of the list and Seek takes minima of its
own. ToCome says which writers the scan has not counted yet: a set T that
contains the predecessors of its members, up to where the scan is. At the end of
the list, T is closed under predecessors, and Linked leaves only the empty set
for that, since no set of writers does nothing but point at itself: that is how
"the list ends" is said without an induction along it. `Enlisted` and `TakenOff`
keep it over an insertion and a removal. All of MinimumKept holds until the
program exits only, as Shutdown empties the list under the worker's hands.

**WeakRefsProofs.** `Invariance` for any number of objects and entries, any
references between them and any Others that the collector keeps, scanned again or
not. TriColour is not
inductive alone, and NothingLost hangs on it: at the end of a collection heap
becomes the new space, so that what is reachable must be in it. PhaseOK says what
each state has achieved (after state Three everything the table refers to is in
the new space; in state Five nothing is gray) and InHeap is NothingLost and
EntriesInHeap without reachability, a closed set around roots, Copy and the
referents of the table; `Reach` is the least such set, so that both follow.
ListsOK is the partition in a form that survives each change of a list: lists
without duplicates, pairwise disjoint, covering the table. EntriesOK says that
only live entries resolve; with that, and b growing at each use of an entry,
DeadStaysDead follows. The lemmas SamePhase and SameTable frame the
steps that touch only one half of the state.

PreHandleWeakRefs is where the two halves meet. WalkOK says what it leaves
behind: every object with a cleanup still in the old space is `Isolated`, that
is, there is a set around it, closed except for the new space, that holds no
other object with a cleanup. `Walks` is shown to establish it by taking the least
entry at which it would fail. From there DiesUnreachable is an argument about
closed sets: the new space and the sets around the others are closed, contain
neither the dying object nor a way to it, and Reach stays inside. The property is
stated against WeakRef.i3's own roots (ReachRoots), with the two exceptions of
section 6 as disjuncts. `Selected`
takes entries off a list without loss or duplication (SelectedList).
TableSoundHolds gets the partition's length from ListsOK by cardinalities.

## 8. Only model-checked, and not modelled

Model-checked only: the liveness properties, since the prover does no fairness
or ENABLED. They are LockGranted, SignalledReturns and AlertedReturns of
ThreadSync, SuspensionsEnd of ThreadSuspend, CleanupCalled and CollectionEnds of
WeakRefs, OperationsReturn of FormatterBuffer, ForkReturns of ThreadLife and
ListedFlushed of AutoFlushWr. The properties of the violation runs are false, of
course, and nothing is proved of them.

Not modelled, and why: PROJECT.json gives a reason for each component. The main
ones: coroutines and message queues are planned (section 2); of threads, XPause and
XIOWait (clock and file descriptors) and the parent's side of a process fork;
of auto-flushing writers, Seek to another position, Length and failures of the
child; the widths of counters such as the weak refs'
generation number are not (nothing wraps within reach of a run); the allocator,
page tables, type maps and exceptions are arithmetic over addresses and compiled
code; user-level and Windows threads are alternatives to PT; containers,
streams, pickles and files are sequential or pure input and output; the compiler
and the tools are sequential.
