-------------------------------- MODULE WeakRefs --------------------------------
(***************************************************************************)
(* Weak references, cleanup procedures and final cleanup in RTCollector.m3, *)
(* over a collector that works in steps while the program runs.            *)
(*                                                                         *)
(* An object has the same name wherever the collector moves it: moved      *)
(* holds the objects in the new space, and gray those of them that may     *)
(* still refer to the old one.  Each action runs with the heap locked      *)
(* (RTOS.LockHeap) and so is one step.  A global variable is a field of an *)
(* object that is never dropped.                                           *)
(***************************************************************************)
EXTENDS Integers, FiniteSets, SequencesExt

CONSTANTS Objects,    \* what NEW may return
          Finals,     \* the objects the thread package cleans up
          MaxEntries, \* bound on the size of weakTable
          MaxB,       \* bound on the number of weak refs made
          MaxRefs,    \* bound on the number of references stored in objects
          NIL

ASSUME ObjectsAssumption == NIL \notin Objects /\ Finals \subseteq Objects
ASSUME BoundsAssumption == MaxEntries \in Nat /\ MaxB \in Nat /\ MaxRefs \in Nat

VARIABLES
  heap,      \* the objects that are not free
  refs,      \* the references an object holds
  roots,     \* the objects that stacks refer to
  collectorState, moved, gray,
  size,      \* NUMBER(weakTable^)
  weakTable, \* entries: weak ref (a, b), object r, procedure p
  weakLive, weakFinal, weakDead, weakFree, \* the four lists through weakTable
  weak,      \* the objects whose header has the Weak bit
  cleaner,   \* where WeakCleaner is
  copy,      \* the object of the entry it handles
  finalised  \* the objects whose final cleanup has been called

heapVars == <<heap, refs, roots>>
weakVars == <<size, weakTable, weakLive, weakFinal, weakDead, weakFree, weak>>
cleanerVars == <<cleaner, copy>>
vars == <<heapVars, collectorState, moved, gray, weakVars, cleanerVars, finalised>>

Indices == 0 .. MaxEntries - 1

Entry == [a : Indices \cup {-1}, b : Nat, r : Objects \cup {NIL},
          p : {"NIL", "cleanup", "final"}]

(* Nothing reads r and p of an entry on the free list, which keep their    *)
(* last values in the code and are NIL here.                               *)
Freed(entry) == [entry EXCEPT !.r = NIL, !.p = "NIL"]

TypeOK ==
  /\ roots \subseteq Objects /\ heap \subseteq Objects
  /\ refs \in [Objects -> SUBSET Objects]
  /\ collectorState \in 0 .. 5
  /\ moved \subseteq Objects /\ gray \subseteq moved
  /\ size \in 0 .. MaxEntries
  /\ weakTable \in [Indices -> Entry]
  /\ weakLive \in Seq(Indices) /\ weakFinal \in Seq(Indices)
  /\ weakDead \in Seq(Indices) /\ weakFree \in Seq(Indices)
  /\ weak \subseteq heap
  /\ cleaner \in {"unborn", "ready", "waiting", "calling", "called"}
  /\ copy \in Objects \cup {NIL}
  /\ finalised \subseteq Objects

Init ==
  /\ heap = {} /\ refs = [x \in Objects |-> {}] /\ roots = {}
  /\ collectorState = 0 /\ moved = {} /\ gray = {}
  /\ size = 0
  /\ weakTable = [i \in Indices |-> [a |-> 0, b |-> 0, r |-> NIL, p |-> "NIL"]]
  /\ weakLive = <<>> /\ weakFinal = <<>> /\ weakDead = <<>> /\ weakFree = <<>>
  /\ weak = {}
  /\ cleaner = "unborn" /\ copy = NIL
  /\ finalised = {}

(* What can be reached from S, if x leads to next[x]. *)
Reach(S, next) ==
  {x \in Objects :
     \A C \in SUBSET Objects : S \subseteq C /\ (\A y \in C : next[y] \subseteq C) => x \in C}

Copy == {copy} \ {NIL}

Referents(list) == {weakTable[i].r : i \in ToSet(list)}

------------------------------------------------------------------------------
(* The collector moves objects and cleans them.                            *)

Collecting == collectorState # 0

Move_NotForwarded(S) ==
  IF Collecting
  THEN gray' = gray \cup (S \ moved) /\ UNCHANGED moved
  ELSE UNCHANGED <<moved, gray>>

Move(S) ==
  IF Collecting
  THEN moved' = moved \cup S /\ gray' = gray \cup (S \ moved)
  ELSE UNCHANGED <<moved, gray>>

Clean_StaysGray(x) ==
  /\ moved' = moved \cup refs[x]
  /\ gray' = gray \cup (refs[x] \ moved)

(* Clean the gray object x: move what it refers to. *)
Clean(x) ==
  /\ moved' = moved \cup refs[x]
  /\ gray' = (gray \cup (refs[x] \ moved)) \ {x}

CheckLoad_None(x) == x \in Objects /\ UNCHANGED <<moved, gray>>

(* The program loads a reference to x (CheckLoadTracedRef). *)
CheckLoad(x) == IF x \in gray THEN Clean(x) ELSE UNCHANGED <<moved, gray>>

------------------------------------------------------------------------------
(* The program.                                                            *)

New(x) ==
  /\ x \notin heap
  /\ heap' = heap \cup {x} /\ roots' = roots \cup {x}
  /\ refs' = [refs EXCEPT ![x] = {}]
  /\ moved' = IF Collecting THEN moved \cup {x} ELSE moved
  /\ finalised' = finalised \ {x}
  /\ UNCHANGED <<collectorState, gray, weakVars, cleanerVars>>

Drop(x) ==
  /\ x \in roots
  /\ roots' = roots \ {x}
  /\ UNCHANGED <<heap, refs, collectorState, moved, gray, weakVars, cleanerVars, finalised>>

Load(x, y) ==
  /\ x \in roots /\ y \in refs[x] \ roots
  /\ roots' = roots \cup {y}
  /\ CheckLoad(y)
  /\ UNCHANGED <<heap, refs, collectorState, weakVars, cleanerVars, finalised>>

References == {xy \in Objects \X Objects : xy[2] \in refs[xy[1]]}

Store(x, y) ==
  /\ x \in roots /\ y \in roots \ refs[x]
  /\ Cardinality(References) < MaxRefs
  /\ refs' = [refs EXCEPT ![x] = @ \cup {y}]
  /\ UNCHANGED <<heap, roots, collectorState, moved, gray, weakVars, cleanerVars, finalised>>

Clear(x, y) ==
  /\ x \in roots /\ y \in refs[x]
  /\ refs' = [refs EXCEPT ![x] = @ \ {y}]
  /\ UNCHANGED <<heap, roots, collectorState, moved, gray, weakVars, cleanerVars, finalised>>

(* The free list, after ExpandWeakTable when it was empty. *)
ExpandedSize == IF weakFree = <<>> THEN 2 * size + 1 ELSE size

ExpandedFree_OffByOne ==
  IF weakFree = <<>> THEN [j \in 1 .. size + 1 |-> 2 * size + 2 - j] ELSE weakFree

ExpandedFree ==
  IF weakFree = <<>> THEN [j \in 1 .. size + 1 |-> 2 * size + 1 - j] ELSE weakFree

NewEntry_FreshB(i, x, p) == [a |-> i, b |-> 1, r |-> x, p |-> p]

(* A new weak ref for entry i. *)
NewEntry(i, x, p) == [a |-> i, b |-> weakTable[i].b + 1, r |-> x, p |-> p]

WeakRefsMade == SumFunction([i \in Indices |-> weakTable[i].b])

(* A second weak ref with a cleanup for one object is a client's error. *)
WeakRefFromRef(x, p) ==
  /\ x \in roots
  /\ p = "cleanup" => x \notin weak
  /\ ExpandedSize <= MaxEntries /\ WeakRefsMade < MaxB
  /\ LET i == Head(ExpandedFree) IN
       /\ weakTable' = [weakTable EXCEPT ![i] = NewEntry(i, x, p)]
       /\ weakLive' = <<i>> \o weakLive
  /\ weakFree' = Tail(ExpandedFree)
  /\ size' = ExpandedSize
  /\ weak' = IF p = "NIL" THEN weak ELSE weak \cup {x}
  /\ cleaner' = IF p # "NIL" /\ cleaner = "unborn" THEN "ready" ELSE cleaner
  /\ UNCHANGED <<heapVars, collectorState, moved, gray, weakFinal, weakDead, copy, finalised>>

(* The thread package has at most one final cleanup for an object. *)
RegisterFinalCleanup(x) ==
  /\ x \in (Finals \cap roots) \ Referents(weakFinal)
  /\ ExpandedSize <= MaxEntries
  /\ LET i == Head(ExpandedFree) IN
       /\ weakTable' = [weakTable EXCEPT ![i].r = x, ![i].p = "final"]
       /\ weakFinal' = <<i>> \o weakFinal
  /\ weakFree' = Tail(ExpandedFree)
  /\ size' = ExpandedSize
  /\ finalised' = finalised \ {x}
  /\ UNCHANGED <<heapVars, collectorState, moved, gray, weakLive, weakDead, weak, cleanerVars>>

(* The weak ref that FromRef made of entry i, until it is dead. *)
Resolves(i) == weakTable[i].a = i /\ weakTable[i].b > 0

WeakRefToRef(i) ==
  /\ Resolves(i)
  /\ LET x == weakTable[i].r IN
       /\ roots' = roots \cup {x}
       /\ IF Collecting /\ x \notin moved
          THEN /\ moved' = moved \cup {x} \cup refs[x]
               /\ gray' = gray \cup (refs[x] \ (moved \cup {x}))
          ELSE CheckLoad(x)
  /\ UNCHANGED <<heap, refs, collectorState, weakVars, cleanerVars, finalised>>

------------------------------------------------------------------------------
(* CollectSome, by an allocating thread or by the background thread, which *)
(* it may wake (signalBackground).                                         *)

(* Suspend the other threads, flip the spaces, promote and clean what the  *)
(* stacks refer to.  Others are kept: objects on a page a stack seems to   *)
(* refer to, and in a partial collection those of the older generation.    *)
(* Some are not scanned again: no store has made their page dirty, so that *)
(* they refer to nothing in the old space.                                 *)
CollectSomeInStateZero ==
  /\ collectorState = 0
  /\ LET Held == roots \cup Copy IN
       \E Others \in SUBSET heap :
         /\ moved' = Held \cup Others \cup UNION {refs[x] : x \in Held}
         /\ \E Unscanned \in SUBSET {x \in Others : refs[x] \subseteq moved'} :
              gray' = moved' \ (Held \cup Unscanned)
  /\ collectorState' = 1
  /\ UNCHANGED <<heapVars, weakVars, cleanerVars, finalised>>

(* In states One, Three and Four: clean a gray object ... *)
CopySome(x) ==
  /\ collectorState \in {1, 3, 4}
  /\ x \in gray
  /\ Clean(x)
  /\ UNCHANGED <<collectorState, heapVars, weakVars, cleanerVars, finalised>>

CopiedAll_SkipsWeakRefs ==
  /\ collectorState \in {1, 4}
  /\ gray = {}
  /\ collectorState' = 5
  /\ UNCHANGED <<moved, gray, heapVars, weakVars, cleanerVars, finalised>>

(* ... or go on to the next state when there is none. *)
CopiedAll ==
  /\ collectorState \in {1, 4}
  /\ gray = {}
  /\ collectorState' = collectorState + 1
  /\ UNCHANGED <<moved, gray, heapVars, weakVars, cleanerVars, finalised>>

WeakWalk_NotOthers(walk, i) ==
  LET r == weakTable[i].r
      Found == Reach({r}, [x \in Objects |-> IF x \in walk.moved THEN {} ELSE refs[x]])
  IN  IF weakTable[i].p = "NIL" \/ r \in walk.moved \cup walk.marka
      THEN walk
      ELSE [moved |-> walk.moved, marka |-> walk.marka \cup (Found \ walk.moved)]

(* WeakWalk1 and WeakWalk2, for an entry: what its object leads to in the  *)
(* old space is marked, except that other objects with a cleanup, and      *)
(* objects marked for an earlier entry, are promoted and not followed.     *)
WeakWalk(walk, i) ==
  LET r == weakTable[i].r
      Stop == walk.moved \cup walk.marka \cup (weak \ {r})
      Found == Reach({r}, [x \in Objects |-> IF x \in Stop THEN {} ELSE refs[x]])
  IN  IF weakTable[i].p = "NIL" \/ r \in walk.moved \cup walk.marka
      THEN walk
      ELSE [moved |-> walk.moved \cup (Found \cap Stop), marka |-> walk.marka \cup (Found \ Stop)]

(* What has been promoted and marked after the first k entries. *)
Walks[k \in 0 .. Len(weakLive)] ==
  IF k = 0 THEN [moved |-> moved, marka |-> {}] ELSE WeakWalk(Walks[k - 1], weakLive[k])

PreHandleWeakRefs == Walks[Len(weakLive)]

CollectSomeInStateTwo ==
  /\ collectorState = 2
  /\ Move(PreHandleWeakRefs.moved)
  /\ collectorState' = 3
  /\ UNCHANGED <<heapVars, weakVars, cleanerVars, finalised>>

Unmoved(i) == weakTable[i].r \notin moved

(* The elements of list that are in S, in their order. *)
Selected(list, S) ==
  LET At == {k \in DOMAIN list : list[k] \in S}
  IN  [j \in 1 .. Cardinality(At) |->
         list[CHOOSE k \in At : Cardinality({l \in At : l <= k}) = j]]

Dying(p) == Reverse(Selected(weakLive, {i \in Indices : Unmoved(i) /\ weakTable[i].p = p}))

Finalising_Any == Reverse(weakFinal)

(* The final entries whose object is in the old space, once the objects of *)
(* the dead entries are not.                                               *)
Finalising ==
  LET Dead == Referents(weakDead \o Dying("cleanup"))
  IN  Reverse(Selected(weakFinal, {i \in Indices : Unmoved(i) /\ weakTable[i].r \notin Dead}))

ClearWeak_Not == weak

(* The objects of dead entries lose their Weak bit. *)
ClearWeak == weak \ (Referents(weakLive) \ moved)

BroadcastHeap_None == UNCHANGED cleaner

(* signalWeak makes CollectorOff wake WeakCleaner. *)
BroadcastHeap == cleaner' = IF cleaner = "waiting" THEN "ready" ELSE cleaner

(* PostHandleWeakRefs, and on to state Four. *)
CollectSomeInStateThree ==
  /\ collectorState = 3
  /\ gray = {}
  /\ weakDead' = Dying("cleanup") \o weakDead
  /\ weakFinal' = Selected(weakFinal, Indices \ ToSet(Finalising))
  /\ weakLive' = Selected(weakLive, {i \in Indices : ~Unmoved(i)})
  /\ weakFree' = Finalising \o Dying("NIL") \o weakFree
  /\ weakTable' = [i \in Indices |->
       CASE i \in ToSet(Finalising)       -> Freed(weakTable[i])
         [] i \in ToSet(Dying("NIL"))     -> [Freed(weakTable[i]) EXCEPT !.a = -1]
         [] i \in ToSet(Dying("cleanup")) -> [weakTable[i] EXCEPT !.a = -1]
         [] OTHER                         -> weakTable[i]]
  /\ weak' = ClearWeak
  /\ Move(Referents(weakDead \o Dying("cleanup")))
  /\ finalised' = finalised \cup Referents(Finalising)
  /\ collectorState' = 4
  /\ BroadcastHeap
  /\ UNCHANGED <<heapVars, size, copy>>

(* Free the old space, and with it the fields of its objects. *)
CollectSomeInStateFive ==
  /\ collectorState = 5
  /\ heap' = heap \cap moved
  /\ refs' = [x \in Objects |-> IF x \in moved THEN refs[x] ELSE {}]
  /\ weak' = weak \cap moved
  /\ moved' = {} /\ gray' = {}
  /\ collectorState' = 0
  /\ UNCHANGED <<roots, size, weakTable, weakLive, weakFinal, weakDead, weakFree>>
  /\ UNCHANGED <<cleanerVars, finalised>>

------------------------------------------------------------------------------
(* WeakCleaner.                                                            *)

WaitHeap ==
  /\ cleaner = "ready" /\ weakDead = <<>>
  /\ cleaner' = "waiting"
  /\ UNCHANGED <<heapVars, collectorState, moved, gray, weakVars, copy, finalised>>

(* A broadcast meant for the background thread, or a spurious wake-up. *)
WaitHeapReturns ==
  /\ cleaner = "waiting"
  /\ cleaner' = "ready"
  /\ UNCHANGED <<heapVars, collectorState, moved, gray, weakVars, copy, finalised>>

TakeDead ==
  /\ cleaner = "ready" /\ weakDead # <<>>
  /\ LET i == Head(weakDead) IN
       /\ copy' = weakTable[i].r
       /\ Move({weakTable[i].r})
       /\ weakTable' = [weakTable EXCEPT ![i] = Freed(@)]
       /\ weakFree' = <<i>> \o weakFree
  /\ weakDead' = Tail(weakDead)
  /\ cleaner' = "calling"
  /\ UNCHANGED <<heapVars, collectorState, size, weakLive, weakFinal, weak, finalised>>

(* The cleanup procedure is called: it has the object, and what it does is *)
(* among the program's actions.                                            *)
CallCleanup ==
  /\ cleaner = "calling"
  /\ roots' = roots \cup {copy}
  /\ CheckLoad(copy)
  /\ cleaner' = "called"
  /\ UNCHANGED <<heap, refs, collectorState, weakVars, copy, finalised>>

CleanupReturns ==
  /\ cleaner = "called"
  /\ copy' = NIL
  /\ cleaner' = "ready"
  /\ UNCHANGED <<heapVars, collectorState, moved, gray, weakVars, finalised>>

------------------------------------------------------------------------------
Program ==
  \/ \E x \in Objects : New(x) \/ Drop(x) \/ RegisterFinalCleanup(x)
  \/ \E x, y \in Objects : Load(x, y) \/ Store(x, y) \/ Clear(x, y)
  \/ \E x \in Objects, p \in {"NIL", "cleanup"} : WeakRefFromRef(x, p)
  \/ \E i \in Indices : WeakRefToRef(i)

CollectSome ==
  \/ CollectSomeInStateZero
  \/ \E x \in Objects : CopySome(x)
  \/ CopiedAll
  \/ CollectSomeInStateTwo
  \/ CollectSomeInStateThree
  \/ CollectSomeInStateFive

WeakCleaner == WaitHeap \/ TakeDead \/ CallCleanup \/ CleanupReturns

Next == Program \/ CollectSome \/ WaitHeapReturns \/ WeakCleaner

Spec == Init /\ [][Next]_vars

(* The background thread finishes collections; cleanup procedures return   *)
(* promptly, as WeakRef.i3 asks.                                           *)
FairSpec == Spec /\ WF_vars(Collecting /\ CollectSome) /\ WF_vars(WeakCleaner)

------------------------------------------------------------------------------
(* Properties.                                                             *)

(* Nothing is freed that the program can still reach, from its stacks or   *)
(* through objects that are about to be handed to a cleanup procedure.     *)
NothingLost == Reach(roots \cup Copy \cup Referents(weakDead), refs) \subseteq heap

(* No entry in use refers to an object that has been freed: ToRef never    *)
(* returns one, and no final cleanup is called with one.                   *)
EntriesInHeap == Referents(weakLive) \cup Referents(weakFinal) \subseteq heap

(* The strong tricolor invariant of CheckLoadTracedRef: while a collection *)
(* is under way the program holds only black objects, and no black object  *)
(* refers to a white one.                                                  *)
TriColour ==
  Collecting => /\ roots \subseteq moved \ gray
                /\ \A x \in moved \ gray : refs[x] \subseteq moved

(* The four lists part the entries of weakTable between them: none is      *)
(* lost, none is on two lists or twice on one.                             *)
ListsPartition ==
  LET all == weakLive \o weakFinal \o weakDead \o weakFree
  IN  Len(all) = size /\ ToSet(all) = 0 .. size - 1

(* The Weak bit of an object tells whether a weak ref to it with a cleanup *)
(* is alive: what WeakWalk1 and the assertion of FromRef rely on.          *)
WeakBit ==
  weak = {weakTable[i].r : i \in {j \in ToSet(weakLive) :
                                    weakTable[j].p = "cleanup"}}

(* What every phase of a collection takes for granted of the table.        *)
TableSound == ListsPartition /\ WeakBit

TableReferents == Referents(weakLive) \cup Referents(weakFinal) \cup Referents(weakDead)

(* What keeps every object that can be reached, and the referents of the   *)
(* table, in heap.                                                         *)
InHeap ==
  /\ roots \cup Copy \cup TableReferents \subseteq heap
  /\ moved \subseteq heap
  /\ \A x \in heap : refs[x] \subseteq heap

(* The phases of a collection: the program can load from copy at any time; *)
(* after state Three every referent of the table is in the new space, and  *)
(* in state Five nothing is gray any more.                                 *)
PhaseOK ==
  /\ IF Collecting THEN Copy \subseteq moved ELSE moved = {}
  /\ collectorState \in {4, 5} => TableReferents \subseteq moved
  /\ collectorState = 5 => gray = {}
  /\ cleaner = "calling" => copy # NIL

(* The lists of weakTable: none holds an entry twice, no two share one. *)
ListsOK ==
  LET lists == <<weakLive, weakFinal, weakDead, weakFree>>
  IN  /\ \A j \in 1 .. 4 : IsInjective(lists[j])
      /\ \A j, k \in 1 .. 4 : j # k => ToSet(lists[j]) \cap ToSet(lists[k]) = {}
      /\ UNION {ToSet(lists[j]) : j \in 1 .. 4} = 0 .. size - 1

(* Only a live entry resolves, and it is for the weak ref made last of it. *)
EntriesOK ==
  /\ \A i \in ToSet(weakLive) :
       weakTable[i].a = i /\ weakTable[i].b > 0 /\ weakTable[i].p \in {"NIL", "cleanup"}
  /\ \A i \in Indices : Resolves(i) => i \in ToSet(weakLive)

(* With the objects in M moved, w has around it a closed set in which      *)
(* nothing else with a cleanup is left behind.                             *)
Isolated(w, M) ==
  \E F \in SUBSET Objects :
    /\ w \in F /\ F \cap weak \subseteq M \cup {w}
    /\ \A y \in F \ M : refs[y] \subseteq F \cup M

(* What PreHandleWeakRefs achieves, and cleaning and the program keep. *)
WalkOK == collectorState = 3 => \A w \in weak \ moved : Isolated(w, moved)

(* The inductive invariant. *)
Inv ==
  /\ TypeOK /\ InHeap /\ TriColour /\ PhaseOK
  /\ ListsOK /\ EntriesOK /\ WeakBit /\ WalkOK

(* WeakRef.i3's roots for x: the stacks, and every other weakly referenced  *)
(* object with a cleanup that has still to be called.                      *)
ReachRoots(x) == roots \cup Copy \cup ((weak \cup Referents(weakDead)) \ {x})

(* A weak ref dies only if its object is not reachable as WeakRef.i3 has   *)
(* it, with two exceptions.  No stack leads to the object in either, but   *)
(* the ref may have no cleanup, for PreHandleWeakRefs keeps only objects   *)
(* that have one; or the object may be kept by nothing but objects whose   *)
(* own cleanup is already scheduled.                                       *)
DiesUnreachable ==
  [][\A i \in ToSet(weakLive) \ ToSet(weakLive') :
       LET r == weakTable[i].r IN
         /\ r \notin Reach(roots \cup Copy, refs)
         /\ \/ r \notin Reach(ReachRoots(r), refs)
            \/ weakTable[i].p = "NIL"
            \/ r \notin Reach(weak \ {r}, refs)]_vars

(* A weak ref resolves to one object, and never again once it is dead,     *)
(* however often its entry is used anew.                                   *)
DeadStaysDead ==
  [][\A i \in Indices :
       Resolves(i)' /\ weakTable'[i].b = weakTable[i].b
         => Resolves(i) /\ weakTable'[i].r = weakTable[i].r]_vars

(* Final cleanup is called only for an object that no stack leads to. *)
FinalUnreachable ==
  [][(finalised' \ finalised) \cap Reach(roots \cup Copy, refs) = {}]_vars

(* Entries on the dead list get WeakCleaner to call a cleanup. *)
CleanupCalled == weakDead # <<>> ~> cleaner = "calling"

(* A collection that has begun ends, whatever the program does meanwhile. *)
CollectionEnds == collectorState = 1 ~> collectorState = 0

(* RTHeapRep.i3: final cleanup comes "just before r is freed", so nobody   *)
(* ever holds an object afterwards.                                        *)
FinalBeforeFree == finalised \cap roots = {}
===============================================================================
