---------------------------- MODULE FormatterBuffer ----------------------------
(***************************************************************************)
(* The buffer of Formatter.m3 between the client (Producer) and the thread *)
(* that prints (Consumer).  The client's operations form an endless stream *)
(* of items; each thread owns a segment of it and works on its own segment *)
(* without the lock, up to a limit it remembers.  The segments lie in a    *)
(* circular array, which grows when both threads wait for room.            *)
(*                                                                         *)
(* Items are their places in the stream.  Those in flushes are FlushOps;   *)
(* those in takers are printed together with the next item, whatever that  *)
(* is: NoAlignOp, and the GroupOp that begins a row of an Align.  A        *)
(* section under t.lock is one step, and so is each Broadcast after one.   *)
(***************************************************************************)
EXTENDS Integers, FiniteSets

CONSTANTS ChunkSize, \* how many items are handed over at once
          MaxItems,  \* bound on the number of items of the stream
          MaxTakers  \* bound on the takers that are not printed yet

ASSUME ChunkAssumption == ChunkSize \in Nat \ {0}
ASSUME MaxItemsAssumption == MaxItems \in Nat

VARIABLES
  buffer, bufSize,  \* the circular array; item i is in place i % bufSize
  start, size,      \* the segments
  next,             \* the first item not produced yet
  pPutLim, cGetLim, \* how far Producer may put and Consumer may get
  flushes, takers,  \* those not given back, and those not printed, of these kinds
  pos, look,        \* the next item Consumer prints, the next it looks at
  waiters,          \* t.waiters: the number of threads in Allocate's loop
  waiting,          \* the threads on the condition t.changed
  failure,          \* printing has failed
  alerted,          \* Close has alerted Consumer
  pc,
  op, pFree         \* the client's operation and AddRef's local variable

segments == <<start, size>>
array == <<buffer, bufSize>>
producerVars == <<next, flushes, takers, op>>
consumerVars == <<pos, look>>
vars == <<array, segments, producerVars, pPutLim, cGetLim, consumerVars, waiters, waiting,
          failure, alerted, pc, pFree>>

Producer == "Producer"
Consumer == "Consumer"
Who == {Producer, Consumer}

NIL == -1

Min(a, b) == IF a < b THEN a ELSE b

TypeOK ==
  /\ bufSize \in Nat \ {0} /\ buffer \in [0 .. bufSize - 1 -> Nat \cup {NIL}]
  /\ start \in [Who -> Nat] /\ size \in [Who -> Nat]
  /\ next \in Nat /\ pPutLim \in Nat /\ cGetLim \in Nat
  /\ flushes \subseteq 0 .. next - 1 /\ takers \subseteq 0 .. next - 1
  /\ pos \in Nat /\ look \in Nat
  /\ waiters \in Nat /\ waiting \subseteq Who
  /\ failure \in BOOLEAN /\ alerted \in BOOLEAN
  /\ pc \in [Who -> {"client", "room", "allocate", "store", "share", "shared", "flush", "alert",
                     "join", "closed", "print", "discarded", "failed", "done", "waiting"}]
  /\ op \in {"text", "taker", "flush", "close"}
  /\ pFree \in Nat

Init ==
  /\ bufSize = 4 * ChunkSize /\ buffer = [k \in 0 .. bufSize - 1 |-> NIL]
  /\ start = [who \in Who |-> 0]
  /\ size = [who \in Who |-> IF who = Producer THEN bufSize ELSE 0]
  /\ next = 0 /\ pPutLim = 0 /\ cGetLim = 0 /\ flushes = {} /\ takers = {}
  /\ pos = 0 /\ look = 0
  /\ waiters = 0 /\ waiting = {}
  /\ failure = FALSE /\ alerted = FALSE
  /\ pc = [who \in Who |-> IF who = Producer THEN "client" ELSE "print"]
  /\ op = "text" /\ pFree = 0

------------------------------------------------------------------------------
(* Both threads.                                                           *)

Goto(this, where) == pc' = [pc EXCEPT ![this] = where]

Other(this) == IF this = Producer THEN Consumer ELSE Producer

(* Hand the n oldest items of a segment over to the other thread.          *)
Release(this, n) ==
  /\ start' = [start EXCEPT ![this] = @ + n]
  /\ size' = [size EXCEPT ![this] = @ - n, ![Other(this)] = @ + n]

(* Thread.Broadcast(t.changed) *)
Changed == waiting' = {}

(* Mutant: items keep the places they had in the smaller array. *)
Expand_InPlace ==
  /\ buffer' = [k \in 0 .. 2 * bufSize - 1 |-> IF k < bufSize THEN buffer[k] ELSE NIL]
  /\ bufSize' = 2 * bufSize
  /\ size' = [size EXCEPT ![Producer] = @ + bufSize]

(* Twice the room, each item in its new place. *)
Expand ==
  LET newSize == 2 * bufSize
      Items == start[Consumer] .. start[Consumer] + bufSize - 1
      At(k) == {i \in Items : i % newSize = k}
  IN  /\ buffer' = [k \in 0 .. newSize - 1 |->
                      IF At(k) = {} THEN NIL ELSE buffer[(CHOOSE i \in At(k) : TRUE) % bufSize]]
      /\ bufSize' = newSize
      /\ size' = [size EXCEPT ![Producer] = @ + newSize - bufSize]

(* Mutant: the other thread is not told. *)
AwaitChange_Silent(this) ==
  /\ IF waiters' = 2 THEN Expand ELSE UNCHANGED <<array, size>>
  /\ waiting' = waiting \cup {this}
  /\ Goto(this, "waiting")

(* Allocate's loop, having found too little: whoever sees both threads     *)
(* here expands the buffer, which also wakes the other.                    *)
AwaitChange(this) ==
  /\ IF waiters' = 2
     THEN Expand /\ waiting' = {this}
     ELSE waiting' = waiting \cup {this} /\ UNCHANGED <<array, size>>
  /\ Goto(this, "waiting")

------------------------------------------------------------------------------
(* Producer: AddRef, Flush and Close.                                      *)

(* How far a thread with free items in its segment may put. *)
PutLimit(free) == start[Producer] + Min(free, ChunkSize)

(* AddRef, when the space allowed is used up. *)
HandOver ==
  /\ Release(Producer, pPutLim - start[Producer])
  /\ pFree' = size'[Producer]
  /\ Goto(Producer, IF failure THEN "client" ELSE "room")

(* The item to put is FlushOp. *)
Flushing(what) == what \in {"flush", "close"}

AddRef(what) ==
  /\ pc[Producer] = "client"
  /\ next < (IF Flushing(what) THEN MaxItems ELSE MaxItems - 1)
  /\ what = "taker" => Cardinality(takers) < MaxTakers
  /\ op' = what
  /\ IF next = pPutLim
     THEN HandOver
     ELSE Goto(Producer, "store") /\ UNCHANGED <<segments, pFree>>
  /\ UNCHANGED <<array, next, flushes, takers, pPutLim, cGetLim, consumerVars, waiters, waiting,
                 failure, alerted>>

HandedOver ==
  /\ pc[Producer] = "room"
  /\ Changed
  /\ IF pFree = 0
     THEN Goto(Producer, "allocate") /\ UNCHANGED pPutLim
     ELSE Goto(Producer, "store") /\ pPutLim' = PutLimit(pFree)
  /\ UNCHANGED <<array, segments, producerVars, cGetLim, consumerVars, waiters,
                 failure, alerted, pFree>>

(* Allocate returns, or raises Wr.Failure. *)
RoomFound ==
  /\ IF failure
     THEN Goto(Producer, "client") /\ UNCHANGED pPutLim
     ELSE Goto(Producer, "store") /\ pPutLim' = PutLimit(size[Producer])
  /\ UNCHANGED <<array, size, waiting>>

NeedsRoom == size[Producer] < ChunkSize /\ ~failure

AllocateRoom ==
  /\ pc[Producer] = "allocate"
  /\ waiters' = IF NeedsRoom THEN waiters + 1 ELSE waiters
  /\ IF NeedsRoom THEN AwaitChange(Producer) /\ UNCHANGED pPutLim ELSE RoomFound
  /\ UNCHANGED <<start, producerVars, cGetLim, consumerVars, failure, alerted, pFree>>

(* Mutant: the thread that has found room is still counted. *)
WokenForRoom_StillCounted ==
  /\ pc[Producer] = "waiting" /\ Producer \notin waiting
  /\ UNCHANGED waiters
  /\ IF NeedsRoom THEN AwaitChange(Producer) /\ UNCHANGED pPutLim ELSE RoomFound
  /\ UNCHANGED <<start, producerVars, cGetLim, consumerVars, failure, alerted, pFree>>

WokenForRoom ==
  /\ pc[Producer] = "waiting" /\ Producer \notin waiting
  /\ waiters' = IF NeedsRoom THEN waiters ELSE waiters - 1
  /\ IF NeedsRoom THEN AwaitChange(Producer) /\ UNCHANGED pPutLim ELSE RoomFound
  /\ UNCHANGED <<start, producerVars, cGetLim, consumerVars, failure, alerted, pFree>>

(* The item is put, without the lock.  At the limit, or if it is FlushOp,  *)
(* AddRef goes on to release the segment.                                  *)
Store ==
  /\ pc[Producer] = "store"
  /\ buffer' = [buffer EXCEPT ![next % bufSize] = next]
  /\ next' = next + 1
  /\ flushes' = IF Flushing(op) THEN flushes \cup {next} ELSE flushes
  /\ takers' = IF op = "taker" THEN takers \cup {next} ELSE takers
  /\ Goto(Producer, IF next' = pPutLim \/ Flushing(op) THEN "share" ELSE "client")
  /\ UNCHANGED <<bufSize, segments, op, pPutLim, cGetLim, consumerVars, waiters, waiting,
                 failure, alerted, pFree>>

Share ==
  /\ pc[Producer] = "share"
  /\ Release(Producer, next - start[Producer])
  /\ pFree' = size'[Producer]
  /\ Goto(Producer, IF failure THEN "client" ELSE "shared")
  /\ UNCHANGED <<array, producerVars, pPutLim, cGetLim, consumerVars, waiters, waiting,
                 failure, alerted>>

(* Mutant: the limit does not depend on what is free. *)
Shared_WholeChunk ==
  /\ pc[Producer] = "shared"
  /\ Changed
  /\ pPutLim' = start[Producer] + ChunkSize
  /\ Goto(Producer, IF Flushing(op) THEN "flush" ELSE "client")
  /\ UNCHANGED <<array, segments, producerVars, cGetLim, consumerVars, waiters,
                 failure, alerted, pFree>>

Shared ==
  /\ pc[Producer] = "shared"
  /\ Changed
  /\ pPutLim' = PutLimit(pFree)
  /\ Goto(Producer, IF Flushing(op) THEN "flush" ELSE "client")
  /\ UNCHANGED <<array, segments, producerVars, cGetLim, consumerVars, waiters,
                 failure, alerted, pFree>>

(* Flush, and the Flush in Close: wait until Consumer has eaten it all,    *)
(* then flush the writer, which may raise Wr.Failure.                      *)
WaitUntilEmpty ==
  /\ pc[Producer] = "flush" /\ Producer \notin waiting
  /\ IF start[Consumer] < next /\ ~failure
     THEN waiting' = waiting \cup {Producer} /\ UNCHANGED pc
     ELSE /\ \/ Goto(Producer, IF op = "close" /\ ~failure THEN "alert" ELSE "client")
             \/ Goto(Producer, "client")
          /\ UNCHANGED waiting
  /\ UNCHANGED <<array, segments, producerVars, pPutLim, cGetLim, consumerVars, waiters,
                 failure, alerted, pFree>>

Close ==
  /\ pc[Producer] = "alert"
  /\ alerted' = TRUE
  /\ Goto(Producer, "join")
  /\ UNCHANGED <<array, segments, producerVars, pPutLim, cGetLim, consumerVars, waiters,
                 waiting, failure, pFree>>

Join ==
  /\ pc[Producer] = "join" /\ pc[Consumer] = "done"
  /\ Goto(Producer, "closed")
  /\ UNCHANGED <<array, segments, producerVars, pPutLim, cGetLim, consumerVars, waiters,
                 waiting, failure, alerted, pFree>>

------------------------------------------------------------------------------
(* Consumer: PrintTop and the procedures it calls.                         *)

(* Looking ahead stops at a FlushOp until that is printed.  But a taker    *)
(* prints the FlushOp after it in Thinking mode as well, which releases    *)
(* nothing, and Consumer then looks for the item behind it.                *)
MayLook == \A i \in pos .. look - 1 : i \in flushes => i - 1 \in takers

(* Consumer waits for an item behind a FlushOp that it has not printed.    *)
PastFlush ==
  /\ pc[Consumer] = "waiting"
  /\ \E i \in flushes : pos <= i /\ i < look /\ i - 1 \in takers

NeedsItem == size[Consumer] < look - start[Consumer] + 1

ItemFound ==
  /\ cGetLim' = start[Consumer] + size[Consumer]
  /\ look' = look + 1
  /\ Goto(Consumer, "print")
  /\ UNCHANGED <<array, size, waiting>>

(* Probe and Get the item look, which its limit may already include. *)
Probe ==
  /\ pc[Consumer] = "print" /\ MayLook
  /\ IF look < cGetLim
     THEN /\ look' = look + 1
          /\ UNCHANGED <<array, size, cGetLim, waiters, waiting, pc>>
     ELSE /\ waiters' = IF NeedsItem THEN waiters + 1 ELSE waiters
          /\ IF NeedsItem
             THEN AwaitChange(Consumer) /\ UNCHANGED <<cGetLim, look>>
             ELSE ItemFound
  /\ UNCHANGED <<start, producerVars, pPutLim, pos, failure, alerted, pFree>>

WokenForItem ==
  /\ pc[Consumer] = "waiting" /\ Consumer \notin waiting
  /\ waiters' = IF NeedsItem THEN waiters ELSE waiters - 1
  /\ IF NeedsItem THEN AwaitChange(Consumer) /\ UNCHANGED <<cGetLim, look>> ELSE ItemFound
  /\ UNCHANGED <<start, producerVars, pPutLim, pos, failure, alerted, pFree>>

(* AlertWait raises Alerted: PrintTop ends, waiters stays as it is. *)
Alerted ==
  /\ pc[Consumer] = "waiting" /\ alerted
  /\ waiting' = waiting \ {Consumer}
  /\ alerted' = FALSE
  /\ Goto(Consumer, "done")
  /\ UNCHANGED <<array, segments, producerVars, pPutLim, cGetLim, consumerVars, waiters,
                 failure, pFree>>

(* Print an operation in Writing mode, with its arguments, the item it     *)
(* takes or the closing EndOp: the items before p.  A chunk of printed     *)
(* items, or what a FlushOp ends, goes back to Producer.                   *)
PrintOp(p) ==
  /\ pc[Consumer] = "print"
  /\ p \in pos + 1 .. look
  /\ p - 1 \notin takers
  /\ \A i \in pos .. p - 1 : i \in flushes => i = p - 1 /\ (i = pos \/ i - 1 \in takers)
  /\ pos' = p /\ takers' = takers \ (pos .. p - 1)
  /\ IF p - 1 \in flushes \/ p >= start[Consumer] + ChunkSize
     THEN /\ Release(Consumer, p - start[Consumer])
          /\ cGetLim' = p + size'[Consumer]
          /\ flushes' = flushes \ (start[Consumer] .. p - 1)
          /\ Goto(Consumer, "discarded")
     ELSE UNCHANGED <<segments, cGetLim, flushes, pc>>
  /\ UNCHANGED <<array, next, op, pPutLim, look, waiters, waiting, failure, alerted, pFree>>

(* Mutant: Producer is not told that items have been printed. *)
Discarded_Silent ==
  /\ pc[Consumer] = "discarded"
  /\ Goto(Consumer, "print")
  /\ UNCHANGED <<array, segments, producerVars, pPutLim, cGetLim, consumerVars, waiters,
                 waiting, failure, alerted, pFree>>

Discarded ==
  /\ pc[Consumer] = "discarded"
  /\ Changed
  /\ Goto(Consumer, "print")
  /\ UNCHANGED <<array, segments, producerVars, pPutLim, cGetLim, consumerVars, waiters,
                 failure, alerted, pFree>>

(* The writer raises Wr.Failure: SetFailure, then its Changed. *)
SetFailure ==
  /\ pc[Consumer] = "print" /\ pos < look
  /\ failure' = TRUE
  /\ Goto(Consumer, "failed")
  /\ UNCHANGED <<array, segments, producerVars, pPutLim, cGetLim, consumerVars, waiters,
                 waiting, alerted, pFree>>

Failed ==
  /\ pc[Consumer] = "failed"
  /\ Changed
  /\ Goto(Consumer, "done")
  /\ UNCHANGED <<array, segments, producerVars, pPutLim, cGetLim, consumerVars, waiters,
                 failure, alerted, pFree>>

------------------------------------------------------------------------------
Client == \E what \in {"text", "taker", "flush", "close"} : AddRef(what)

ProducerStep ==
  \/ HandedOver \/ AllocateRoom \/ WokenForRoom \/ Store \/ Share \/ Shared
  \/ WaitUntilEmpty \/ Close \/ Join

ConsumerStep ==
  \/ Probe \/ WokenForItem \/ Alerted \/ Discarded \/ SetFailure \/ Failed
  \/ \E p \in pos + 1 .. look : PrintOp(p)

Next == Client \/ ProducerStep \/ ConsumerStep

Spec == Init /\ [][Next]_vars

(* Both threads are scheduled. *)
FairSpec == Spec /\ WF_vars(ProducerStep) /\ WF_vars(ConsumerStep)

------------------------------------------------------------------------------
(* Properties.                                                             *)

(* Until Consumer has given it back, an item is in its place, whatever has *)
(* been put after it and however often the array has been replaced: the    *)
(* unlocked Get finds what the unlocked store put.                         *)
Intact == \A i \in start[Consumer] .. next - 1 : buffer[i % bufSize] = i

(* The two threads sleep on t.changed at the same time only when Consumer  *)
(* is past the FlushOp the client waits for: when the buffer is too small  *)
(* for both, one of them sees it and expands it, and no wake-up is lost.   *)
NeverBothWaiting == waiting = Who => PastFlush

(* The array is replaced, without notice to the unlocked readers and       *)
(* writers, only while both threads are in Allocate's loop.                *)
ExpandBothBlocked ==
  [][bufSize' # bufSize => \A who \in Who : pc'[who] = "waiting"]_vars

(* AddRef, Flush and Close return, unless Consumer looks past the FlushOp  *)
(* directly after a taker.                                                 *)
OperationsReturn ==
  pc[Producer] \notin {"client", "closed"} ~> pc[Producer] \in {"client", "closed"} \/ PastFlush

------------------------------------------------------------------------------
(* The inductive invariant behind the safety properties.                   *)

SegmentsOK ==
  /\ start[Consumer] + size[Consumer] = start[Producer]
  /\ size[Consumer] + size[Producer] = bufSize

(* The limits are within the segments, and what a thread does without the  *)
(* lock is within its limit.                                               *)
ProducerOK ==
  /\ start[Producer] <= next /\ next <= pPutLim
  /\ pPutLim <= start[Producer] + size[Producer]
  /\ pc[Producer] = "store" => next < pPutLim
  /\ pc[Producer] \in {"room", "allocate", "waiting", "shared", "flush"} => start[Producer] = next
  /\ pc[Producer] \in {"room", "shared"} => pFree <= size[Producer]
  /\ pc[Producer] \in {"client", "room", "allocate", "waiting", "store", "share", "shared",
                       "flush", "alert", "join", "closed"}
  /\ pc[Producer] = "flush" => Flushing(op)
  /\ Flushing(op) /\ pc[Producer] \in {"share", "shared", "flush"} /\ start[Consumer] < next =>
       next - 1 \in flushes

ConsumerOK ==
  /\ start[Consumer] <= pos /\ pos <= look /\ look <= cGetLim
  /\ cGetLim <= start[Producer]
  /\ pc[Consumer] \in {"print", "waiting", "discarded", "failed", "done"}
  /\ pc[Consumer] = "waiting" => MayLook
  /\ \A i \in start[Consumer] .. pos - 1 : i \notin flushes

(* t.waiters counts the threads in Allocate's loop, until Close has had    *)
(* Consumer alerted out of it.                                             *)
InAllocate(who) == IF pc[who] = "waiting" THEN 1 ELSE 0

WaitersOK ==
  /\ pc[Producer] \notin {"join", "closed"} \/ pc[Consumer] # "done" =>
       waiters = InAllocate(Producer) + InAllocate(Consumer)
  /\ alerted => pc[Producer] \in {"join", "closed"}
  /\ failure => pc[Consumer] \in {"failed", "done"}

(* Whoever sleeps has a reason to, or is about to be woken; and of two     *)
(* threads in Allocate's loop one is awake.                                *)
SleepersOK ==
  /\ Producer \in waiting => pc[Producer] \in {"waiting", "flush"}
  /\ Consumer \in waiting => pc[Consumer] = "waiting"
  /\ Consumer \in waiting => NeedsItem \/ pc[Producer] \in {"room", "shared"}
  /\ Producer \in waiting /\ pc[Producer] = "flush" =>
       start[Consumer] < next \/ pc[Consumer] = "discarded"
  /\ pc[Producer] = "waiting" /\ pc[Consumer] = "waiting" => waiting # Who

Inv ==
  /\ TypeOK /\ SegmentsOK /\ ProducerOK /\ ConsumerOK /\ WaitersOK /\ SleepersOK
  /\ Intact
===============================================================================
