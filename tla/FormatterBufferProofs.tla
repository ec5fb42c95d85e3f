------------------------- MODULE FormatterBufferProofs -------------------------
(***************************************************************************)
(* Proofs about the buffer of a formatter, for chunks of any size and      *)
(* streams of any length.                                                  *)
(*                                                                         *)
(* Inv is inductive.  SegmentsOK, ProducerOK and ConsumerOK keep what each *)
(* thread does without the lock inside its own segment; with ModUnique,    *)
(* two items of the segments never share a place, and Intact follows.      *)
(* WaitersOK makes t.waiters the number of threads in Allocate's loop, so  *)
(* that Expand finds both there.  SleepersOK says why a thread sleeps:     *)
(* Probe asks for more than the FlushOp that a Flush waits for only if an  *)
(* item before the FlushOp has taken it, and only then do both sleep.      *)
(***************************************************************************)
EXTENDS FormatterBuffer, TLAPS

(* Fewer than n apart, two items have different places in an array of n. *)
LEMMA ModUnique ==
  ASSUME NEW n \in Nat \ {0}, NEW i \in Nat, NEW j \in Nat,
         i < j, j < i + n
  PROVE  i % n # j % n
<1>1. i = n * (i \div n) + (i % n) /\ j = n * (j \div n) + (j % n)
  BY SMT
<1>2. i \div n \in Nat /\ j \div n \in Nat /\ i % n \in 0 .. n - 1
  BY SMT
<1>. SUFFICES ASSUME i % n = j % n PROVE FALSE
  OBVIOUS
<1>. DEFINE d == (j \div n) - (i \div n)
<1>3. j - i = n * d
  BY <1>1, <1>2, SMT
<1>4. d \in Int
  BY <1>2, SMT
<1>. HIDE DEF d
<1>5. d > 0
  BY <1>3, <1>4, SMT
<1>6. n * d >= n
  BY <1>4, <1>5, SMT
<1>. QED BY <1>3, <1>6

(* The remainder is a place in the array. *)
LEMMA ModPlace ==
  ASSUME NEW n \in Nat \ {0}, NEW i \in Nat
  PROVE  i % n \in 0 .. n - 1
BY SMT

(* A new formatter. *)
LEMMA InitInv == Init => Inv
<1>. SUFFICES ASSUME Init PROVE Inv
  OBVIOUS
<1>1. TypeOK
  <2>1. bufSize \in Nat \ {0}
    BY ChunkAssumption DEF Init
  <2>2. buffer \in [0 .. bufSize - 1 -> Nat \cup {NIL}]
    BY DEF Init
  <2>3. start \in [Who -> Nat] /\ size \in [Who -> Nat]
    BY <2>1 DEF Init
  <2>. QED BY <2>1, <2>2, <2>3 DEF Init, TypeOK, Who, Producer, Consumer
<1>2. SegmentsOK /\ ProducerOK /\ ConsumerOK /\ WaitersOK /\ SleepersOK
  BY ChunkAssumption DEF Init, SegmentsOK, ProducerOK, ConsumerOK, WaitersOK, SleepersOK,
     InAllocate, Who, Producer, Consumer, MayLook
<1>3. Intact
  BY DEF Init, Intact, Who, Producer, Consumer
<1>. QED BY <1>1, <1>2, <1>3 DEF Inv

(* Expand doubles the array, gives the new room to Producer, and finds     *)
(* every item of the segments in its new place.                            *)
LEMMA ExpandKeeps ==
  ASSUME Inv, Expand, UNCHANGED <<start, next>>
  PROVE  /\ bufSize' = 2 * bufSize
         /\ bufSize' \in Nat \ {0} /\ buffer' \in [0 .. bufSize' - 1 -> Nat \cup {NIL}]
         /\ size' = [size EXCEPT ![Producer] = @ + bufSize]
         /\ Intact'
<1>. DEFINE newSize == 2 * bufSize
            Items == start[Consumer] .. start[Consumer] + bufSize - 1
            At(k) == {i \in Items : i % newSize = k}
<1>1. bufSize \in Nat \ {0} /\ start[Consumer] \in Nat /\ next \in Nat
  BY DEF Inv, TypeOK, Who
<1>2. bufSize' = newSize /\ newSize \in Nat \ {0}
  BY <1>1 DEF Expand
<1>3. size' = [size EXCEPT ![Producer] = @ + bufSize]
  <2>1. size' = [size EXCEPT ![Producer] = @ + newSize - bufSize]
    BY DEF Expand
  <2>2. size[Producer] \in Nat
    BY DEF Inv, TypeOK, Who
  <2>3. size[Producer] + newSize - bufSize = size[Producer] + bufSize
    BY <2>2, <1>1
  <2>. QED BY <2>1, <2>3
<1>4. buffer' = [k \in 0 .. newSize - 1 |->
                   IF At(k) = {} THEN NIL ELSE buffer[(CHOOSE i \in At(k) : TRUE) % bufSize]]
  BY DEF Expand
<1>5. \A i \in Items : i \in Nat /\ i % bufSize \in 0 .. bufSize - 1
                       /\ i % newSize \in 0 .. newSize - 1
  BY <1>1, <1>2, ModPlace
<1>6. ASSUME NEW k \in 0 .. newSize - 1
      PROVE  buffer'[k] \in Nat \cup {NIL}
  <2>1. CASE At(k) = {}
    BY <1>4, <2>1
  <2>2. CASE At(k) # {}
    <3>1. (CHOOSE i \in At(k) : TRUE) \in Items
      BY <2>2
    <3>. HIDE DEF At, Items
    <3>2. buffer'[k] = buffer[(CHOOSE i \in At(k) : TRUE) % bufSize]
      BY <1>4, <2>2
    <3>. QED BY <3>1, <3>2, <1>5 DEF Inv, TypeOK
  <2>. QED BY <2>1, <2>2
<1>7. buffer' \in [0 .. newSize - 1 -> Nat \cup {NIL}]
  BY <1>4, <1>6
<1>8. ASSUME NEW i \in start[Consumer] .. next - 1
      PROVE  buffer'[i % newSize] = i
  <2>1. next <= start[Consumer] + bufSize
    BY DEF Inv, TypeOK, SegmentsOK, ProducerOK, Who, Producer, Consumer
  <2>2. i \in Items
    BY <2>1, <1>1
  <2>3. ASSUME NEW j \in Items, j % newSize = i % newSize
        PROVE  j = i
    <3>1. i \in Nat /\ j \in Nat /\ i < j + newSize /\ j < i + newSize
      BY <2>2, <1>1, <1>2
    <3>. QED BY <3>1, <2>3, <1>2, ModUnique
  <2>4. At(i % newSize) = {i}
    BY <2>2, <2>3
  <2>5. i % newSize \in 0 .. newSize - 1
    BY <1>5, <2>2
  <2>6. (CHOOSE j \in {i} : TRUE) = i
    OBVIOUS
  <2>7. buffer'[i % newSize] = buffer[i % bufSize]
    BY <1>4, <2>4, <2>5, <2>6
  <2>. QED BY <2>7 DEF Inv, Intact
<1>9. Intact'
  BY <1>2, <1>8 DEF Intact
<1>. QED BY <1>2, <1>3, <1>7, <1>9

(* What a segment gives up, the other one gets.                            *)
LEMMA ReleaseKeeps ==
  ASSUME TypeOK, NEW this \in Who, NEW n \in Nat, n <= size[this], Release(this, n)
  PROVE  /\ start' \in [Who -> Nat] /\ size' \in [Who -> Nat]
         /\ start'[this] = start[this] + n /\ start'[Other(this)] = start[Other(this)]
         /\ size'[this] = size[this] - n /\ size'[Other(this)] = size[Other(this)] + n
<1>. DEFINE that == Other(this)
<1>1. that \in Who /\ that # this
  BY DEF Other, Who, Producer, Consumer
<1>2. /\ start[this] \in Nat /\ size[this] \in Nat /\ size[that] \in Nat
      /\ start \in [Who -> Nat] /\ size \in [Who -> Nat]
  BY <1>1 DEF TypeOK
<1>3. start[this] + n \in Nat /\ size[this] - n \in Nat /\ size[that] + n \in Nat
  BY <1>2
<1>. HIDE DEF that
<1>4. /\ start' = [start EXCEPT ![this] = start[this] + n]
      /\ size' = [size EXCEPT ![this] = size[this] - n, ![that] = size[that] + n]
  BY <1>1 DEF Release, that
<1>5. start' \in [Who -> Nat] /\ size' \in [Who -> Nat]
  BY <1>2, <1>3, <1>4
<1>6. /\ start'[this] = start[this] + n /\ start'[that] = start[that]
      /\ size'[this] = size[this] - n /\ size'[that] = size[that] + n
  BY <1>1, <1>2, <1>4
<1>. QED BY <1>5, <1>6 DEF that

(* A limit on items that are free is within the segment.                   *)
LEMMA PutLimitWithin ==
  ASSUME TypeOK, NEW free \in Nat
  PROVE  /\ PutLimit(free) \in Nat
         /\ start[Producer] <= PutLimit(free) /\ PutLimit(free) <= start[Producer] + free
         /\ free > 0 => start[Producer] < PutLimit(free)
<1>. start[Producer] \in Nat /\ ChunkSize \in Nat \ {0}
  BY ChunkAssumption DEF TypeOK, Who
<1>. QED BY DEF PutLimit, Min

(* A thread goes to sleep in Allocate for a good reason, and expands the   *)
(* array if the other one is there already.                                *)
LEMMA AwaitChangeInv ==
  ASSUME Inv, NEW this \in Who, AwaitChange(this),
         UNCHANGED <<start, producerVars, pPutLim, cGetLim, consumerVars, failure, alerted, pFree>>,
         waiters' = 1 + InAllocate(Other(this)),
         this = Producer => pc[Producer] \in {"allocate", "waiting"},
         this = Consumer => pc[Consumer] \in {"print", "waiting"} /\ MayLook /\ NeedsItem
  PROVE  Inv'
<1>. USE DEF Who, Producer, Consumer
<1>1. /\ bufSize' \in Nat \ {0} /\ buffer' \in [0 .. bufSize' - 1 -> Nat \cup {NIL}]
      /\ size' \in [Who -> Nat] /\ size'[Consumer] = size[Consumer]
      /\ size'[Producer] = size[Producer] + bufSize' - bufSize
      /\ bufSize' >= bufSize
      /\ Intact'
  <2>1. CASE waiters' = 2
    <3>1. Expand
      BY <2>1 DEF AwaitChange
    <3>2. size \in [Who -> Nat] /\ bufSize \in Nat
      BY DEF Inv, TypeOK
    <3>. QED BY <3>1, <3>2, ExpandKeeps DEF producerVars
  <2>2. CASE waiters' # 2
    <3>1. UNCHANGED <<array, size>>
      BY <2>2 DEF AwaitChange
    <3>. QED BY <3>1 DEF Inv, TypeOK, Intact, array, producerVars
  <2>. QED BY <2>1, <2>2
<1>2. pc' = [pc EXCEPT ![this] = "waiting"] /\ waiting' \in {{this}, waiting \cup {this}}
  BY DEF AwaitChange, Goto
<1>3. TypeOK'
  <2>1. waiters' \in Nat
    BY DEF InAllocate
  <2>2. waiting' \subseteq Who
    BY <1>2 DEF Inv, TypeOK
  <2>. QED BY <1>1, <1>2, <2>1, <2>2 DEF Inv, TypeOK, producerVars, consumerVars
<1>4. SegmentsOK' /\ ProducerOK'
  <2>1. /\ start[Producer] \in Nat /\ start[Consumer] \in Nat /\ start' = start
        /\ size[Producer] \in Nat /\ size[Consumer] \in Nat /\ bufSize \in Nat
        /\ next \in Nat /\ pPutLim \in Nat /\ pFree \in Nat
        /\ next' = next /\ pPutLim' = pPutLim /\ pFree' = pFree /\ op' = op /\ flushes' = flushes
    BY DEF Inv, TypeOK, producerVars
  <2>4. /\ size'[Producer] \in Nat /\ bufSize' \in Nat
        /\ size'[Producer] = size[Producer] + bufSize' - bufSize
    BY <1>1
  <2>5. size'[Producer] >= size[Producer]
    BY <2>1, <2>4, <1>1
  <2>2. SegmentsOK'
    <3>1. /\ start[Consumer] + size[Consumer] = start[Producer]
          /\ size[Consumer] + size[Producer] = bufSize
      BY DEF Inv, SegmentsOK
    <3>2. size'[Consumer] = size[Consumer]
      BY <1>1
    <3>. QED BY <3>1, <3>2, <2>1, <2>4 DEF SegmentsOK
  <2>3. pPutLim <= start[Producer] + size'[Producer]
    BY <2>1, <2>4, <2>5 DEF Inv, ProducerOK
  <2>6. pc'[Producer] = IF this = Producer THEN "waiting" ELSE pc[Producer]
    BY <1>2 DEF Inv, TypeOK
  <2>7. ProducerOK'
    BY <2>1, <2>3, <2>4, <2>5, <2>6 DEF Inv, ProducerOK
  <2>. QED BY <2>2, <2>7
<1>5. ConsumerOK'
  BY <1>1, <1>2 DEF Inv, TypeOK, ConsumerOK, MayLook, producerVars, consumerVars
<1>6. WaitersOK'
  BY <1>2 DEF Inv, TypeOK, WaitersOK, ProducerOK, ConsumerOK, InAllocate, Other, producerVars
<1>7. SleepersOK'
  <2>1. NeedsItem' <=> NeedsItem
    BY <1>1 DEF NeedsItem, consumerVars
  <2>2. pc[Producer] = "waiting" /\ pc[Consumer] = "waiting" => waiters' = 2
    BY DEF InAllocate, Other
  <2>3. pc'[Producer] = "waiting" /\ pc'[Consumer] = "waiting" => waiting' = {this}
    BY <1>2 DEF Inv, TypeOK, AwaitChange, InAllocate, Other
  <2>. QED BY <2>1, <2>3, <1>2 DEF Inv, TypeOK, SleepersOK, producerVars
<1>. QED BY <1>1, <1>3, <1>4, <1>5, <1>6, <1>7 DEF Inv

------------------------------------------------------------------------------
(* Steps of Producer.                                                      *)

(* AddRef begins; at the limit it gives its items to Consumer. *)
LEMMA AddRefInv ==
  ASSUME Inv, NEW what \in {"text", "taker", "flush", "close"}, AddRef(what)
  PROVE  Inv'
<1>. USE DEF Who, Producer, Consumer
<1>1. /\ start[Producer] \in Nat /\ size[Producer] \in Nat /\ start[Consumer] \in Nat
      /\ size[Consumer] \in Nat /\ next \in Nat /\ pPutLim \in Nat /\ start \in [Who -> Nat]
      /\ bufSize \in Nat /\ size \in [Who -> Nat]
  BY DEF Inv, TypeOK
<1>2. /\ start' \in [Who -> Nat] /\ size' \in [Who -> Nat]
      /\ start[Producer] <= start'[Producer] /\ start'[Consumer] = start[Consumer]
      /\ size'[Producer] = size[Producer] - (start'[Producer] - start[Producer])
      /\ size'[Consumer] = size[Consumer] + (start'[Producer] - start[Producer])
      /\ pFree' \in Nat
      /\ IF next = pPutLim
         THEN /\ start'[Producer] = next /\ pFree' = size'[Producer]
              /\ pc'[Producer] \in {"client", "room"}
         ELSE UNCHANGED start /\ pc'[Producer] = "store"
  <2>1. CASE next = pPutLim
    <3>1. HandOver
      BY <2>1 DEF AddRef
    <3>2. pPutLim - start[Producer] \in Nat /\ pPutLim - start[Producer] <= size[Producer]
      BY <1>1 DEF Inv, ProducerOK
    <3>3. Release(Producer, pPutLim - start[Producer])
      BY <3>1 DEF HandOver
    <3>4. /\ start' \in [Who -> Nat] /\ size' \in [Who -> Nat]
          /\ start'[Producer] = start[Producer] + (pPutLim - start[Producer])
          /\ start'[Consumer] = start[Consumer]
          /\ size'[Producer] = size[Producer] - (pPutLim - start[Producer])
          /\ size'[Consumer] = size[Consumer] + (pPutLim - start[Producer])
      BY <3>2, <3>3, ReleaseKeeps DEF Inv, Other
    <3>5. pFree' = size'[Producer] /\ pc'[Producer] \in {"client", "room"}
      BY <3>1 DEF HandOver, Goto, Inv, TypeOK
    <3>6. start'[Producer] = pPutLim /\ size'[Producer] \in Nat
      BY <3>4, <1>1
    <3>. QED BY <3>2, <3>4, <3>5, <3>6, <2>1, <1>1
  <2>2. CASE next # pPutLim
    <3>1. UNCHANGED <<start, size, pFree>> /\ pc'[Producer] = "store"
      BY <2>2 DEF AddRef, Goto, Inv, TypeOK, segments
    <3>. QED BY <3>1, <2>2, <1>1 DEF Inv, TypeOK
  <2>. QED BY <2>1, <2>2
<1>3. /\ pc'[Consumer] = pc[Consumer] /\ pc' = [pc EXCEPT ![Producer] = pc'[Producer]]
      /\ UNCHANGED <<buffer, bufSize, next, flushes, pPutLim, cGetLim, pos, look, waiters,
                     waiting, failure, alerted, takers>>
      /\ op' \in {"text", "taker", "flush", "close"}
  BY DEF AddRef, HandOver, Goto, Inv, TypeOK, array, consumerVars
<1>4. TypeOK'
  <2>1. pc' \in [Who -> {"client", "room", "allocate", "store", "share", "shared", "flush",
                         "alert", "join", "closed", "print", "discarded", "failed", "done",
                         "waiting"}]
    BY <1>2, <1>3 DEF Inv, TypeOK
  <2>2. start' \in [Who -> Nat] /\ size' \in [Who -> Nat] /\ pFree' \in Nat
    BY <1>2
  <2>. QED BY <2>1, <2>2, <1>3 DEF Inv, TypeOK
<1>5. SegmentsOK'
  <2>1. start'[Producer] \in Nat
    BY <1>2
  <2>. QED BY <2>1, <1>1, <1>2, <1>3 DEF Inv, SegmentsOK
<1>6. ProducerOK'
  <2>1. start'[Producer] \in Nat
    BY <1>2
  <2>2. start'[Producer] <= next /\ pPutLim <= start'[Producer] + size'[Producer]
    BY <2>1, <1>1, <1>2 DEF Inv, ProducerOK
  <2>3. pFree' \in Nat /\ (pc'[Producer] = "room" => pFree' <= size'[Producer])
    BY <1>2
  <2>. QED BY <2>1, <2>2, <2>3, <1>1, <1>2, <1>3 DEF Inv, ProducerOK
<1>7. ConsumerOK'
  <2>1. cGetLim <= start'[Producer]
    <3>1. start'[Producer] \in Nat /\ cGetLim \in Nat
      BY <1>2 DEF Inv, TypeOK
    <3>. QED BY <3>1, <1>1, <1>2 DEF Inv, ConsumerOK
  <2>. QED BY <2>1, <1>2, <1>3 DEF Inv, ConsumerOK, MayLook
<1>8. WaitersOK'
  BY DEF Inv, TypeOK, ProducerOK, ConsumerOK, WaitersOK, InAllocate,
     AddRef, HandOver, Release, Other, Goto, array, segments, producerVars, consumerVars
<1>9. SleepersOK'
  BY DEF Inv, TypeOK, SegmentsOK, ProducerOK, ConsumerOK, WaitersOK, SleepersOK, NeedsItem,
     MayLook,
     AddRef, HandOver, Release, Other, Goto, array, segments, producerVars, consumerVars
<1>10. Intact'
  BY <1>2, <1>3 DEF Inv, Intact
<1>. QED BY <1>4, <1>5, <1>6, <1>7, <1>8, <1>9, <1>10 DEF Inv

(* Only part of what was free when AddRef released its items is used. *)
LEMMA HandedOverInv == Inv /\ HandedOver => Inv'
<1>. USE DEF Who, Producer, Consumer
<1>. SUFFICES ASSUME Inv, HandedOver PROVE Inv'
  OBVIOUS
<1>1. TypeOK'
  <2>1. pPutLim' \in Nat
    BY PutLimitWithin DEF Inv, TypeOK, HandedOver
  <2>. QED BY <2>1 DEF Inv, TypeOK, HandedOver, Changed, Goto,
              array, segments, producerVars, consumerVars
<1>2. SegmentsOK' /\ Intact'
  BY DEF Inv, SegmentsOK, Intact, HandedOver, array, segments, producerVars
<1>3. ProducerOK' /\ ConsumerOK'
  BY ChunkAssumption DEF Inv, TypeOK, ProducerOK, ConsumerOK, MayLook, HandedOver, Changed,
     Goto, PutLimit, Min,
     array, segments, producerVars, consumerVars
<1>4. WaitersOK' /\ SleepersOK'
  BY DEF Inv, TypeOK, ProducerOK, ConsumerOK, WaitersOK, InAllocate, SleepersOK, NeedsItem,
     HandedOver, Changed, Goto, PutLimit, Min,
     array, segments, producerVars, consumerVars
<1>. QED BY <1>1, <1>2, <1>3, <1>4 DEF Inv

(* Producer leaves Allocate with room for a chunk, or because of a failure. *)
LEMMA RoomFoundInv ==
  ASSUME Inv, RoomFound, ~NeedsRoom,
         UNCHANGED <<start, producerVars, cGetLim, consumerVars, failure, alerted, pFree>>,
         \/ pc[Producer] = "allocate" /\ waiters' = waiters
         \/ pc[Producer] = "waiting" /\ waiters' = waiters - 1 /\ Producer \notin waiting
  PROVE  Inv'
<1>. USE DEF Who, Producer, Consumer
<1>1. /\ pPutLim' \in Nat /\ next <= pPutLim' /\ pPutLim' <= start[Producer] + size[Producer]
      /\ ~failure => next < pPutLim'
  <2>1. CASE failure
    BY <2>1 DEF RoomFound, Inv, TypeOK, ProducerOK
  <2>2. CASE ~failure
    <3>1. size[Producer] \in Nat /\ size[Producer] > 0
      BY <2>2, ChunkAssumption DEF NeedsRoom, Inv, TypeOK
    <3>2. pPutLim' = PutLimit(size[Producer]) /\ start[Producer] = next
      BY <2>2 DEF RoomFound, Inv, ProducerOK
    <3>3. next \in Nat
      BY DEF Inv, TypeOK
    <3>. QED BY <2>2, <3>1, <3>2, <3>3, PutLimitWithin DEF Inv
  <2>. QED BY <2>1, <2>2
<1>2. /\ pc' = [pc EXCEPT ![Producer] = IF failure THEN "client" ELSE "store"]
      /\ UNCHANGED <<buffer, bufSize, size, waiting>>
  BY DEF RoomFound, Goto, array
<1>3. waiters' = InAllocate(Consumer)
  BY DEF Inv, TypeOK, WaitersOK, InAllocate
<1>4. TypeOK' /\ SegmentsOK' /\ Intact'
  BY <1>1, <1>2, <1>3 DEF Inv, TypeOK, SegmentsOK, Intact, InAllocate, producerVars,
     consumerVars
<1>5. ProducerOK' /\ ConsumerOK'
  BY <1>1, <1>2 DEF Inv, TypeOK, ProducerOK, ConsumerOK, MayLook, producerVars, consumerVars
<1>6. WaitersOK' /\ SleepersOK'
  BY <1>2, <1>3 DEF Inv, TypeOK, ProducerOK, ConsumerOK, WaitersOK, InAllocate, SleepersOK,
     NeedsItem,
     producerVars, consumerVars
<1>. QED BY <1>4, <1>5, <1>6 DEF Inv

(* Allocate for AddRef, on entry and after AlertWait. *)
LEMMA AllocateRoomInv == Inv /\ AllocateRoom => Inv'
<1>. USE DEF Who, Producer, Consumer
<1>. SUFFICES ASSUME Inv, AllocateRoom PROVE Inv'
  OBVIOUS
<1>1. CASE NeedsRoom
  <2>1. waiters' = 1 + InAllocate(Other(Producer))
    BY <1>1 DEF AllocateRoom, Inv, TypeOK, WaitersOK, InAllocate, Other
  <2>. QED BY <1>1, <2>1, AwaitChangeInv DEF AllocateRoom
<1>2. CASE ~NeedsRoom
  <2>1. RoomFound /\ waiters' = waiters /\ pc[Producer] = "allocate"
    BY <1>2 DEF AllocateRoom
  <2>. QED BY <1>2, <2>1, RoomFoundInv DEF AllocateRoom
<1>. QED BY <1>1, <1>2

(* After AlertWait: the thread goes back to sleep, or leaves the loop. *)
LEMMA WokenForRoomInv == Inv /\ WokenForRoom => Inv'
<1>. USE DEF Who, Producer, Consumer
<1>. SUFFICES ASSUME Inv, WokenForRoom PROVE Inv'
  OBVIOUS
<1>1. CASE NeedsRoom
  <2>1. waiters' = 1 + InAllocate(Other(Producer))
    BY <1>1 DEF WokenForRoom, Inv, TypeOK, WaitersOK, InAllocate, Other
  <2>. QED BY <1>1, <2>1, AwaitChangeInv DEF WokenForRoom
<1>2. CASE ~NeedsRoom
  <2>1. RoomFound /\ waiters' = waiters - 1 /\ pc[Producer] = "waiting" /\ Producer \notin waiting
    BY <1>2 DEF WokenForRoom
  <2>. QED BY <1>2, <2>1, RoomFoundInv DEF WokenForRoom
<1>. QED BY <1>1, <1>2

(* The unlocked store finds a place no item of the segments is in. *)
LEMMA StoreInv ==
  ASSUME Inv, Store
  PROVE  Inv'
<1>. USE DEF Who, Producer, Consumer
<1>1. TypeOK'
  <2>1. next \in Nat
    BY DEF Inv, TypeOK
  <2>2. flushes' \subseteq 0 .. next' - 1 /\ takers' \subseteq 0 .. next' - 1
    BY <2>1 DEF Inv, TypeOK, Store
  <2>3. bufSize' \in Nat \ {0} /\ buffer' \in [0 .. bufSize' - 1 -> Nat \cup {NIL}]
    BY DEF Inv, TypeOK, Store
  <2>. QED BY <2>1, <2>2, <2>3 DEF Inv, TypeOK, Store, Goto, segments, consumerVars
<1>2. SegmentsOK'
  BY DEF Inv, TypeOK, SegmentsOK, Store, Goto,
     array, segments, producerVars, consumerVars
<1>3. ProducerOK'
  BY DEF Inv, TypeOK, SegmentsOK, ProducerOK, ConsumerOK, Store, Goto,
     array, segments, producerVars, consumerVars
<1>4. ConsumerOK'
  BY DEF Inv, TypeOK, SegmentsOK, ProducerOK, ConsumerOK, MayLook, Store, Goto,
     array, segments, producerVars, consumerVars
<1>5. WaitersOK'
  BY DEF Inv, TypeOK, ProducerOK, ConsumerOK, WaitersOK, InAllocate, Store, Goto,
     array, segments, producerVars, consumerVars
<1>6. SleepersOK'
  BY DEF Inv, TypeOK, SegmentsOK, ProducerOK, ConsumerOK, WaitersOK, SleepersOK, NeedsItem,
     MayLook, Store, Goto,
     array, segments, producerVars, consumerVars
<1>7. Intact'
  <2>1. /\ bufSize \in Nat \ {0} /\ start[Consumer] \in Nat /\ next \in Nat
        /\ next < start[Consumer] + bufSize
    BY DEF Inv, TypeOK, SegmentsOK, ProducerOK, Store
  <2>2. next % bufSize \in 0 .. bufSize - 1
    BY <2>1, ModPlace
  <2>3. ASSUME NEW i \in start[Consumer] .. next - 1
        PROVE  i % bufSize \in 0 .. bufSize - 1 /\ i % bufSize # next % bufSize
    <3>1. i \in Nat /\ i < next /\ next < i + bufSize
      BY <2>1
    <3>. QED BY <3>1, <2>1, ModPlace, ModUnique
  <2>4. /\ bufSize' = bufSize /\ start' = start /\ next' = next + 1
        /\ buffer' = [buffer EXCEPT ![next % bufSize] = next]
        /\ buffer \in [0 .. bufSize - 1 -> Nat \cup {NIL}]
    BY DEF Inv, TypeOK, Store, segments
  <2>5. ASSUME NEW i \in start[Consumer] .. next
        PROVE  buffer'[i % bufSize] = i
    <3>1. CASE i = next
      BY <3>1, <2>2, <2>4
    <3>2. CASE i # next
      <4>1. i \in start[Consumer] .. next - 1
        BY <3>2, <2>1
      <4>2. buffer[i % bufSize] = i
        BY <4>1 DEF Inv, Intact
      <4>. QED BY <4>1, <4>2, <2>3, <2>4
    <3>. QED BY <3>1, <3>2
  <2>6. start[Consumer] .. next' - 1 = start[Consumer] .. next
    BY <2>1, <2>4
  <2>. QED BY <2>4, <2>5, <2>6 DEF Intact
<1>. QED BY <1>1, <1>2, <1>3, <1>4, <1>5, <1>6, <1>7 DEF Inv

(* AddRef releases what it has put, to the limit or to FlushOp. *)
LEMMA ShareInv ==
  ASSUME Inv, Share
  PROVE  Inv'
<1>. USE DEF Who, Producer, Consumer
<1>1. /\ start[Producer] \in Nat /\ size[Producer] \in Nat /\ start[Consumer] \in Nat
      /\ size[Consumer] \in Nat /\ next \in Nat /\ pPutLim \in Nat /\ bufSize \in Nat
      /\ cGetLim \in Nat
  BY DEF Inv, TypeOK
<1>2. /\ start' \in [Who -> Nat] /\ size' \in [Who -> Nat]
      /\ start'[Producer] = next /\ start'[Consumer] = start[Consumer]
      /\ size'[Producer] = size[Producer] - (next - start[Producer])
      /\ size'[Consumer] = size[Consumer] + (next - start[Producer])
  <2>1. next - start[Producer] \in Nat /\ next - start[Producer] <= size[Producer]
    BY <1>1 DEF Inv, ProducerOK
  <2>2. Release(Producer, next - start[Producer])
    BY DEF Share
  <2>3. start[Producer] + (next - start[Producer]) = next
    BY <1>1
  <2>. QED BY <2>1, <2>2, <2>3, ReleaseKeeps DEF Inv, Other
<1>3. /\ pc' = [pc EXCEPT ![Producer] = IF failure THEN "client" ELSE "shared"]
      /\ pc[Producer] = "share"
      /\ pFree' = size'[Producer]
      /\ UNCHANGED <<buffer, bufSize, next, flushes, takers, op, pPutLim, cGetLim, pos, look,
                     waiters, waiting, failure, alerted>>
  BY DEF Share, Goto, array, producerVars, consumerVars
<1>4. start'[Producer] \in Nat /\ size'[Producer] \in Nat /\ size'[Consumer] \in Nat
  BY <1>2
<1>5. TypeOK'
  BY <1>2, <1>3, <1>4 DEF Inv, TypeOK
<1>6. SegmentsOK'
  BY <1>1, <1>2, <1>3, <1>4 DEF Inv, SegmentsOK
<1>7. ProducerOK'
  <2>1. pPutLim <= start'[Producer] + size'[Producer]
    BY <1>1, <1>2, <1>4 DEF Inv, ProducerOK
  <2>2. pc'[Producer] = IF failure THEN "client" ELSE "shared"
    BY <1>3 DEF Inv, TypeOK
  <2>. QED BY <2>1, <2>2, <1>1, <1>2, <1>3, <1>4 DEF Inv, ProducerOK
<1>8. ConsumerOK'
  <2>1. cGetLim <= start'[Producer]
    BY <1>1, <1>2 DEF Inv, ProducerOK, ConsumerOK
  <2>2. pc'[Consumer] = pc[Consumer]
    BY <1>3 DEF Inv, TypeOK
  <2>. QED BY <2>1, <2>2, <1>2, <1>3 DEF Inv, ConsumerOK, MayLook
<1>9. WaitersOK'
  BY DEF Inv, TypeOK, ProducerOK, ConsumerOK, WaitersOK, InAllocate, Share, Release, Other,
     Goto,
     array, segments, producerVars, consumerVars
<1>10. SleepersOK'
  BY DEF Inv, TypeOK, SegmentsOK, ProducerOK, ConsumerOK, WaitersOK, SleepersOK, NeedsItem,
     MayLook, Share, Release, Other, Goto,
     array, segments, producerVars, consumerVars
<1>11. Intact'
  BY DEF Inv, TypeOK, Intact, Share, Release, Other, Goto,
     array, segments, producerVars, consumerVars
<1>. QED BY <1>5, <1>6, <1>7, <1>8, <1>9, <1>10, <1>11 DEF Inv

(* The next limit is within what was free. *)
LEMMA SharedInv == Inv /\ Shared => Inv'
<1>. USE DEF Who, Producer, Consumer
<1>. SUFFICES ASSUME Inv, Shared PROVE Inv'
  OBVIOUS
<1>1. /\ start[Producer] = next /\ next \in Nat /\ pPutLim' \in Nat
      /\ next <= pPutLim' /\ pPutLim' <= start[Producer] + size[Producer]
  <2>1. start[Producer] = next /\ next \in Nat /\ pFree \in Nat /\ pFree <= size[Producer]
        /\ size[Producer] \in Nat
    BY DEF Shared, Inv, TypeOK, ProducerOK
  <2>2. pPutLim' = PutLimit(pFree)
    BY DEF Shared
  <2>. QED BY <2>1, <2>2, PutLimitWithin DEF Inv
<1>2. TypeOK' /\ SegmentsOK' /\ Intact'
  BY <1>1 DEF Inv, TypeOK, SegmentsOK, Intact, Shared, Changed, Goto,
     array, segments, producerVars, consumerVars
<1>3. ProducerOK' /\ ConsumerOK'
  BY <1>1 DEF Inv, TypeOK, ProducerOK, ConsumerOK, MayLook, Shared, Changed, Goto,
     array, segments, producerVars, consumerVars
<1>4. WaitersOK' /\ SleepersOK'
  BY DEF Inv, TypeOK, ProducerOK, ConsumerOK, WaitersOK, InAllocate, SleepersOK, NeedsItem,
     Shared, Changed, Goto, array, segments, producerVars, consumerVars
<1>. QED BY <1>2, <1>3, <1>4 DEF Inv

(* Flush goes to sleep only if Consumer has yet to eat something. *)
LEMMA WaitUntilEmptyInv == Inv /\ WaitUntilEmpty => Inv'
<1>. USE DEF Who, Producer, Consumer
<1>. SUFFICES ASSUME Inv, WaitUntilEmpty PROVE Inv'
  OBVIOUS
<1>1. TypeOK' /\ SegmentsOK' /\ Intact'
  BY DEF Inv, TypeOK, SegmentsOK, Intact, WaitUntilEmpty, Goto,
     array, segments, producerVars, consumerVars
<1>2. ProducerOK' /\ ConsumerOK'
  BY DEF Inv, TypeOK, ProducerOK, ConsumerOK, MayLook, WaitUntilEmpty, Goto,
     array, segments, producerVars, consumerVars
<1>3. WaitersOK' /\ SleepersOK'
  BY DEF Inv, TypeOK, ProducerOK, ConsumerOK, WaitersOK, InAllocate, SleepersOK, NeedsItem,
     WaitUntilEmpty, Goto,
     array, segments, producerVars, consumerVars
<1>. QED BY <1>1, <1>2, <1>3 DEF Inv

(* The end of Close. *)
LEMMA CloseInv == Inv /\ Close => Inv'
<1>. USE DEF Who, Producer, Consumer
<1>. SUFFICES ASSUME Inv, Close PROVE Inv'
  OBVIOUS
<1>1. TypeOK' /\ SegmentsOK' /\ Intact'
  BY DEF Inv, TypeOK, SegmentsOK, Intact, Close, Goto,
     array, segments, producerVars, consumerVars
<1>2. ProducerOK' /\ ConsumerOK'
  BY DEF Inv, TypeOK, ProducerOK, ConsumerOK, MayLook, Close, Goto,
     array, segments, producerVars, consumerVars
<1>3. WaitersOK' /\ SleepersOK'
  BY DEF Inv, TypeOK, ProducerOK, ConsumerOK, WaitersOK, InAllocate, SleepersOK, NeedsItem,
     Close, Goto,
     array, segments, producerVars, consumerVars
<1>. QED BY <1>1, <1>2, <1>3 DEF Inv

(* Close returns once Consumer has ended. *)
LEMMA JoinInv == Inv /\ Join => Inv'
<1>. USE DEF Who, Producer, Consumer
<1>. SUFFICES ASSUME Inv, Join PROVE Inv'
  OBVIOUS
<1>1. TypeOK' /\ SegmentsOK' /\ Intact'
  BY DEF Inv, TypeOK, SegmentsOK, Intact, Join, Goto,
     array, segments, producerVars, consumerVars
<1>2. ProducerOK' /\ ConsumerOK'
  BY DEF Inv, TypeOK, ProducerOK, ConsumerOK, MayLook, Join, Goto,
     array, segments, producerVars, consumerVars
<1>3. WaitersOK' /\ SleepersOK'
  BY DEF Inv, TypeOK, ProducerOK, ConsumerOK, WaitersOK, InAllocate, SleepersOK, NeedsItem,
     Join, Goto,
     array, segments, producerVars, consumerVars
<1>. QED BY <1>1, <1>2, <1>3 DEF Inv

------------------------------------------------------------------------------
(* Steps of Consumer.                                                      *)

(* Consumer finds the item it asked for. *)
LEMMA ItemFoundInv ==
  ASSUME Inv, ItemFound, ~NeedsItem,
         UNCHANGED <<start, producerVars, pPutLim, pos, failure, alerted, pFree>>,
         \/ pc[Consumer] = "print" /\ waiters' = waiters
         \/ pc[Consumer] = "waiting" /\ waiters' = waiters - 1 /\ Consumer \notin waiting
  PROVE  Inv'
<1>. USE DEF Who, Producer, Consumer
<1>1. /\ look' = look + 1 /\ look' \in Nat /\ pos <= look'
      /\ cGetLim' = start[Producer] /\ look' <= start[Producer] /\ cGetLim' \in Nat
  BY DEF Inv, TypeOK, SegmentsOK, ConsumerOK, ItemFound, NeedsItem
<1>2. pc' = [pc EXCEPT ![Consumer] = "print"] /\ UNCHANGED <<buffer, bufSize, size, waiting>>
  BY DEF ItemFound, Goto, array
<1>3. waiters' = InAllocate(Producer)
  BY DEF Inv, TypeOK, WaitersOK, InAllocate
<1>4. TypeOK' /\ SegmentsOK' /\ Intact'
  BY <1>1, <1>2, <1>3 DEF Inv, TypeOK, SegmentsOK, Intact, InAllocate, producerVars
<1>5. ProducerOK' /\ ConsumerOK'
  BY <1>1, <1>2 DEF Inv, TypeOK, ProducerOK, ConsumerOK, producerVars
<1>6. WaitersOK' /\ SleepersOK'
  BY <1>1, <1>2, <1>3 DEF Inv, TypeOK, ProducerOK, ConsumerOK, WaitersOK, InAllocate,
     SleepersOK,
     producerVars
<1>. QED BY <1>4, <1>5, <1>6 DEF Inv

(* Probe, on entry and after AlertWait. *)
LEMMA ProbeInv == Inv /\ Probe => Inv'
<1>. USE DEF Who, Producer, Consumer
<1>. SUFFICES ASSUME Inv, Probe PROVE Inv'
  OBVIOUS
<1>1. CASE look < cGetLim
  <2>1. look' = look + 1 /\ look + 1 <= cGetLim /\ look' \in Nat
    BY <1>1 DEF Probe, Inv, TypeOK
  <2>2. UNCHANGED <<array, segments, producerVars, pPutLim, cGetLim, pos, waiters, waiting,
     failure,
                    alerted, pc, pFree>>
    BY <1>1 DEF Probe, segments
  <2>3. TypeOK' /\ SegmentsOK' /\ Intact' /\ ProducerOK'
    BY <2>1, <2>2 DEF Inv, TypeOK, SegmentsOK, Intact, ProducerOK, array, segments, producerVars
  <2>4. ConsumerOK' /\ WaitersOK' /\ SleepersOK'
    BY <2>1, <2>2 DEF Probe, Inv, TypeOK, ConsumerOK, WaitersOK, InAllocate, SleepersOK,
       MayLook,
       NeedsItem, array, segments, producerVars
  <2>. QED BY <2>3, <2>4 DEF Inv
<1>2. CASE ~(look < cGetLim) /\ NeedsItem
  <2>1. waiters' = 1 + InAllocate(Other(Consumer))
    BY <1>2 DEF Probe, Inv, TypeOK, WaitersOK, InAllocate, Other
  <2>. QED BY <1>2, <2>1, AwaitChangeInv DEF Probe, consumerVars
<1>3. CASE ~(look < cGetLim) /\ ~NeedsItem
  BY <1>3, ItemFoundInv DEF Probe
<1>. QED BY <1>1, <1>2, <1>3

(* After AlertWait: as for Producer. *)
LEMMA WokenForItemInv == Inv /\ WokenForItem => Inv'
<1>. USE DEF Who, Producer, Consumer
<1>. SUFFICES ASSUME Inv, WokenForItem PROVE Inv'
  OBVIOUS
<1>1. CASE NeedsItem
  <2>1. waiters' = 1 + InAllocate(Other(Consumer))
    BY <1>1 DEF WokenForItem, Inv, TypeOK, WaitersOK, InAllocate, Other
  <2>2. MayLook
    BY DEF WokenForItem, Inv, ConsumerOK
  <2>. QED BY <1>1, <2>1, <2>2, AwaitChangeInv DEF WokenForItem, consumerVars
<1>2. CASE ~NeedsItem
  BY <1>2, ItemFoundInv DEF WokenForItem
<1>. QED BY <1>1, <1>2

(* The alert that ends PrintTop comes after the last Flush. *)
LEMMA AlertedInv == Inv /\ Alerted => Inv'
<1>. USE DEF Who, Producer, Consumer
<1>. SUFFICES ASSUME Inv, Alerted PROVE Inv'
  OBVIOUS
<1>1. TypeOK' /\ SegmentsOK' /\ Intact'
  BY DEF Inv, TypeOK, SegmentsOK, Intact, Alerted, Goto,
     array, segments, producerVars, consumerVars
<1>2. ProducerOK' /\ ConsumerOK'
  BY DEF Inv, TypeOK, ProducerOK, ConsumerOK, MayLook, Alerted, Goto,
     array, segments, producerVars, consumerVars
<1>3. WaitersOK' /\ SleepersOK'
  BY DEF Inv, TypeOK, ProducerOK, ConsumerOK, WaitersOK, InAllocate, SleepersOK, NeedsItem,
     Alerted, Goto,
     array, segments, producerVars, consumerVars
<1>. QED BY <1>1, <1>2, <1>3 DEF Inv

(* Consumer gives back printed items, and no other thread's limit moves. *)
LEMMA PrintOpInv ==
  ASSUME Inv, NEW p \in pos + 1 .. look, PrintOp(p)
  PROVE  Inv'
<1>. USE DEF Who, Producer, Consumer
<1>1. /\ start[Producer] \in Nat /\ start[Consumer] \in Nat /\ size[Producer] \in Nat
      /\ size[Consumer] \in Nat /\ pos \in Nat /\ look \in Nat /\ cGetLim \in Nat
      /\ p \in Nat /\ p <= start[Producer] /\ start[Consumer] < p /\ p <= look /\ pos < p
      /\ start[Consumer] + size[Consumer] = start[Producer]
  BY DEF Inv, TypeOK, SegmentsOK, ConsumerOK
<1>2. /\ pc[Consumer] = "print" /\ pos' = p
      /\ UNCHANGED <<buffer, bufSize, next, op, pPutLim, look, waiters, waiting,
                     failure, alerted, pFree>>
      /\ flushes' = flushes \ (start[Consumer] .. start'[Consumer] - 1)
      /\ takers' = takers \ (pos .. p - 1)
      /\ start'[Producer] = start[Producer] /\ size' \in [Who -> Nat] /\ start' \in [Who -> Nat]
      /\ pc'[Producer] = pc[Producer] /\ pc' = [pc EXCEPT ![Consumer] = pc'[Consumer]]
      /\ \/ /\ UNCHANGED <<start, size, cGetLim>> /\ pc'[Consumer] = "print"
            /\ p - 1 \notin flushes /\ ~(p >= start[Consumer] + ChunkSize)
         \/ /\ start'[Consumer] = p /\ size'[Consumer] = size[Consumer] - (p - start[Consumer])
            /\ size'[Producer] = size[Producer] + (p - start[Consumer])
            /\ cGetLim' = p + size'[Consumer] /\ pc'[Consumer] = "discarded"
  <2>1. CASE p - 1 \in flushes \/ p >= start[Consumer] + ChunkSize
    <3>1. p - start[Consumer] \in Nat /\ p - start[Consumer] <= size[Consumer]
      BY <1>1
    <3>2. Release(Consumer, p - start[Consumer])
      BY <2>1 DEF PrintOp
    <3>3. start[Consumer] + (p - start[Consumer]) = p
      BY <1>1
    <3>4. /\ start' \in [Who -> Nat] /\ size' \in [Who -> Nat]
          /\ start'[Consumer] = p /\ start'[Producer] = start[Producer]
          /\ size'[Consumer] = size[Consumer] - (p - start[Consumer])
          /\ size'[Producer] = size[Producer] + (p - start[Consumer])
      BY <3>1, <3>2, <3>3, ReleaseKeeps DEF Inv, Other
    <3>. QED BY <2>1, <3>4 DEF PrintOp, Goto, Inv, TypeOK, array
  <2>2. CASE ~(p - 1 \in flushes \/ p >= start[Consumer] + ChunkSize)
    <3>1. start' = start /\ flushes' = flushes
      BY <2>2 DEF PrintOp, segments
    <3>2. start[Consumer] .. start[Consumer] - 1 = {}
      BY <1>1
    <3>. QED BY <2>2, <3>1, <3>2 DEF PrintOp, Goto, Inv, TypeOK, array, segments
  <2>. QED BY <2>1, <2>2
<1>3. cGetLim' \in Nat /\ (start' # start => cGetLim' = start[Producer])
  BY <1>1, <1>2
<1>4. TypeOK'
  <2>1. flushes' \subseteq flushes /\ takers' \subseteq takers
    BY <1>2
  <2>2. flushes' \subseteq 0 .. next' - 1 /\ takers' \subseteq 0 .. next' - 1
    BY <2>1, <1>2 DEF Inv, TypeOK
  <2>. QED BY <2>2, <1>1, <1>2, <1>3 DEF Inv, TypeOK
<1>5. SegmentsOK'
  BY DEF Inv, TypeOK, SegmentsOK, PrintOp, Release, Other, Goto,
     array, segments, producerVars, consumerVars
<1>6. ProducerOK'
  <2>1. size'[Producer] \in Nat /\ size'[Producer] >= size[Producer]
    BY <1>1, <1>2
  <2>2. pPutLim \in Nat /\ pFree \in Nat /\ next \in Nat
    BY DEF Inv, TypeOK
  <2>3. start'[Consumer] \in Nat /\ start[Consumer] <= start'[Consumer]
    BY <1>1, <1>2
  <2>4. ASSUME start[Consumer] < next, next - 1 \in flushes, start'[Consumer] < next
        PROVE  next - 1 \in flushes'
    BY <2>2, <2>3, <2>4, <1>1, <1>2
  <2>5. /\ start'[Producer] = start[Producer] /\ next' = next /\ pPutLim' = pPutLim
        /\ pFree' = pFree /\ op' = op /\ pc'[Producer] = pc[Producer]
    BY <1>2
  <2>. QED BY <2>1, <2>2, <2>3, <2>4, <2>5, <1>1 DEF Inv, ProducerOK
<1>7. ConsumerOK'
  <2>1. start'[Consumer] <= p /\ p <= look /\ look <= cGetLim' /\ cGetLim' <= start[Producer]
    <3>1. look <= cGetLim /\ cGetLim <= start[Producer]
      BY DEF Inv, ConsumerOK
    <3>. QED BY <3>1, <1>1, <1>2, <1>3
  <2>2. ASSUME NEW i \in start'[Consumer] .. p - 1
        PROVE  i \notin flushes
    <3>1. start' = start /\ p - 1 \notin flushes
      BY <1>1, <1>2
    <3>2. CASE i < pos
      BY <3>1, <3>2, <1>1 DEF Inv, ConsumerOK
    <3>3. CASE i >= pos
      <4>1. \A j \in pos .. p - 1 : j \in flushes => j = p - 1
        BY DEF PrintOp
      <4>. QED BY <3>1, <3>3, <4>1, <1>1
    <3>. QED BY <3>1, <3>2, <3>3, <1>1
  <2>. QED BY <2>1, <2>2, <1>2 DEF ConsumerOK
<1>8. WaitersOK'
  BY DEF Inv, TypeOK, ProducerOK, ConsumerOK, WaitersOK, InAllocate, PrintOp, Release,
     Other, Goto,
     array, segments, producerVars, consumerVars
<1>9. SleepersOK'
  BY DEF Inv, TypeOK, SegmentsOK, ProducerOK, ConsumerOK, WaitersOK, SleepersOK, NeedsItem,
     MayLook, PrintOp, Release, Other, Goto,
     array, segments, producerVars, consumerVars
<1>10. Intact'
  <2>1. start'[Consumer] \in Nat /\ start'[Consumer] >= start[Consumer] /\ next \in Nat
    BY <1>1, <1>2 DEF Inv, TypeOK
  <2>2. start'[Consumer] .. next - 1 \subseteq start[Consumer] .. next - 1
    BY <2>1, <1>1
  <2>. QED BY <2>2, <1>2 DEF Inv, Intact
<1>. QED BY <1>4, <1>5, <1>6, <1>7, <1>8, <1>9, <1>10 DEF Inv
(* Consumer wakes a Flush whose items are gone. *)
LEMMA DiscardedInv == Inv /\ Discarded => Inv'
<1>. USE DEF Who, Producer, Consumer
<1>. SUFFICES ASSUME Inv, Discarded PROVE Inv'
  OBVIOUS
<1>1. TypeOK' /\ SegmentsOK' /\ Intact'
  BY DEF Inv, TypeOK, SegmentsOK, Intact, Discarded, Changed, Goto,
     array, segments, producerVars, consumerVars
<1>2. ProducerOK' /\ ConsumerOK'
  BY DEF Inv, TypeOK, ProducerOK, ConsumerOK, MayLook, Discarded, Changed, Goto,
     array, segments, producerVars, consumerVars
<1>3. WaitersOK' /\ SleepersOK'
  BY DEF Inv, TypeOK, ProducerOK, ConsumerOK, WaitersOK, InAllocate, SleepersOK, NeedsItem,
     Discarded, Changed, Goto,
     array, segments, producerVars, consumerVars
<1>. QED BY <1>1, <1>2, <1>3 DEF Inv

(* Consumer ends with a failure. *)
LEMMA SetFailureInv == Inv /\ SetFailure => Inv'
<1>. USE DEF Who, Producer, Consumer
<1>. SUFFICES ASSUME Inv, SetFailure PROVE Inv'
  OBVIOUS
<1>1. TypeOK' /\ SegmentsOK' /\ Intact'
  BY DEF Inv, TypeOK, SegmentsOK, Intact, SetFailure, Goto,
     array, segments, producerVars, consumerVars
<1>2. ProducerOK' /\ ConsumerOK'
  BY DEF Inv, TypeOK, ProducerOK, ConsumerOK, MayLook, SetFailure, Goto,
     array, segments, producerVars, consumerVars
<1>3. WaitersOK' /\ SleepersOK'
  BY DEF Inv, TypeOK, ProducerOK, ConsumerOK, WaitersOK, InAllocate, SleepersOK, NeedsItem,
     SetFailure, Goto,
     array, segments, producerVars, consumerVars
<1>. QED BY <1>1, <1>2, <1>3 DEF Inv

(* SetFailure wakes whoever is left. *)
LEMMA FailedInv == Inv /\ Failed => Inv'
<1>. USE DEF Who, Producer, Consumer
<1>. SUFFICES ASSUME Inv, Failed PROVE Inv'
  OBVIOUS
<1>1. TypeOK' /\ SegmentsOK' /\ Intact'
  BY DEF Inv, TypeOK, SegmentsOK, Intact, Failed, Changed, Goto,
     array, segments, producerVars, consumerVars
<1>2. ProducerOK' /\ ConsumerOK'
  BY DEF Inv, TypeOK, ProducerOK, ConsumerOK, MayLook, Failed, Changed, Goto,
     array, segments, producerVars, consumerVars
<1>3. WaitersOK' /\ SleepersOK'
  BY DEF Inv, TypeOK, ProducerOK, ConsumerOK, WaitersOK, InAllocate, SleepersOK, NeedsItem,
     Failed, Changed, Goto,
     array, segments, producerVars, consumerVars
<1>. QED BY <1>1, <1>2, <1>3 DEF Inv

------------------------------------------------------------------------------
(* Every step keeps Inv. *)
LEMMA NextInv == Inv /\ [Next]_vars => Inv'
<1>. SUFFICES ASSUME Inv, [Next]_vars PROVE Inv'
  OBVIOUS
<1>1. CASE Client
  BY <1>1, AddRefInv DEF Client
<1>2. CASE ProducerStep
  BY <1>2, HandedOverInv, AllocateRoomInv, WokenForRoomInv, StoreInv, ShareInv, SharedInv,
     WaitUntilEmptyInv, CloseInv, JoinInv DEF ProducerStep
<1>3. CASE ConsumerStep
  BY <1>3, ProbeInv, WokenForItemInv, AlertedInv, DiscardedInv, SetFailureInv, FailedInv,
     PrintOpInv DEF ConsumerStep
<1>4. CASE UNCHANGED vars
  <2>. USE <1>4 DEF Inv, vars, array, segments, producerVars, consumerVars
  <2>1. TypeOK' /\ SegmentsOK' /\ Intact'
    BY DEF TypeOK, SegmentsOK, Intact
  <2>2. ProducerOK' /\ ConsumerOK'
    BY DEF ProducerOK, ConsumerOK, MayLook
  <2>3. WaitersOK' /\ SleepersOK'
    BY DEF WaitersOK, InAllocate, SleepersOK, NeedsItem
  <2>. QED BY <2>1, <2>2, <2>3
<1>. QED BY <1>1, <1>2, <1>3, <1>4 DEF Next

(* The segments, the limits the two threads work by without the lock, and  *)
(* the count of those in Allocate's loop agree at all times.               *)
THEOREM Invariance == Spec => []Inv
<1>. QED BY InitInv, NextInv, PTL DEF Spec

(* What Get reads without the lock is the item that was stored, whatever   *)
(* the size of the chunks and however often Expand has moved the items.    *)
THEOREM ItemsIntact == Spec => []Intact
<1>1. Inv => Intact
  BY DEF Inv
<1>. QED BY <1>1, Invariance, PTL

(* Client and printing thread sleep on t.changed together only when the    *)
(* printing thread has looked past the FlushOp that the client has put     *)
(* last, directly after an item that takes the next one.                   *)
THEOREM OneIsAwake == Spec => []NeverBothWaiting
<1>1. Inv => NeverBothWaiting
  <2>. USE DEF Who, Producer, Consumer
  <2>. SUFFICES ASSUME Inv, waiting = Who PROVE PastFlush
    BY DEF NeverBothWaiting
  <2>1. pc[Producer] = "flush" /\ pc[Consumer] = "waiting"
    BY DEF Inv, SleepersOK
  <2>2. start[Consumer] < next /\ NeedsItem
    BY <2>1 DEF Inv, SleepersOK
  <2>3. /\ start[Producer] = next /\ next - 1 \in flushes
        /\ start[Consumer] \in Nat /\ size[Consumer] \in Nat /\ next \in Nat
        /\ look \in Nat /\ pos \in Nat
        /\ start[Consumer] + size[Consumer] = next
    BY <2>1, <2>2 DEF Inv, TypeOK, SegmentsOK, ProducerOK
  <2>4. next - 1 < look
    BY <2>2, <2>3 DEF NeedsItem
  <2>5. pos <= next - 1
    <3>1. \A i \in start[Consumer] .. pos - 1 : i \notin flushes
      BY DEF Inv, ConsumerOK
    <3>. QED BY <3>1, <2>2, <2>3
  <2>6. (next - 1) - 1 \in takers
    BY <2>1, <2>3, <2>4, <2>5 DEF Inv, ConsumerOK, MayLook
  <2>. QED BY <2>1, <2>3, <2>4, <2>5, <2>6 DEF PastFlush
<1>. QED BY <1>1, Invariance, PTL

(* The array is replaced only while both threads are in Allocate's loop.   *)
THEOREM ExpandSafely == Spec => ExpandBothBlocked
<1>. DEFINE Blocked == bufSize' # bufSize => \A who \in Who : pc'[who] = "waiting"
<1>1. Inv /\ [Next]_vars => [Blocked]_vars
  <2>. SUFFICES ASSUME Inv, Next, bufSize' # bufSize PROVE Blocked
    OBVIOUS
  <2>1. ASSUME NEW this \in Who, AwaitChange(this), waiters' = 1 + InAllocate(Other(this))
        PROVE  Blocked
    <3>. USE DEF Who, Producer, Consumer
    <3>1. waiters' = 2
      BY <2>1 DEF AwaitChange, array
    <3>2. pc[Other(this)] = "waiting"
      BY <2>1, <3>1 DEF InAllocate
    <3>3. pc' = [pc EXCEPT ![this] = "waiting"]
      BY <2>1 DEF AwaitChange, Goto
    <3>. QED BY <2>1, <3>2, <3>3 DEF Inv, TypeOK, Other
  <2>2. CASE AllocateRoom
    <3>1. AwaitChange(Producer) /\ waiters' = waiters + 1
      BY <2>2 DEF AllocateRoom, RoomFound, array
    <3>2. waiters = InAllocate(Other(Producer))
      BY <2>2 DEF AllocateRoom, Inv, TypeOK, WaitersOK, InAllocate, Other, Producer, Consumer
    <3>. QED BY <3>1, <3>2, <2>1 DEF Who, InAllocate
  <2>3. CASE WokenForRoom
    <3>1. AwaitChange(Producer) /\ waiters' = waiters
      BY <2>3 DEF WokenForRoom, RoomFound, array
    <3>2. waiters = 1 + InAllocate(Other(Producer))
      BY <2>3 DEF WokenForRoom, Inv, TypeOK, WaitersOK, InAllocate, Other, Producer, Consumer
    <3>. QED BY <3>1, <3>2, <2>1 DEF Who
  <2>4. CASE Probe
    <3>1. AwaitChange(Consumer) /\ waiters' = waiters + 1
      BY <2>4 DEF Probe, ItemFound, array
    <3>2. waiters = InAllocate(Other(Consumer))
      BY <2>4 DEF Probe, Inv, TypeOK, WaitersOK, InAllocate, Other, Producer, Consumer
    <3>. QED BY <3>1, <3>2, <2>1 DEF Who, InAllocate
  <2>5. CASE WokenForItem
    <3>1. AwaitChange(Consumer) /\ waiters' = waiters
      BY <2>5 DEF WokenForItem, ItemFound, array
    <3>2. waiters = 1 + InAllocate(Other(Consumer))
      BY <2>5 DEF WokenForItem, Inv, TypeOK, WaitersOK, InAllocate, Other, Producer, Consumer
    <3>. QED BY <3>1, <3>2, <2>1 DEF Who
  <2>6. Next /\ bufSize' # bufSize => AllocateRoom \/ WokenForRoom \/ Probe \/ WokenForItem
    BY DEF Next, Client, ProducerStep, ConsumerStep, AddRef, HandedOver, Store, Share, Shared,
       WaitUntilEmpty, Close, Join, Alerted, Discarded, SetFailure, Failed, PrintOp, array
  <2>. QED BY <2>2, <2>3, <2>4, <2>5, <2>6
<1>. QED BY <1>1, Invariance, PTL DEF Spec, ExpandBothBlocked
===============================================================================
