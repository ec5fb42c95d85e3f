--------------------------- MODULE AutoFlushWrProofs ---------------------------
(***************************************************************************)
(* Proofs about AutoFlushWr, for any number of writers and any delays: the *)
(* invariant Inv is inductive, so the worker's list is sound, no signal to *)
(* the worker is lost, and it never pauses too long.  There is one lemma   *)
(* for each action, or for each group of actions that leave the list alone.*)
(***************************************************************************)
EXTENDS AutoFlushWr, TLAPS

USE NamesAssumption, DelayAssumption, BoundsAssumption

(* An empty list has no writer on it: no circle stands beside it. *)
LEMMA EmptyList ==
  ASSUME Linked, TypeOK, link[Active] = NIL
  PROVE  \A w \in Writers : ~onQ[w]
<1> DEFINE S == {w \in Writers : onQ[w]}
<1>1. \A w \in S : \E p \in S : link[p] = w
  BY DEF Linked, TypeOK, Nodes
<1>2. S \in SUBSET Writers
  OBVIOUS
<1>3. S = {}
  <2> HIDE DEF S
  <2> QED  BY <1>1, <1>2 DEF Linked
<1> QED  BY <1>3

LEMMA InitInv == Init => Inv
<1> SUFFICES ASSUME Init PROVE Inv
  OBVIOUS
<1>1. TypeOK
  <2>1. link \in [Nodes -> Writers \cup {NIL}] /\ s \in Nodes
    BY DEF Init, Nodes
  <2>2. /\ hi \in [Writers -> Nat]
        /\ minDelay \in 0..Forever /\ pause \in 0..Forever
    BY DEF Init
  <2> QED  BY <2>1, <2>2 DEF Init, TypeOK
<1>2. Linked
  <2>1. \A S \in SUBSET Writers :
          (\A w \in S : \E p \in S : link[p] = w) => S = {}
    BY DEF Init, Nodes
  <2> QED  BY <2>1 DEF Init, Linked, Nodes
<1>3. Buffers
  BY DEF Init, Buffers, Free
<1>4. NoLostSignal
  BY DEF Init, NoLostSignal
<1>5. MinimumKept
  BY DEF Init, MinimumKept, ToCome
<1> QED  BY <1>1, <1>2, <1>3, <1>4, <1>5 DEF Inv

------------------------------------------------------------------------------
(* Steps that leave the list, the worker and minDelay as they are. *)

(* What the list says is not disturbed by the buffers. *)
LEMMA OnlyBuffers ==
  ASSUME Inv, TypeOK', Buffers', UNCHANGED <<list, past, minDelay, worker,
         local, alerted>>,
         \A w \in Writers : client[w] = "signal" => client'[w] = "signal",
         exiting' = "no" => exiting = "no"
  PROVE  Inv'
<1>1. Linked'
  BY DEF Inv, Linked, list
<1>2. NoLostSignal'
  BY DEF Inv, NoLostSignal, list
<1>3. MinimumKept'
  BY DEF Inv, MinimumKept, ToCome, list, local
<1> QED  BY <1>1, <1>2, <1>3 DEF Inv

LEMMA PutCharInv == ASSUME Inv, NEW w \in Writers, PutChar(w) PROVE Inv'
<1>1. TypeOK'
  BY DEF Inv, PutChar, TypeOK, list, local
<1>2. Buffers'
  BY DEF Inv, PutChar, TypeOK, Buffers, Free
<1> QED  BY <1>1, <1>2, OnlyBuffers DEF PutChar

LEMMA PutCharSeekInv == ASSUME Inv, NEW w \in Writers, PutCharSeek(w) PROVE Inv'
<1>1. TypeOK'
  BY DEF Inv, PutCharSeek, EmptyBuffer, TypeOK, list, local
<1>2. Buffers'
  BY DEF Inv, PutCharSeek, EmptyBuffer, TypeOK, Buffers, Free
<1>3. \A v \in Writers : client[v] = "signal" => client'[v] = "signal"
  BY DEF Inv, PutCharSeek, Free, TypeOK
<1> QED  BY <1>1, <1>2, <1>3, OnlyBuffers DEF PutCharSeek

(* A flush of a writer that is not locked keeps the buffers sound. *)
LEMMA FlushedBuffers ==
  ASSUME TypeOK, Buffers, NEW w \in Writers, Free(w), Flushed(w),
         UNCHANGED client
  PROVE  /\ lo' \in [Writers -> Nat] /\ hi' \in [Writers -> Nat]
         /\ UNCHANGED <<cur, closed>>
         /\ Buffers'
<1>1. CASE cur[w] > lo[w]
  BY <1>1 DEF TypeOK, Buffers, Free, Flushed, EmptyBuffer
<1>2. CASE ~(cur[w] > lo[w])
  BY <1>2 DEF TypeOK, Buffers, Free, Flushed
<1> QED  BY <1>1, <1>2

LEMMA ClientFlushInv == ASSUME Inv, NEW w \in Writers, ClientFlush(w) PROVE Inv'
<1>1. /\ lo' \in [Writers -> Nat] /\ hi' \in [Writers -> Nat]
      /\ UNCHANGED <<cur, closed>> /\ Buffers'
  BY FlushedBuffers DEF Inv, ClientFlush
<1>2. TypeOK'
  BY <1>1 DEF Inv, ClientFlush, TypeOK, list, local
<1> QED  BY <1>1, <1>2, OnlyBuffers DEF ClientFlush

LEMMA CloseInv == ASSUME Inv, NEW w \in Writers, Close(w) PROVE Inv'
<1> DEFINE end == IF cur[w] > lo[w] THEN cur[w] + Room ELSE hi[w]
<1>1. end \in Nat
  BY DEF Inv, TypeOK
<1> HIDE DEF end
<1>2. /\ cur' = [cur EXCEPT ![w] = end] /\ lo' = [lo EXCEPT ![w] = end]
      /\ hi' = [hi EXCEPT ![w] = end] /\ closed' = [closed EXCEPT ![w] = TRUE]
      /\ Free(w)
      /\ UNCHANGED <<client, list, past, minDelay, worker, local, alerted,
                     exiting, xwr, fatal>>
  BY DEF Close, end
<1>3. TypeOK'
  BY <1>1, <1>2 DEF Inv, TypeOK, list, local
<1>4. Buffers'
  BY <1>1, <1>2 DEF Inv, TypeOK, Buffers, Free
<1> QED  BY <1>2, <1>3, <1>4, OnlyBuffers

LEMMA AlarmPassesInv == ASSUME Inv, NEW w \in Writers, AlarmPasses(w) PROVE Inv'
<1>1. TypeOK'
  BY DEF Inv, AlarmPasses, TypeOK, fields, list, local
<1>2. Linked' /\ NoLostSignal' /\ Buffers'
  BY DEF Inv, AlarmPasses, Linked, NoLostSignal, Buffers, Free, fields, list
<1>3. MinimumKept'
  BY DEF Inv, AlarmPasses, MinimumKept, ToCome, list, local
<1> QED  BY <1>1, <1>2, <1>3 DEF Inv

LEMMA ExitInv == ASSUME Inv, Exit PROVE Inv'
<1>1. TypeOK'
  BY DEF Inv, Exit, TypeOK, fields, list, local
<1>2. Buffers'
  BY DEF Inv, Exit, Buffers, Free, fields
<1> QED  BY <1>1, <1>2, OnlyBuffers DEF Exit, fields

------------------------------------------------------------------------------
(* A writer joins the list at its head.  No circle goes through it, for    *)
(* what comes before it is the sentinel alone.                             *)
LEMMA Enlisted ==
  ASSUME TypeOK, Linked, NEW w \in Writers, ~onQ[w],
         onQ' = [onQ EXCEPT ![w] = TRUE],
         link' = [link EXCEPT ![w] = link[Active], ![Active] = w],
         worker' # "none"
  PROVE  Linked'
<1>0. \A p \in Nodes : link[p] # w
  BY DEF Linked
<1>1. /\ \A p \in Nodes : link'[p] = IF p = w THEN link[Active]
                                    ELSE IF p = Active THEN w ELSE link[p]
      /\ \A v \in Writers : onQ'[v] = (v = w \/ onQ[v])
  BY DEF TypeOK, Nodes
<1>2. \A p \in Nodes : link'[p] # NIL => onQ'[link'[p]]
  <2> SUFFICES ASSUME NEW p \in Nodes, link'[p] # NIL PROVE onQ'[link'[p]]
    OBVIOUS
  <2>1. CASE p = Active
    BY <2>1, <1>1 DEF Nodes
  <2>2. CASE p # Active
    <3>1. \E q \in Nodes : link'[p] = link[q]
      BY <2>2, <1>1 DEF Nodes
    <3>2. link'[p] \in Writers /\ onQ[link'[p]]
      BY <3>1 DEF Linked, TypeOK
    <3> QED  BY <3>2, <1>1
  <2> QED  BY <2>1, <2>2
<1>3. \A p, q \in Nodes : link'[p] = link'[q] /\ link'[p] # NIL => p = q
  BY <1>1 DEF TypeOK, Linked, Nodes
<1>4. ASSUME NEW v \in Writers
      PROVE  IF onQ'[v] THEN \E p \in Nodes : link'[p] = v ELSE link'[v] = NIL
  <2>1. CASE v = w
    BY <2>1, <1>1 DEF Nodes
  <2>2. CASE v # w /\ onQ[v]
    <3>1. PICK p \in Nodes : link[p] = v
      BY <2>2 DEF Linked
    <3>2. p # w
      BY <3>1, <2>2 DEF Linked
    <3>3. CASE p = Active
      BY <3>1, <3>3, <1>1, <2>2 DEF Nodes
    <3>4. CASE p # Active
      BY <3>1, <3>2, <3>4, <1>1, <2>2
    <3> QED  BY <3>3, <3>4
  <2>3. CASE v # w /\ ~onQ[v]
    <3>1. link[v] = NIL
      BY <2>3 DEF Linked
    <3>2. link'[v] = link[v] /\ ~onQ'[v]
      BY <2>3, <1>1 DEF Nodes
    <3> QED  BY <3>1, <3>2
  <2> QED  BY <2>1, <2>2, <2>3
<1>5. ASSUME NEW S \in SUBSET Writers,
             \A v \in S : \E p \in S : link'[p] = v
      PROVE  S = {}
  <2>1. w \notin S
    BY <1>0, <1>1, <1>5 DEF Nodes, TypeOK
  <2>2. \A v \in S : \E p \in S : link[p] = v
    BY <2>1, <1>1, <1>5 DEF Nodes
  <2> QED  BY <2>2 DEF Linked
<1> QED  BY <1>2, <1>3, <1>4, <1>5 DEF Linked

(* What Worker's scan has yet to come to, with w at the head of the list:  *)
(* w itself, if the scan is still at the sentinel.                         *)
LEMMA EnlistedToCome ==
  ASSUME TypeOK, Linked, NEW w \in Writers, ~onQ[w],
         onQ' = [onQ EXCEPT ![w] = TRUE],
         link' = [link EXCEPT ![w] = link[Active], ![Active] = w],
         s' = s, s # Active => onQ[s],
         minDelay' \in Nat, minDelay' <= Delay[w],
         link[Active] = NIL \/ minDelay' <= minDelay,
         NEW T \in SUBSET Writers, ToCome(T)
  PROVE  /\ \E R \in SUBSET Writers : ToCome(R)'
         /\ T = {} => ToCome({})'
<1>1. /\ \A p \in Nodes : link'[p] = IF p = w THEN link[Active]
                                    ELSE IF p = Active THEN w ELSE link[p]
      /\ \A v \in Writers : onQ'[v] = (v = w \/ onQ[v])
  BY DEF TypeOK, Nodes
<1>2. \A v \in Writers : onQ'[v] /\ v \notin T => minDelay' <= Delay[v]
  <2>1. CASE link[Active] = NIL
    BY <2>1, <1>1, EmptyList
  <2>2. CASE minDelay' <= minDelay
    BY <2>2, <1>1 DEF ToCome, TypeOK
  <2> QED  BY <2>1, <2>2
<1>3. T = {} => ToCome({})'
  BY <1>2 DEF ToCome
<1>4. w # s
  BY DEF Nodes, TypeOK
<1>5. \A v \in T : \E p \in T \cup {s} : link[p] = v
  BY DEF ToCome
<1>6. T \subseteq Nodes /\ s \in Nodes /\ w \in Nodes /\ w # Active
      /\ Active \in Nodes /\ Active \notin T
  BY DEF Nodes, TypeOK
<1>7. w \notin T
  BY <1>5, <1>6 DEF Linked
<1>8. CASE s = Active
  <2>1. \A v \in T \cup {w} : \E p \in (T \cup {w}) \cup {s} : link'[p] = v
    <3>0. link'[s] = w
      BY <1>1, <1>6, <1>8
    <3>1. SUFFICES ASSUME NEW v \in T
                   PROVE  \E p \in (T \cup {w}) \cup {s} : link'[p] = v
      BY <3>0
    <3>2. PICK p \in T \cup {s} : link[p] = v
      BY <1>5
    <3>3. CASE p = s
      BY <3>2, <3>3, <1>1, <1>6, <1>8 DEF Nodes
    <3>4. CASE p # s
      BY <3>2, <3>4, <1>1, <1>6, <1>7, <1>8
    <3> QED  BY <3>3, <3>4
  <2>2. ToCome(T \cup {w})'
    BY <2>1, <1>2 DEF ToCome
  <2> QED  BY <2>2, <1>3
<1>9. CASE s # Active
  <2>1. \A v \in T : \E p \in T \cup {s} : link'[p] = v
    <3>1. \A p \in T \cup {s} : p \in Nodes /\ p # w /\ p # Active
      BY <1>4, <1>6, <1>7, <1>9
    <3>2. \A p \in T \cup {s} : link'[p] = link[p]
      BY <3>1, <1>1
    <3> QED  BY <3>2, <1>5
  <2>2. ToCome(T)'
    BY <2>1, <1>2 DEF ToCome
  <2> QED  BY <2>2, <1>3
<1> QED  BY <1>8, <1>9

LEMMA EnlistInv == ASSUME Inv, NEW w \in Writers, Enlist(w) PROVE Inv'
<1>0. /\ TypeOK /\ Linked /\ Buffers /\ NoLostSignal /\ MinimumKept
      /\ client[w] = "enlist" /\ Delay[w] \in Nat /\ Delay[w] < Forever
      /\ UNCHANGED <<lo, hi, closed, s, wr, pause, exiting, xwr, fatal>>
  BY DEF Inv, Enlist
<1>1. CASE onQ[w]
  <2>1. /\ Store(w)
        /\ UNCHANGED <<list, past, minDelay, worker, due, alerted>>
    BY <1>1 DEF Enlist
  <2>2. TypeOK'
    BY <1>0, <2>1 DEF Store, TypeOK, list
  <2>3. Buffers'
    BY <1>0, <2>1 DEF Store, TypeOK, Buffers, Free
  <2>4. \A v \in Writers : client[v] = "signal" => client'[v] = "signal"
    BY <1>0, <2>1 DEF Store, TypeOK
  <2> QED  BY <1>0, <2>1, <2>2, <2>3, <2>4, OnlyBuffers DEF local
<1>2. CASE ~onQ[w]
  <2>1. /\ onQ' = [onQ EXCEPT ![w] = TRUE]
        /\ link' = [link EXCEPT ![w] = link[Active], ![Active] = w]
        /\ past' = past \ {w} /\ due' = due \ {w}
    BY <1>2 DEF Enlist
  <2>2. CASE link[Active] = NIL
    <3>1. /\ minDelay' = Delay[w]
          /\ worker' = IF worker = "none" THEN "test" ELSE worker
          /\ client' = [client EXCEPT ![w] = "signal"]
          /\ UNCHANGED <<cur, alerted>>
      BY <1>2, <2>2 DEF Enlist
    <3>2. TypeOK'
      BY <1>0, <2>1, <3>1 DEF TypeOK, Nodes
    <3>3. Linked'
      BY <1>0, <1>2, <2>1, <3>1, Enlisted
    <3>4. Buffers'
      BY <1>0, <3>1 DEF TypeOK, Buffers, Free
    <3>5. NoLostSignal'
      BY <1>0, <3>1 DEF TypeOK, NoLostSignal
    <3>6. MinimumKept'
      <4> SUFFICES ASSUME exiting' = "no"
                   PROVE  /\ s' # Active => onQ'[s']
                          /\ worker' \in {"none", "test", "wait", "pause"}
                               => ToCome({})'
                          /\ worker' \in {"clock", "scan", "flush"}
                               => \E T \in SUBSET Writers : ToCome(T)'
                          /\ worker' = "pause"
                               => /\ link'[Active] # NIL
                                  /\ alerted' \/ pause' <= minDelay'
        BY DEF MinimumKept
      <4>1. s' # Active => onQ'[s']
        BY <1>0, <2>1 DEF MinimumKept, TypeOK, Nodes
      <4>2. \A v \in Writers : ~onQ[v]
        BY <1>0, <2>2, EmptyList
      <4>3. \A v \in Writers : onQ'[v] => minDelay' <= Delay[v]
        BY <1>0, <2>1, <3>1, <4>2 DEF TypeOK
      <4>4. ToCome({})'
        BY <4>3 DEF ToCome
      <4>5. worker # "pause"
        BY <1>0, <2>2 DEF MinimumKept
      <4> QED  BY <3>1, <4>1, <4>4, <4>5
    <3> QED  BY <3>2, <3>3, <3>4, <3>5, <3>6 DEF Inv
  <2>3. CASE link[Active] # NIL
    <3>1. /\ Store(w)
          /\ minDelay' = IF minDelay > Delay[w] THEN Delay[w] ELSE minDelay
          /\ alerted' = (alerted \/ minDelay > Delay[w])
          /\ UNCHANGED worker
      BY <1>2, <2>3 DEF Enlist
    <3>2. TypeOK'
      BY <1>0, <2>1, <3>1 DEF TypeOK, Nodes, Store
    <3>3. Linked'
      BY <1>0, <1>2, <2>1, <2>3, <3>1, Enlisted DEF Linked
    <3>4. Buffers'
      BY <1>0, <3>1 DEF TypeOK, Buffers, Free, Store
    <3>5. NoLostSignal'
      BY <1>0, <2>3, <3>1 DEF TypeOK, NoLostSignal, Store
    <3>6. MinimumKept'
      <4> SUFFICES ASSUME exiting' = "no"
                   PROVE  /\ s' # Active => onQ'[s']
                          /\ worker' \in {"none", "test", "wait", "pause"}
                               => ToCome({})'
                          /\ worker' \in {"clock", "scan", "flush"}
                               => \E T \in SUBSET Writers : ToCome(T)'
                          /\ worker' = "pause"
                               => /\ link'[Active] # NIL
                                  /\ alerted' \/ pause' <= minDelay'
        BY DEF MinimumKept
      <4>1. s' # Active => onQ'[s']
        BY <1>0, <2>1 DEF MinimumKept, TypeOK, Nodes
      <4>2. /\ s # Active => onQ[s]
            /\ minDelay' \in Nat /\ minDelay' <= Delay[w]
            /\ minDelay' <= minDelay
        BY <1>0, <3>1 DEF MinimumKept, TypeOK
      <4>3. ASSUME NEW T \in SUBSET Writers, ToCome(T)
            PROVE  /\ \E R \in SUBSET Writers : ToCome(R)'
                   /\ T = {} => ToCome({})'
        BY <1>0, <1>2, <2>1, <4>2, <4>3, EnlistedToCome
      <4>4. worker' \in {"none", "test", "wait", "pause"} => ToCome({})'
        BY <1>0, <3>1, <4>3 DEF MinimumKept
      <4>5. worker' \in {"clock", "scan", "flush"}
              => \E T \in SUBSET Writers : ToCome(T)'
        BY <1>0, <3>1, <4>3 DEF MinimumKept
      <4>6. worker' = "pause"
              => /\ link'[Active] # NIL
                 /\ alerted' \/ pause' <= minDelay'
        <5>1. link'[Active] = w
          BY <1>0, <2>1 DEF TypeOK, Nodes
        <5>2. worker' = "pause" => alerted \/ pause <= minDelay
          BY <1>0, <3>1 DEF MinimumKept
        <5>3. worker' = "pause" => alerted' \/ pause' <= minDelay'
          BY <1>0, <3>1, <5>2 DEF TypeOK
        <5>4. w # NIL
          OBVIOUS
        <5> QED  BY <5>1, <5>3, <5>4
      <4> QED  BY <4>1, <4>4, <4>5, <4>6
    <3> QED  BY <3>2, <3>3, <3>4, <3>5, <3>6 DEF Inv
  <2> QED  BY <2>2, <2>3
<1> QED  BY <1>1, <1>2

LEMMA SignalWorkerInv ==
  ASSUME Inv, NEW w \in Writers, SignalWorker(w)
  PROVE  Inv'
<1>1. TypeOK'
  BY DEF Inv, SignalWorker, Store, TypeOK, list, local
<1>2. Linked'
  BY DEF Inv, SignalWorker, Linked, TypeOK, list
<1>3. Buffers'
  BY DEF Inv, SignalWorker, Store, TypeOK, Buffers, Free
<1>4. NoLostSignal'
  BY DEF Inv, SignalWorker, NoLostSignal
<1>5. MinimumKept'
  BY DEF Inv, SignalWorker, MinimumKept, ToCome, list, local
<1> QED  BY <1>1, <1>2, <1>3, <1>4, <1>5 DEF Inv

------------------------------------------------------------------------------
(* A writer is taken off the list.  A circle through what is left would    *)
(* have been one with the writer in it.                                    *)
LEMMA TakenOff ==
  ASSUME TypeOK, Linked, NEW p \in Nodes, NEW w \in Writers, link[p] = w,
         TakeOff(p, w), worker' # "none"
  PROVE  /\ Linked'
         /\ p # w
         /\ onQ[w]
<1>1. p # w
  <2>1. SUFFICES ASSUME p = w PROVE FALSE
    OBVIOUS
  <2>2. {w} \in SUBSET Writers /\ \A v \in {w} : \E q \in {w} : link[q] = v
    BY <2>1
  <2>3. {w} = {}
    BY <2>2 DEF Linked
  <2> QED  BY <2>3
<1>2. onQ[w]
  BY DEF Linked
<1>3. /\ \A q \in Nodes : link'[q] = IF q = w THEN NIL
                                    ELSE IF q = p THEN link[w] ELSE link[q]
      /\ \A v \in Writers : onQ'[v] = (onQ[v] /\ v # w)
      /\ w \in Nodes
  BY <1>1 DEF TakeOff, TypeOK, Nodes
<1>4. \A q \in Nodes : link[q] = w => q = p
  BY DEF Linked
<1>5. link[w] # w
  BY <1>1, <1>3, <1>4
<1>6. \A q \in Nodes : link'[q] # NIL =>
        \E o \in Nodes : /\ link'[q] = link[o] /\ link[o] # w
                        /\ o = IF q = p THEN w ELSE q
  BY <1>3, <1>4, <1>5
<1>7. \A q \in Nodes : link'[q] # NIL => onQ'[link'[q]]
  <2> SUFFICES ASSUME NEW q \in Nodes, link'[q] # NIL PROVE onQ'[link'[q]]
    OBVIOUS
  <2>1. PICK o \in Nodes : link'[q] = link[o] /\ link[o] # w
    BY <1>6
  <2>2. link[o] \in Writers /\ onQ[link[o]]
    BY <2>1 DEF Linked, TypeOK
  <2> QED  BY <2>1, <2>2, <1>3
<1>8. \A q, r \in Nodes : link'[q] = link'[r] /\ link'[q] # NIL => q = r
  <2> SUFFICES ASSUME NEW q \in Nodes, NEW r \in Nodes,
                      link'[q] = link'[r], link'[q] # NIL
               PROVE  q = r
    OBVIOUS
  <2>1. q # w /\ r # w
    BY <1>3
  <2>2. PICK a \in Nodes : link'[q] = link[a] /\ a = IF q = p THEN w ELSE q
    BY <1>6
  <2>3. PICK b \in Nodes : link'[r] = link[b] /\ b = IF r = p THEN w ELSE r
    BY <1>6
  <2>4. a = b
    <3>1. link[a] = link[b] /\ link[a] # NIL
      BY <2>2, <2>3
    <3> QED  BY <3>1 DEF Linked
  <2> QED  BY <2>1, <2>2, <2>3, <2>4
<1>9. ASSUME NEW v \in Writers
      PROVE  IF onQ'[v] THEN \E q \in Nodes : link'[q] = v ELSE link'[v] = NIL
  <2>1. CASE onQ'[v]
    <3>1. onQ[v] /\ v # w
      BY <2>1, <1>3
    <3>2. PICK q \in Nodes : link[q] = v
      BY <3>1 DEF Linked
    <3>3. CASE q = w
      BY <3>2, <3>3, <1>1, <1>3, <2>1
    <3>4. CASE q # w
      <4>1. q # p
        BY <3>1, <3>2
      <4> QED  BY <4>1, <3>2, <3>4, <1>3, <2>1
    <3> QED  BY <3>3, <3>4
  <2>2. CASE ~onQ'[v]
    <3>1. CASE v = w
      BY <3>1, <2>2, <1>3
    <3>2. CASE v # w
      <4>1. ~onQ[v] /\ v \in Nodes
        BY <3>2, <2>2, <1>3 DEF Nodes
      <4>2. link[v] = NIL
        BY <4>1 DEF Linked
      <4>3. v # p
        BY <4>2
      <4> QED  BY <4>1, <4>2, <4>3, <3>2, <2>2, <1>3
    <3> QED  BY <3>1, <3>2
  <2> QED  BY <2>1, <2>2
<1>10. ASSUME NEW S \in SUBSET Writers,
              \A v \in S : \E q \in S : link'[q] = v
       PROVE  S = {}
  <2>1. w \notin S
    <3>1. \A q \in Nodes : link'[q] # w
      BY <1>3, <1>4, <1>5
    <3> QED  BY <3>1, <1>10 DEF Nodes
  <2>2. CASE p \in S
    <3>1. ASSUME NEW v \in S, link[w] # v PROVE \E q \in S : link[q] = v
      <4>1. PICK q \in S : link'[q] = v
        BY <1>10
      <4>2. q \in Nodes /\ q # w /\ q # p
        BY <4>1, <3>1, <2>1, <1>3 DEF Nodes
      <4> QED  BY <4>1, <4>2, <1>3
    <3>2. \A v \in S \cup {w} : \E q \in S \cup {w} : link[q] = v
      BY <2>2, <3>1
    <3>3. S \cup {w} = {}
      <4>1. S \cup {w} \in SUBSET Writers
        OBVIOUS
      <4> QED  BY <3>2, <4>1 DEF Linked
    <3> QED  BY <3>3
  <2>3. CASE p \notin S
    <3>1. \A v \in S : \E q \in S : link[q] = v
      BY <2>1, <2>3, <1>3, <1>10 DEF Nodes
    <3> QED  BY <3>1 DEF Linked
  <2> QED  BY <2>2, <2>3
<1> QED  BY <1>1, <1>2, <1>7, <1>8, <1>9, <1>10 DEF Linked

------------------------------------------------------------------------------
(* The worker. *)

(* When it begins to pause, minDelay is no more than the delays there are. *)
LEMMA TestInv == ASSUME Inv, Test PROVE Inv'
<1>1. TypeOK'
  BY DEF Inv, Test, TypeOK, fields, list
<1>2. Linked' /\ Buffers'
  BY DEF Inv, Test, Linked, Buffers, Free, fields, list
<1>3. NoLostSignal'
  BY DEF Inv, Test, NoLostSignal, list
<1>4. MinimumKept'
  BY DEF Inv, Test, TypeOK, MinimumKept, ToCome, list
<1> QED  BY <1>1, <1>2, <1>3, <1>4 DEF Inv

LEMMA PauseEndsInv == ASSUME Inv, PauseEnds PROVE Inv'
<1>1. TypeOK'
  BY DEF Inv, PauseEnds, TypeOK, fields, list, local
<1>2. Linked' /\ Buffers' /\ NoLostSignal'
  BY DEF Inv, PauseEnds, Linked, Buffers, Free, NoLostSignal, fields, list
<1>3. MinimumKept'
  BY DEF Inv, PauseEnds, MinimumKept, list, local
<1> QED  BY <1>1, <1>2, <1>3 DEF Inv

(* At the sentinel, every writer on the list is to come. *)
LEMMA StartInv == ASSUME Inv, Start PROVE Inv'
<1>1. TypeOK'
  BY DEF Inv, Start, TypeOK, Nodes, fields, list
<1>2. Linked' /\ Buffers' /\ NoLostSignal'
  BY DEF Inv, Start, Linked, Buffers, Free, NoLostSignal, fields, list
<1>3. MinimumKept'
  <2> DEFINE T == {w \in Writers : onQ[w]}
  <2>1. \A w \in T : \E p \in T \cup {Active} : link[p] = w
    BY DEF Inv, Linked, TypeOK, Nodes
  <2>2. ToCome(T)'
    BY <2>1 DEF Start, ToCome, list
  <2>3. T' \in SUBSET Writers
    OBVIOUS
  <2>4. \E R \in SUBSET Writers : ToCome(R)'
    BY <2>2, <2>3
  <2> QED  BY <2>4 DEF Start, MinimumKept
<1> QED  BY <1>1, <1>2, <1>3 DEF Inv

LEMMA ClockInv == ASSUME Inv, Clock PROVE Inv'
<1>1. TypeOK'
  BY DEF Inv, Clock, TypeOK, fields, list
<1>2. Linked' /\ Buffers' /\ NoLostSignal'
  BY DEF Inv, Clock, Linked, Buffers, Free, NoLostSignal, fields, list
<1>3. MinimumKept'
  BY DEF Inv, Clock, MinimumKept, ToCome, list
<1> QED  BY <1>1, <1>2, <1>3 DEF Inv

(* At the end of the list nothing is to come; a writer taken off the list  *)
(* needs no minimum; one that stays has its delay counted.                 *)
LEMMA ScanInv == ASSUME Inv, Scan PROVE Inv'
<1>0. /\ TypeOK /\ Linked /\ Buffers /\ NoLostSignal /\ MinimumKept
      /\ worker = "scan"
      /\ UNCHANGED <<fields, client, past, due, pause, alerted, exiting, xwr,
                     fatal>>
  BY DEF Inv, Scan
<1>1. Buffers'
  BY <1>0 DEF Buffers, Free, fields
<1>2. CASE link[s] = NIL
  <2>1. worker' = "test" /\ UNCHANGED <<list, minDelay, s, wr>>
    BY <1>0, <1>2 DEF Scan, TypeOK
  <2>2. TypeOK' /\ Linked' /\ NoLostSignal'
    BY <1>0, <2>1 DEF TypeOK, Linked, NoLostSignal, fields, list
  <2>3. ASSUME exiting = "no", NEW T \in SUBSET Writers, ToCome(T)
        PROVE  ToCome({})'
    <3>1. \A w \in T : \E p \in T : link[p] = w
      BY <1>2, <2>3 DEF ToCome
    <3>2. T = {}
      BY <1>0, <3>1 DEF Linked
    <3> QED  BY <2>1, <2>3, <3>2 DEF ToCome, list
  <2>4. MinimumKept'
    BY <1>0, <2>1, <2>3 DEF MinimumKept, list
  <2> QED  BY <1>1, <2>2, <2>4 DEF Inv
<1>3. CASE link[s] \in due
  <2> DEFINE h == link[s]
  <2>1. /\ TakeOff(s, h) /\ wr' = h /\ worker' = "flush"
        /\ UNCHANGED <<minDelay, s>>
    BY <1>0, <1>3 DEF Scan, TypeOK
  <2>2. h \in Writers /\ s \in Nodes /\ h \in Nodes
    BY <1>0, <1>3 DEF TypeOK, Nodes
  <2>3. Linked' /\ s # h
    BY <1>0, <2>1, <2>2, TakenOff
  <2>4. TypeOK'
    BY <1>0, <2>1, <2>2 DEF TypeOK, TakeOff, Nodes, fields
  <2>5. NoLostSignal'
    BY <2>1 DEF NoLostSignal
  <2>6. /\ \A q \in Nodes : link'[q] = IF q = h THEN NIL
                                      ELSE IF q = s THEN link[h] ELSE link[q]
        /\ \A v \in Writers : onQ'[v] = (onQ[v] /\ v # h)
    BY <1>0, <2>1, <2>2, <2>3 DEF TakeOff, TypeOK
  <2>7. ASSUME NEW T \in SUBSET Writers, ToCome(T),
               NEW R \in SUBSET Writers, R = T \ {h}
        PROVE  ToCome(R)'
    <3>1. ASSUME NEW w \in R
          PROVE  \E p \in R \cup {s} : link'[p] = w
      <4>1. PICK p \in T \cup {s} : link[p] = w
        BY <2>7 DEF ToCome
      <4>2. p # s /\ p \in Nodes
        BY <4>1, <2>2, <2>7 DEF Nodes
      <4>3. CASE p = h
        BY <4>1, <4>3, <2>2, <2>3, <2>6
      <4>4. CASE p # h
        BY <4>1, <4>2, <4>4, <2>6, <2>7
      <4> QED  BY <4>3, <4>4
    <3>2. \A w \in Writers : onQ'[w] /\ w \notin R => minDelay' <= Delay[w]
      BY <2>1, <2>6, <2>7 DEF ToCome
    <3> QED  BY <2>1, <3>1, <3>2 DEF ToCome
  <2>8. MinimumKept'
    <3>1. exiting' = "no" => \E T \in SUBSET Writers : ToCome(T)'
      <4>1. SUFFICES ASSUME exiting' = "no", NEW T \in SUBSET Writers, ToCome(T)
                     PROVE  \E R \in SUBSET Writers : ToCome(R)'
        BY <1>0 DEF MinimumKept
      <4>2. PICK R \in SUBSET Writers : R = T \ {h}
        OBVIOUS
      <4> QED  BY <4>1, <4>2, <2>7
    <3>2. exiting' = "no" /\ s' # Active => onQ'[s']
      BY <1>0, <2>1, <2>2, <2>3, <2>6 DEF MinimumKept, Nodes
    <3> QED  BY <2>1, <3>1, <3>2 DEF MinimumKept
  <2> QED  BY <1>1, <2>3, <2>4, <2>5, <2>8 DEF Inv
<1>4. CASE link[s] \in Writers \ due
  <2> DEFINE h == link[s]
  <2>1. /\ s' = h /\ UNCHANGED <<list, wr, worker>>
        /\ minDelay' = IF minDelay > Delay[h] THEN Delay[h] ELSE minDelay
    BY <1>0, <1>4 DEF Scan, TypeOK
  <2>2. h \in Writers /\ s \in Nodes /\ Delay[h] \in Nat /\ Delay[h] < Forever
    BY <1>0, <1>4 DEF TypeOK
  <2>3. TypeOK'
    BY <1>0, <2>1, <2>2 DEF TypeOK, Nodes, fields, list
  <2>4. Linked' /\ NoLostSignal'
    BY <1>0, <2>1 DEF Linked, NoLostSignal, list
  <2>5. minDelay' <= minDelay /\ minDelay' <= Delay[h]
    BY <1>0, <2>1, <2>2 DEF TypeOK
  <2>6. ASSUME NEW T \in SUBSET Writers, ToCome(T),
               NEW R \in SUBSET Writers, R = T \ {h}
        PROVE  ToCome(R)'
    <3>1. ASSUME NEW w \in R
          PROVE  \E p \in R \cup {h} : link[p] = w
      BY <2>6 DEF ToCome
    <3>2. ASSUME NEW w \in Writers, onQ[w], w \notin R
          PROVE  minDelay' <= Delay[w]
      <4>1. w = h \/ minDelay <= Delay[w]
        BY <2>6, <3>2 DEF ToCome
      <4>2. minDelay \in Nat /\ minDelay' \in Nat /\ Delay[w] \in Nat
        BY <1>0, <2>3 DEF TypeOK
      <4> QED  BY <4>1, <4>2, <2>5
    <3> QED  BY <2>1, <3>1, <3>2 DEF ToCome, list
  <2>7. MinimumKept'
    <3>1. exiting' = "no" => \E T \in SUBSET Writers : ToCome(T)'
      <4>1. SUFFICES ASSUME exiting' = "no", NEW T \in SUBSET Writers, ToCome(T)
                     PROVE  \E R \in SUBSET Writers : ToCome(R)'
        BY <1>0 DEF MinimumKept
      <4>2. PICK R \in SUBSET Writers : R = T \ {h}
        OBVIOUS
      <4> QED  BY <4>1, <4>2, <2>6
    <3>2. onQ'[s']
      BY <1>0, <2>1, <2>2 DEF Linked, list
    <3> QED  BY <1>0, <2>1, <3>1, <3>2 DEF MinimumKept
  <2> QED  BY <1>1, <2>3, <2>4, <2>7 DEF Inv
<1> QED  BY <1>0, <1>2, <1>3, <1>4 DEF Scan

LEMMA WorkerFlushInv == ASSUME Inv, WorkerFlush PROVE Inv'
<1>1. wr \in Writers /\ worker = "flush" /\ worker' = "scan"
      /\ UNCHANGED <<client, list, past, minDelay, s, due, pause, alerted,
                     exiting, xwr, fatal>> /\ wr' = NIL
  BY DEF Inv, TypeOK, WorkerFlush
<1>2. /\ lo' \in [Writers -> Nat] /\ hi' \in [Writers -> Nat]
      /\ UNCHANGED <<cur, closed>> /\ Buffers'
  <2>1. CASE closed[wr]
    BY <2>1 DEF Inv, TypeOK, WorkerFlush, Buffers, Free, fields
  <2>2. CASE ~closed[wr]
    BY <2>2, <1>1, FlushedBuffers DEF Inv, WorkerFlush
  <2> QED  BY <1>1, <2>1, <2>2
<1>3. TypeOK'
  BY <1>1, <1>2 DEF Inv, TypeOK, list
<1>4. Linked' /\ NoLostSignal'
  BY <1>1 DEF Inv, Linked, NoLostSignal, list
<1>5. MinimumKept'
  BY <1>1 DEF Inv, MinimumKept, ToCome, list
<1> QED  BY <1>2, <1>3, <1>4, <1>5 DEF Inv

LEMMA WorkerAlertedInv == ASSUME Inv, WorkerAlerted PROVE Inv'
<1>1. TypeOK'
  BY DEF Inv, WorkerAlerted, TypeOK, fields, list, local
<1>2. Linked' /\ Buffers' /\ NoLostSignal'
  BY DEF Inv, WorkerAlerted, Linked, Buffers, Free, NoLostSignal, fields, list
<1>3. MinimumKept'
  BY DEF Inv, WorkerAlerted, MinimumKept, ToCome, list, local
<1> QED  BY <1>1, <1>2, <1>3 DEF Inv

------------------------------------------------------------------------------
(* Shutdown, after which nothing is said of minDelay. *)
LEMMA ShutdownScanInv == ASSUME Inv, ShutdownScan PROVE Inv'
<1>0. /\ TypeOK /\ Linked /\ Buffers /\ NoLostSignal /\ exiting = "scan"
      /\ UNCHANGED <<fields, client, past, minDelay, worker, local, alerted,
                     fatal>>
  BY DEF Inv, ShutdownScan
<1>1. Buffers'
  BY <1>0 DEF Buffers, Free, fields
<1>2. CASE link[Active] = NIL
  <2>1. exiting' = "done" /\ UNCHANGED <<list, xwr>>
    BY <1>2 DEF ShutdownScan
  <2>2. TypeOK' /\ Linked' /\ NoLostSignal' /\ MinimumKept'
    BY <1>0, <2>1 DEF TypeOK, Linked, NoLostSignal, MinimumKept, fields, list,
       local
  <2> QED  BY <1>1, <2>2 DEF Inv
<1>3. CASE link[Active] # NIL
  <2>1. /\ TakeOff(Active, link[Active])
        /\ xwr' = link[Active] /\ exiting' = "flush"
    BY <1>3 DEF ShutdownScan
  <2>2. link[Active] \in Writers /\ Active \in Nodes /\ link[Active] \in Nodes
    BY <1>0, <1>3 DEF TypeOK, Nodes
  <2>3. Linked'
    BY <1>0, <1>3, <2>1, <2>2, TakenOff DEF Linked
  <2>4. TypeOK'
    BY <1>0, <2>1, <2>2 DEF TypeOK, TakeOff, Nodes, fields, local
  <2>5. NoLostSignal' /\ MinimumKept'
    BY <1>0, <1>3, <2>1 DEF NoLostSignal, MinimumKept
  <2> QED  BY <1>1, <2>3, <2>4, <2>5 DEF Inv
<1> QED  BY <1>2, <1>3

LEMMA ShutdownFlushInv == ASSUME Inv, ShutdownFlush PROVE Inv'
<1>1. /\ xwr \in Writers /\ exiting' = "scan" /\ xwr' = NIL
      /\ UNCHANGED <<client, list, past, minDelay, worker, local, alerted,
                     fatal>>
  BY DEF Inv, TypeOK, ShutdownFlush
<1>2. /\ lo' \in [Writers -> Nat] /\ hi' \in [Writers -> Nat]
      /\ UNCHANGED <<cur, closed>> /\ Buffers'
  <2>1. CASE closed[xwr]
    BY <2>1 DEF Inv, TypeOK, ShutdownFlush, Buffers, Free, fields
  <2>2. CASE ~closed[xwr]
    BY <2>2, <1>1, FlushedBuffers DEF Inv, ShutdownFlush
  <2> QED  BY <2>1, <2>2
<1>3. TypeOK'
  BY <1>1, <1>2 DEF Inv, TypeOK, list, local
<1>4. Linked' /\ NoLostSignal' /\ MinimumKept'
  BY <1>1 DEF Inv, Linked, NoLostSignal, MinimumKept, list
<1> QED  BY <1>2, <1>3, <1>4 DEF Inv

------------------------------------------------------------------------------
LEMMA NextInv == Inv /\ [Next]_vars => Inv'
<1> SUFFICES ASSUME Inv, [Next]_vars PROVE Inv'
  OBVIOUS
<1>1. ASSUME NEW w \in Writers,
             \/ PutChar(w) \/ PutCharSeek(w) \/ Finish(w)
             \/ ClientFlush(w) \/ Close(w) \/ AlarmPasses(w)
      PROVE  Inv'
  BY <1>1, PutCharInv, PutCharSeekInv, EnlistInv, SignalWorkerInv,
     ClientFlushInv, CloseInv, AlarmPassesInv DEF Finish
<1>2. ASSUME Worker \/ WorkerAlerted PROVE Inv'
  BY <1>2, TestInv, PauseEndsInv, StartInv, ClockInv, ScanInv, WorkerFlushInv,
     WorkerAlertedInv DEF Worker
<1>3. ASSUME Exit \/ Shutdown PROVE Inv'
  BY <1>3, ExitInv, ShutdownScanInv, ShutdownFlushInv DEF Shutdown
<1>4. CASE UNCHANGED vars
  BY <1>4 DEF vars, list, local, Inv, TypeOK, Linked, Buffers, Free,
     NoLostSignal, MinimumKept, ToCome
<1> QED  BY <1>1, <1>2, <1>3, <1>4 DEF Next

(* The list of active writers is exactly the writers that are on it, and   *)
(* the rest of Inv, in every state.                                        *)
THEOREM Invariance == Spec => []Inv
<1> QED  BY InitInv, NextInv, PTL DEF Spec

(* Worker is never asleep on c beside a list of writers, with no client    *)
(* about to wake it: Seek's test for an empty list loses no signal.        *)
THEOREM SignalKept == Spec => []NoLostSignal
<1>1. Inv => NoLostSignal
  BY DEF Inv
<1> QED  BY <1>1, Invariance, PTL

(* Until the program exits, Worker never pauses longer than the delay of a *)
(* writer on the list, unless an alert is on its way: Seek's alert and the *)
(* minimum that a scan keeps while writers join the list suffice for it.   *)
THEOREM ShortPauses == Spec => []PauseShort
<1>1. Inv => PauseShort
  <2> SUFFICES ASSUME Inv, worker = "pause", exiting = "no", ~alerted,
                      NEW w \in Writers, onQ[w]
               PROVE  pause <= Delay[w]
    BY DEF PauseShort
  <2>1. pause <= minDelay /\ minDelay <= Delay[w]
    BY DEF Inv, MinimumKept, ToCome
  <2>2. pause \in Nat /\ minDelay \in Nat /\ Delay[w] \in Nat
    BY DEF Inv, TypeOK
  <2> QED  BY <2>1, <2>2
<1> QED  BY <1>1, Invariance, PTL
==============================================================================
