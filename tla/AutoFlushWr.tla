------------------------------ MODULE AutoFlushWr ------------------------------
(***************************************************************************)
(* AutoFlushWr.m3: writers that a background thread flushes.  A writer     *)
(* forwards to a child, here a FileWr, and shares its buffer; a list of    *)
(* active writers, guarded by mu, tells the worker which of them to flush. *)
(*                                                                         *)
(* Characters are counted, not told apart: lo[w] have reached the target,  *)
(* cur[w] have been written, and the buffer has room up to hi[w].  No one  *)
(* but wr uses its child, so Copy, the child's method and Copy again are   *)
(* one step.  One client stands for all those of a writer, which its lock  *)
(* puts in a row.  Time is what an alarm has passed by, or not yet.        *)
(***************************************************************************)
EXTENDS Naturals, FiniteSets

CONSTANTS Writers,
          Active,     \* the sentinel of the list
          NIL,
          Delay,      \* wr.delay, what Init was given
          Forever,    \* more than any delay
          Alertable,  \* writers whose child's flush may raise Alerted
          Room,       \* characters in a buffer
          MaxChars    \* bound: characters written to a writer

ASSUME NamesAssumption == /\ Active \notin Writers /\ NIL \notin Writers
                          /\ Active # NIL
ASSUME DelayAssumption == /\ Delay \in [Writers -> Nat] /\ Forever \in Nat
                          /\ \A w \in Writers : Delay[w] < Forever
ASSUME FiniteAssumption == IsFiniteSet(Writers) /\ Alertable \subseteq Writers
ASSUME BoundsAssumption == Room \in Nat \ {0} /\ MaxChars \in Nat

VARIABLES
  cur, lo, hi, closed,  \* the fields of each writer
  client,               \* "idle", or inside PutChar's Seek, with wr locked
  link, onQ,            \* the list
  past,                 \* writers whose alarm has passed
  minDelay,
  worker,               \* where the worker is, "none" before it is forked
  s, wr, due, pause,    \* Worker's s, wr, those with now > alarm, and delay
  alerted,              \* worker has a pending alert
  exiting, xwr,         \* where Shutdown is, and its wr
  fatal                 \* the worker has died of Thread.Alerted

fields == <<cur, lo, hi, closed>>
list == <<link, onQ>>
local == <<s, wr, due, pause>>
vars == <<cur, lo, hi, closed, client, link, onQ, past, minDelay, worker,
          s, wr, due, pause, alerted, exiting, xwr, fatal>>

Nodes == Writers \cup {Active}

TypeOK ==
  /\ cur \in [Writers -> Nat] /\ lo \in [Writers -> Nat]
  /\ hi \in [Writers -> Nat] /\ closed \in [Writers -> BOOLEAN]
  /\ client \in [Writers -> {"idle", "enlist", "signal"}]
  /\ link \in [Nodes -> Writers \cup {NIL}]
  /\ onQ \in [Writers -> BOOLEAN]
  /\ past \subseteq Writers
  /\ minDelay \in 0..Forever
  /\ worker \in {"none", "test", "wait", "pause", "start", "clock", "scan",
                 "flush"}
  /\ s \in Nodes /\ due \subseteq Writers
  /\ wr \in IF worker = "flush" THEN Writers ELSE {NIL}
  /\ pause \in 0..Forever
  /\ alerted \in BOOLEAN
  /\ exiting \in {"no", "scan", "flush", "done"}
  /\ xwr \in IF exiting = "flush" THEN Writers ELSE {NIL}
  /\ fatal \in BOOLEAN

(* Each writer after AutoFlushWr.Init over a FileWr that Init has just made. *)
Init ==
  /\ cur = [w \in Writers |-> 0] /\ lo = [w \in Writers |-> 0]
  /\ hi = [w \in Writers |-> Room] /\ closed = [w \in Writers |-> FALSE]
  /\ client = [w \in Writers |-> "idle"]
  /\ link = [w \in Nodes |-> NIL] /\ onQ = [w \in Writers |-> FALSE]
  /\ past = {}
  /\ minDelay = Forever
  /\ worker = "none"
  /\ s = Active /\ wr = NIL /\ due = {} /\ pause = 0
  /\ alerted = FALSE
  /\ exiting = "no" /\ xwr = NIL
  /\ fatal = FALSE

------------------------------------------------------------------------------
(* The child: FileWr.                                                      *)

(* EmptyBuffer: the target has what was written, the buffer is all room. *)
EmptyBuffer(w) ==
  /\ lo' = [lo EXCEPT ![w] = cur[w]]
  /\ hi' = [hi EXCEPT ![w] = cur[w] + Room]

(* AutoFlushWr.Flush of w, with w locked: the child's Flush empties a      *)
(* buffer that has characters in it.                                       *)
Flushed(w) ==
  /\ IF cur[w] > lo[w] THEN EmptyBuffer(w) ELSE UNCHANGED <<lo, hi>>
  /\ UNCHANGED <<cur, closed>>

------------------------------------------------------------------------------
(* The clients.                                                            *)

Free(w) == client[w] = "idle"  \* the lock of w is free

(* PutChar with room left: Seek is not called. *)
PutChar(w) ==
  /\ Free(w) /\ ~closed[w] /\ cur[w] < MaxChars
  /\ cur[w] # hi[w]
  /\ cur' = [cur EXCEPT ![w] = @ + 1]
  /\ UNCHANGED <<lo, hi, closed, client, list, past, minDelay, worker, local,
                 alerted, exiting, xwr, fatal>>

(* PutChar with none left: Seek(wr, cur), as far as the child goes. *)
PutCharSeek(w) ==
  /\ Free(w) /\ ~closed[w] /\ cur[w] < MaxChars
  /\ cur[w] = hi[w]
  /\ EmptyBuffer(w)
  /\ client' = [client EXCEPT ![w] = "enlist"]
  /\ UNCHANGED <<cur, closed, list, past, minDelay, worker, local, alerted,
                 exiting, xwr, fatal>>

(* Back from Seek, PutChar stores the character and unlocks wr. *)
Store(w) ==
  /\ cur' = [cur EXCEPT ![w] = @ + 1]
  /\ client' = [client EXCEPT ![w] = "idle"]

(* Mutant: a shorter delay does not alert the worker. *)
Enlist_NoAlert(w) ==
  /\ client[w] = "enlist"
  /\ IF onQ[w] THEN
       /\ Store(w)
       /\ UNCHANGED <<list, past, minDelay, worker, due>>
     ELSE
       /\ onQ' = [onQ EXCEPT ![w] = TRUE]
       /\ link' = [link EXCEPT ![w] = link[Active], ![Active] = w]
       /\ past' = past \ {w}
       /\ due' = due \ {w}
       /\ IF link[Active] = NIL THEN
            /\ minDelay' = Delay[w]
            /\ worker' = IF worker = "none" THEN "test" ELSE worker
            /\ client' = [client EXCEPT ![w] = "signal"]
            /\ UNCHANGED cur
          ELSE
            /\ Store(w)
            /\ minDelay' = IF minDelay > Delay[w] THEN Delay[w] ELSE minDelay
            /\ UNCHANGED worker
  /\ UNCHANGED <<lo, hi, closed, s, wr, pause, alerted, exiting, xwr, fatal>>

(* The stretch of Seek under mu. *)
Enlist(w) ==
  /\ client[w] = "enlist"
  /\ IF onQ[w] THEN
       /\ Store(w)
       /\ UNCHANGED <<list, past, minDelay, worker, due, alerted>>
     ELSE
       /\ onQ' = [onQ EXCEPT ![w] = TRUE]
       /\ link' = [link EXCEPT ![w] = link[Active], ![Active] = w]
       /\ past' = past \ {w}
       /\ due' = due \ {w}
       /\ IF link[Active] = NIL THEN
            /\ minDelay' = Delay[w]
            /\ worker' = IF worker = "none" THEN "test" ELSE worker
            /\ client' = [client EXCEPT ![w] = "signal"]
            /\ UNCHANGED <<cur, alerted>>
          ELSE
            /\ Store(w)
            /\ minDelay' = IF minDelay > Delay[w] THEN Delay[w] ELSE minDelay
            /\ alerted' = (alerted \/ minDelay > Delay[w])
            /\ UNCHANGED worker
  /\ UNCHANGED <<lo, hi, closed, s, wr, pause, exiting, xwr, fatal>>

(* Mutant: no signal. *)
SignalWorker_None(w) ==
  /\ client[w] = "signal"
  /\ Store(w)
  /\ UNCHANGED <<lo, hi, closed, list, past, minDelay, worker, local, alerted,
                 exiting, xwr, fatal>>

(* Thread.Signal(c), with mu unlocked. *)
SignalWorker(w) ==
  /\ client[w] = "signal"
  /\ worker' = IF worker = "wait" THEN "test" ELSE worker
  /\ Store(w)
  /\ UNCHANGED <<lo, hi, closed, list, past, minDelay, local, alerted,
                 exiting, xwr, fatal>>

(* Wr.Flush. *)
ClientFlush(w) ==
  /\ Free(w) /\ ~closed[w]
  /\ Flushed(w)
  /\ UNCHANGED <<client, list, past, minDelay, worker, local, alerted,
                 exiting, xwr, fatal>>

(* Wr.Close: flush, close, and both FastCloses leave cur = hi = lo.  The   *)
(* writer stays on the list if it is there.                                *)
Close(w) ==
  /\ Free(w) /\ ~closed[w]
  /\ closed' = [closed EXCEPT ![w] = TRUE]
  /\ LET end == IF cur[w] > lo[w] THEN cur[w] + Room ELSE hi[w]
     IN /\ cur' = [cur EXCEPT ![w] = end]
        /\ lo' = [lo EXCEPT ![w] = end]
        /\ hi' = [hi EXCEPT ![w] = end]
  /\ UNCHANGED <<client, list, past, minDelay, worker, local, alerted,
                 exiting, xwr, fatal>>

------------------------------------------------------------------------------
(* The worker.                                                             *)

(* WHILE active.link = NIL DO Wait(mu, c) END; delay := minDelay. *)
Test ==
  /\ worker = "test"
  /\ IF link[Active] = NIL THEN worker' = "wait" /\ UNCHANGED pause
     ELSE worker' = "pause" /\ pause' = minDelay
  /\ UNCHANGED <<fields, client, list, past, minDelay, s, wr, due, alerted,
                 exiting, xwr, fatal>>

(* AlertPause(delay) returns or raises Alerted, which is skipped.  A pause *)
(* of Forever returns only if the worker is alerted.                       *)
PauseEnds ==
  /\ worker = "pause"
  /\ alerted \/ pause # Forever
  /\ alerted' = FALSE
  /\ worker' = "start"
  /\ UNCHANGED <<fields, client, list, past, minDelay, local, exiting, xwr,
                 fatal>>

Start ==
  /\ worker = "start"
  /\ s' = Active
  /\ minDelay' = Forever
  /\ worker' = "clock"
  /\ UNCHANGED <<fields, client, list, past, wr, due, pause, alerted,
                 exiting, xwr, fatal>>

(* now := Time.Now(). *)
Clock ==
  /\ worker = "clock"
  /\ due' = past
  /\ worker' = "scan"
  /\ UNCHANGED <<fields, client, list, past, minDelay, s, wr, pause, alerted,
                 exiting, xwr, fatal>>

(* Mutant: onQ is not reset. *)
TakeOff_StaysOnQ(p, w) ==
  /\ link' = [link EXCEPT ![p] = link[w], ![w] = NIL]
  /\ UNCHANGED onQ

(* w comes after p on the list, and is taken off it. *)
TakeOff(p, w) ==
  /\ link' = [link EXCEPT ![p] = link[w], ![w] = NIL]
  /\ onQ' = [onQ EXCEPT ![w] = FALSE]

(* Mutant: minDelay is left at Forever. *)
Scan_NoMinimum ==
  /\ worker = "scan"
  /\ \/ /\ link[s] = NIL
        /\ worker' = "test"
        /\ UNCHANGED <<list, s, wr>>
     \/ /\ link[s] \in due
        /\ TakeOff(s, link[s])
        /\ wr' = link[s]
        /\ worker' = "flush"
        /\ UNCHANGED s
     \/ /\ link[s] \in Writers \ due
        /\ s' = link[s]
        /\ UNCHANGED <<list, wr, worker>>
  /\ UNCHANGED <<fields, client, past, minDelay, due, pause, alerted, exiting,
                 xwr, fatal>>

Scan ==
  /\ worker = "scan"
  /\ \/ /\ link[s] = NIL
        /\ worker' = "test"
        /\ UNCHANGED <<list, minDelay, s, wr>>
     \/ /\ link[s] \in due
        /\ TakeOff(s, link[s])
        /\ wr' = link[s]
        /\ worker' = "flush"
        /\ UNCHANGED <<minDelay, s>>
     \/ /\ link[s] \in Writers \ due
        /\ s' = link[s]
        /\ minDelay' = IF minDelay > Delay[link[s]] THEN Delay[link[s]]
                       ELSE minDelay
        /\ UNCHANGED <<list, wr, worker>>
  /\ UNCHANGED <<fields, client, past, due, pause, alerted, exiting, xwr,
                 fatal>>

WorkerFlush ==
  /\ worker = "flush" /\ Free(wr)
  /\ IF closed[wr] THEN UNCHANGED fields ELSE Flushed(wr)
  /\ worker' = "scan"
  /\ wr' = NIL
  /\ UNCHANGED <<client, list, past, minDelay, s, due, pause, alerted,
                 exiting, xwr, fatal>>

(* The child raises Alerted out of its flush, which is FATAL in Worker. *)
WorkerAlerted ==
  /\ worker = "flush" /\ Free(wr) /\ ~closed[wr]
  /\ alerted /\ wr \in Alertable
  /\ alerted' = FALSE
  /\ fatal' = TRUE
  /\ UNCHANGED <<fields, client, list, past, minDelay, worker, local,
                 exiting, xwr>>

------------------------------------------------------------------------------
(* Shutdown, which Process.Exit calls.                                     *)

Exit ==
  /\ exiting = "no"
  /\ exiting' = "scan"
  /\ UNCHANGED <<fields, client, list, past, minDelay, worker, local, alerted,
                 xwr, fatal>>

ShutdownScan ==
  /\ exiting = "scan"
  /\ IF link[Active] = NIL THEN
       /\ exiting' = "done"
       /\ UNCHANGED <<list, xwr>>
     ELSE
       /\ TakeOff(Active, link[Active])
       /\ xwr' = link[Active]
       /\ exiting' = "flush"
  /\ UNCHANGED <<fields, client, past, minDelay, worker, local, alerted,
                 fatal>>

ShutdownFlush ==
  /\ exiting = "flush" /\ Free(xwr)
  /\ IF closed[xwr] THEN UNCHANGED fields ELSE Flushed(xwr)
  /\ exiting' = "scan"
  /\ xwr' = NIL
  /\ UNCHANGED <<client, list, past, minDelay, worker, local, alerted,
                 fatal>>

------------------------------------------------------------------------------
(* The alarm of a writer on the list passes: Time.Now() > wr.alarm. *)
AlarmPasses(w) ==
  /\ onQ[w] /\ w \notin past
  /\ past' = past \cup {w}
  /\ UNCHANGED <<fields, client, list, minDelay, worker, local, alerted,
                 exiting, xwr, fatal>>

Finish(w) == Enlist(w) \/ SignalWorker(w)
Worker == Test \/ PauseEnds \/ Start \/ Clock \/ Scan \/ WorkerFlush
Shutdown == ShutdownScan \/ ShutdownFlush

Next ==
  /\ ~fatal
  /\ \/ \E w \in Writers : \/ PutChar(w) \/ PutCharSeek(w) \/ Finish(w)
                           \/ ClientFlush(w) \/ Close(w) \/ AlarmPasses(w)
     \/ Worker \/ WorkerAlerted
     \/ Exit \/ Shutdown

Spec == Init /\ [][Next]_vars

(* A thread inside a call goes on, time passes, and the worker runs.       *)
FairSpec ==
  /\ Spec
  /\ \A w \in Writers : WF_vars(~fatal /\ Finish(w))
  /\ \A w \in Writers : WF_vars(~fatal /\ AlarmPasses(w))
  /\ WF_vars(~fatal /\ Worker)
  /\ WF_vars(~fatal /\ Shutdown)

------------------------------------------------------------------------------
(* Properties.                                                             *)

(* onQ tells which writers are on the list: it is what link leads to, each *)
(* from one place only, and there is no circle.  It is empty until there   *)
(* is a worker to alert.                                                   *)
Linked ==
  /\ \A p \in Nodes : link[p] # NIL => onQ[link[p]]
  /\ \A p, q \in Nodes : link[p] = link[q] /\ link[p] # NIL => p = q
  /\ \A w \in Writers : IF onQ[w] THEN \E p \in Nodes : link[p] = w
                        ELSE link[w] = NIL
  /\ \A S \in SUBSET Writers :
       (\A w \in S : \E p \in S : link[p] = w) => S = {}
  /\ worker = "none" => link[Active] = NIL

(* The buffers are sound, and empty when Seek has made room. *)
Buffers == \A w \in Writers :
  /\ lo[w] <= cur[w] /\ cur[w] <= hi[w]
  /\ ~Free(w) => lo[w] = cur[w] /\ cur[w] < hi[w]

(* The writers that Worker's scan has yet to come to are among T: minDelay *)
(* is the least delay of the others on the list.                           *)
ToCome(T) ==
  /\ \A w \in Writers : onQ[w] /\ w \notin T => minDelay <= Delay[w]
  /\ \A w \in T : \E p \in T \cup {s} : link[p] = w

(* minDelay is no more than the delay of any writer on the list when the   *)
(* worker uses it, whatever has joined the list during its scan.           *)
MinimumKept ==
  exiting = "no" =>
    /\ s # Active => onQ[s]
    /\ worker \in {"none", "test", "wait", "pause"} => ToCome({})
    /\ worker \in {"clock", "scan", "flush"} =>
         \E T \in SUBSET Writers : ToCome(T)
    /\ worker = "pause" => link[Active] # NIL /\ (alerted \/ pause <= minDelay)

(* Unless the program exits, the worker never pauses longer than the delay *)
(* of any writer on the list, whenever it was put there: a shorter one has *)
(* alerted it.  In particular it does not pause Forever.                   *)
PauseShort ==
  worker = "pause" /\ exiting = "no" =>
    alerted \/ \A w \in Writers : onQ[w] => pause <= Delay[w]

(* If the worker sleeps while there are writers on the list, the client    *)
(* that has made the list nonempty has yet to signal c.                    *)
NoLostSignal ==
  worker = "wait" /\ link[Active] # NIL =>
    \E w \in Writers : client[w] = "signal"

(* The inductive invariant: the list is sound while clients, Worker and    *)
(* Shutdown change it under mu, and what each knows of it agrees with it.  *)
Inv ==
  /\ TypeOK
  /\ Linked
  /\ Buffers
  /\ NoLostSignal
  /\ MinimumKept

(* What is in the buffer of a writer on the list reaches the target.       *)
ListedFlushed ==
  \A w \in Writers : \A k \in 1..MaxChars :
    onQ[w] /\ cur[w] >= k ~> lo[w] >= k \/ fatal

(* AutoFlushWr.i3 promises this of everything that has been written: "wr   *)
(* will be flushed automatically by a background thread".                  *)
AllFlushed ==
  \A w \in Writers : \A k \in 1..MaxChars :
    cur[w] >= k ~> lo[w] >= k \/ fatal
===============================================================================
