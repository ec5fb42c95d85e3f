--------------------------- MODULE ThreadLifeProofs ---------------------------
(***************************************************************************)
(* That the table of slots, the list of active threads and the activations *)
(* of ThreadLife agree in every reachable state, for any number of threads *)
(* and any sizes of the table.  Inv is inductive; there is one lemma per   *)
(* action, and in each one step per conjunct of Inv.                       *)
(***************************************************************************)
EXTENDS ThreadLife, FiniteSetTheorems, TLAPS

USE DEF NoFault, At, Goto, Ensure, table, heap, joining, process,
        Forking, Joining, Running, Leaving

(* A thread between Create and FreeSlot finds itself in the table. *)
LEMMA HasSlot ==
  ASSUME TypeOK, SlotTable, NEW t \in Threads, pc[t] \in {"listed", "done"}
  PROVE  slot[t] \in 1..last /\ slot[t] \in DOMAIN slots /\ slots[slot[t]] = t
<1>1. slot[t] # 0 /\ slots[slot[t]] = t
  BY DEF SlotTable, Slotted
<1>2. slot[t] \in 0..last /\ last \in Nat /\ DOMAIN slots = 1..last
  BY DEF TypeOK
<1>. QED BY <1>1, <1>2

------------------------------------------------------------------------------
(* Forking: around AssignSlot, which is further down.                      *)

(* A new thread has nothing yet, so only this Fork is about it.            *)
LEMMA ForkInv ==
  ASSUME Inv, NEW p \in Threads, NEW t \in Threads, Fork(p, t)
  PROVE  Inv'
<1>0. /\ TypeOK /\ SlotTable /\ SlotCount /\ Unborn /\ Held /\ ActiveList
      /\ JoinedByOne /\ Disposed /\ NoDangling /\ OnlyKnownFaults
  BY DEF Inv
<1>1. TypeOK'
  BY <1>0, NilAssumption DEF Fork, TypeOK
<1>2. SlotTable'
  BY <1>0, NilAssumption DEF Fork, TypeOK, SlotTable,
     Slotted
<1>3. SlotCount'
  BY <1>0, NilAssumption DEF Fork, TypeOK, SlotCount,
     Taken, FreeSlots
<1>4. Unborn'
  BY <1>0, NilAssumption DEF Fork, TypeOK, Unborn, Held
<1>5. Held'
  BY <1>0, NilAssumption DEF Fork, TypeOK, Unborn, Held
<1>6. ActiveList'
  BY <1>0, NilAssumption DEF Fork, TypeOK, Unborn, Held,
     ActiveList
<1>7. JoinedByOne'
  BY <1>0, NilAssumption DEF Fork, TypeOK, Held, JoinedByOne
<1>8. Disposed'
  BY <1>0, NilAssumption DEF Fork, TypeOK, Disposed, Unborn
<1>9. NoDangling'
  BY <1>0, NilAssumption DEF Fork, TypeOK, NoDangling,
     Unborn, Held, ActiveList
<1>10. OnlyKnownFaults'
  BY <1>0, NilAssumption DEF Fork, TypeOK, OnlyKnownFaults,
     ActiveList
<1>. QED BY <1>1, <1>2, <1>3, <1>4, <1>5, <1>6, <1>7, <1>8, <1>9, <1>10 DEF Inv

(* The thread keeps no slot, and its activation goes: no one else has it.  *)
LEMMA ForkFailsInv ==
  ASSUME Inv, NEW p \in Threads, ForkFails(p)
  PROVE  Inv'
<1>0. /\ TypeOK /\ SlotTable /\ SlotCount /\ Unborn /\ Held /\ ActiveList
      /\ JoinedByOne /\ Disposed /\ NoDangling /\ OnlyKnownFaults
  BY DEF Inv
<1>1. arg[p] \in Threads
  BY <1>0, NilAssumption DEF ForkFails, TypeOK, Held
<1>2. TypeOK'
  BY <1>0, <1>1, NilAssumption DEF ForkFails, TypeOK
<1>3. SlotTable'
  BY <1>0, <1>1, NilAssumption DEF ForkFails, TypeOK,
     SlotTable, Slotted
<1>4. SlotCount'
  BY <1>0, <1>1, NilAssumption DEF ForkFails, TypeOK,
     SlotCount, Taken, FreeSlots
<1>5. Unborn'
  BY <1>0, <1>1, NilAssumption DEF ForkFails, TypeOK,
     Unborn, Held
<1>6. Held'
  BY <1>0, <1>1, NilAssumption DEF ForkFails, TypeOK,
     Unborn, Held
<1>7. ActiveList'
  BY <1>0, <1>1, NilAssumption DEF ForkFails, TypeOK,
     Unborn, Held, ActiveList
<1>8. JoinedByOne'
  BY <1>0, <1>1, NilAssumption DEF ForkFails, TypeOK, Held,
     JoinedByOne
<1>9. Disposed'
  BY <1>0, <1>1, NilAssumption DEF ForkFails, TypeOK,
     Disposed, Unborn
<1>10. NoDangling'
  BY <1>0, <1>1, NilAssumption DEF ForkFails, TypeOK,
     NoDangling, Unborn, Held, ActiveList
<1>11. OnlyKnownFaults'
  BY <1>0, <1>1, NilAssumption DEF ForkFails, TypeOK,
     OnlyKnownFaults, ActiveList
<1>. QED BY <1>2, <1>3, <1>4, <1>5, <1>6, <1>7, <1>8, <1>9, <1>10,
         <1>11 DEF Inv

(* The new thread has its slot before it starts.                           *)
LEMMA CreateInv ==
  ASSUME Inv, NEW p \in Threads, Create(p)
  PROVE  Inv'
<1>0. /\ TypeOK /\ SlotTable /\ SlotCount /\ Unborn /\ Held /\ ActiveList
      /\ JoinedByOne /\ Disposed /\ NoDangling /\ OnlyKnownFaults
  BY DEF Inv
<1>1. arg[p] \in Threads /\ arg[p] # p
  BY <1>0, NilAssumption DEF Create, TypeOK, Unborn, Held
<1>2. /\ pc[p] = "create" /\ pc[arg[p]] = "none" /\ fault = "none"
      /\ pc' = [pc EXCEPT ![p] = "run", ![arg[p]] = "created"]
      /\ arg' = [arg EXCEPT ![p] = NIL]
  BY <1>0 DEF Create, Unborn
<1>3. known' \subseteq known \cup {arg[p]}
  BY DEF Create, KeepOrDrop
<1>4. UNCHANGED <<n, table, allThreads, act, joining, cleaned, process, fault>>
  BY DEF Create
<1>5. \A q \in Threads :
          (pc[q] \in Joining)' => pc[q] \in Joining /\ arg'[q] = arg[q]
  BY <1>0, <1>1, <1>2 DEF TypeOK
<1>6. \A q \in Threads :
          pc[q] \in Joining => (pc[q] \in Joining)' /\ arg'[q] = arg[q]
  BY <1>0, <1>1, <1>2 DEF TypeOK
<1>7. \A q \in Threads : (pc[q] \in Forking)' => pc[q] \in Forking /\ arg'[q]
          = arg[q] /\ arg[q] # arg[p]
  BY <1>0, <1>1, <1>2 DEF TypeOK, Unborn
<1>8. /\ pc'[arg[p]] = "created"
      /\ \A q \in Threads : pc[q] # "none" => pc'[q] # "none"
  BY <1>0, <1>1, <1>2 DEF TypeOK
<1>9. act[arg[p]] = "live"
  BY <1>0, <1>2 DEF Held
<1>10. TypeOK'
  BY <1>0, <1>1, <1>2, <1>3, <1>4, NilAssumption DEF TypeOK
<1>11. SlotTable'
  BY <1>0, <1>1, <1>2, <1>3, <1>4, NilAssumption DEF TypeOK, SlotTable,
     Slotted, Unborn
<1>12. SlotCount'
  BY <1>0, <1>1, <1>2, <1>3, <1>4, NilAssumption DEF TypeOK, SlotCount, Taken,
     FreeSlots
<1>13. Unborn'
  <2>1. (\A u \in Threads : act[u] = "none" => pc[u] = "none" /\ slot[u] = 0)'
    BY <1>0, <1>1, <1>2, <1>3, <1>4, NilAssumption DEF TypeOK, Unborn, Held
  <2>2. (\A v \in Threads : pc[v] \in Forking => pc[arg[v]] = "none")'
    <3> SUFFICES ASSUME NEW q \in Threads, (pc[q] \in Forking)'
                 PROVE  (pc[arg[q]] = "none")'
      OBVIOUS
    <3>1. pc[q] \in Forking /\ arg'[q] = arg[q] /\ arg[q] # arg[p] /\ arg[q] #
              p
      BY <1>0, <1>2, <1>7 DEF Unborn
    <3>. QED BY <1>0, <1>1, <1>2, <3>1, NilAssumption DEF TypeOK, Held, Unborn
  <2>3. (\A v \in Threads : pc[v] \in {"assign", "allocate"} => slot[arg[v]] =
            0)'
    BY <1>0, <1>1, <1>2, <1>3, <1>4, NilAssumption DEF TypeOK, Unborn, Held
  <2>4. (\A v, w \in Threads : pc[v] \in Forking /\ pc[w] \in Forking /\
            arg[v] = arg[w] => v = w)'
    BY <1>0, <1>7 DEF Unborn
  <2>. QED BY <2>1, <2>2, <2>3, <2>4 DEF Unborn
<1>14. Held'
  <2>1. (\A v \in Threads : pc[v] \in Forking \cup Joining <=> arg[v] # NIL)'
    BY <1>0, <1>1, <1>2, <1>3, <1>4, NilAssumption DEF TypeOK, Unborn, Held
  <2>2. (\A v \in Threads : pc[v] \in Forking \cup Joining => act[arg[v]] =
            "live")'
    BY <1>0, <1>1, <1>2, <1>3, <1>4, NilAssumption DEF TypeOK, Unborn, Held
  <2>3. (\A v \in Threads : pc[v] \in Joining => pc[arg[v]] # "none")'
    <3> SUFFICES ASSUME NEW v \in Threads, (pc[v] \in Joining)'
                 PROVE  (pc[arg[v]] # "none")'
      OBVIOUS
    <3>1. pc[v] \in Joining /\ arg'[v] = arg[v]
      BY <1>5
    <3>2. arg[v] \in Threads /\ pc[arg[v]] # "none"
      BY <1>0, <3>1 DEF Held, TypeOK
    <3>. QED BY <1>8, <3>1, <3>2
  <2>4. (\A u \in known : pc[u] # "none" /\ act[u] = "live")'
    <3> SUFFICES ASSUME NEW u \in known' PROVE pc'[u] # "none" /\ act[u] =
        "live"
      BY <1>4
    <3>1. CASE u = arg[p]
      BY <1>8, <1>9, <3>1
    <3>2. CASE u \in known
      BY <1>0, <1>8, <3>2 DEF Held, TypeOK
    <3>. QED BY <1>3, <3>1, <3>2
  <2>. QED BY <2>1, <2>2, <2>3, <2>4 DEF Held
<1>15. ActiveList'
  BY <1>0, <1>1, <1>2, <1>3, <1>4, NilAssumption DEF TypeOK, Unborn, Held,
     ActiveList
<1>16. JoinedByOne'
  <2>1. (\A u \in reaped : ended[u])'
    BY <1>0, <1>1, <1>2, <1>3, <1>4, NilAssumption DEF TypeOK, Held,
       JoinedByOne
  <2>2. (\A v, w \in Threads : pc[v] \in Joining /\ pc[w] \in Joining /\
            arg[v] = arg[w] => v = w)'
    BY <1>0, <1>1, <1>2, <1>3, <1>4, NilAssumption DEF TypeOK, Held,
       JoinedByOne
  <2>3. (\A v \in Threads : pc[v] \in Joining => joined[arg[v]])'
    BY <1>0, <1>1, <1>2, <1>3, <1>4, NilAssumption DEF TypeOK, Held,
       JoinedByOne
  <2>4. (\A v \in Threads : pc[v] \in {"alertJoin", "raise"} => "AlertJoin"
            \in program.calls)'
    BY <1>0, <1>1, <1>2, <1>3, <1>4, NilAssumption DEF TypeOK, Held,
       JoinedByOne
  <2>5. (\A u \in Threads :
           joined[u] /\ ~forked /\ u \notin reaped
             => (\E v \in Threads : pc[v] \in Joining /\ arg[v] = u)
                  \/ (ended[u] /\ "AlertJoin" \in program.calls))'
    <3> SUFFICES ASSUME NEW u \in Threads, joined[u], ~forked, u \notin reaped
                 PROVE  \/ \E v \in Threads : (pc[v] \in Joining)' /\ arg'[v] = u
                        \/ (ended[u] /\ "AlertJoin" \in program.calls)
      BY <1>4
    <3>1. CASE \E w \in Threads : pc[w] \in Joining /\ arg[w] = u
      BY <3>1, <1>6
    <3>2. CASE ended[u] /\ "AlertJoin" \in program.calls
      BY <3>2
    <3>. QED BY <1>0, <3>1, <3>2 DEF JoinedByOne
  <2>. QED BY <2>1, <2>2, <2>3, <2>4, <2>5 DEF JoinedByOne
<1>17. Disposed'
  BY <1>0, <1>1, <1>2, <1>3, <1>4, NilAssumption DEF TypeOK, Disposed, Unborn
<1>18. NoDangling'
  <2> SUFFICES ASSUME NEW u \in Threads, act[u] = "disposed"
               PROVE  /\ u \notin known' /\ \A v \in Threads : arg'[v] # u
                      /\ slot[u] = 0 /\ u \notin allThreads
                      /\ pc'[u] \in {"none", "over", "gone"}
    BY <1>4 DEF NoDangling
  <2>1. /\ u \notin known /\ \A v \in Threads : arg[v] # u
        /\ slot[u] = 0 /\ u \notin allThreads
        /\ pc[u] \in {"none", "over", "gone"}
    BY <1>0, <1>2 DEF NoDangling
  <2>2. u # arg[p] /\ u # p
    BY <1>2, <1>9, <2>1
  <2>. QED BY <1>0, <1>1, <1>2, <1>3, <2>1, <2>2, NilAssumption DEF TypeOK
<1>19. OnlyKnownFaults'
  BY <1>0, <1>1, <1>2, <1>3, <1>4, NilAssumption DEF TypeOK, OnlyKnownFaults,
     ActiveList
<1>. QED BY <1>10, <1>11, <1>12, <1>13, <1>14, <1>15, <1>16, <1>17, <1>18,
         <1>19 DEF Inv

------------------------------------------------------------------------------
(* A thread's own steps.                                                   *)

(* A thread comes onto the list with its slot.                             *)
LEMMA EnlistInv ==
  ASSUME Inv, NEW t \in Threads, Enlist(t)
  PROVE  Inv'
<1>0. /\ TypeOK /\ SlotTable /\ SlotCount /\ Unborn /\ Held /\ ActiveList
      /\ JoinedByOne /\ Disposed /\ NoDangling /\ OnlyKnownFaults
  BY DEF Inv
<1>1. TypeOK'
  BY <1>0, NilAssumption DEF Enlist, TypeOK
<1>2. SlotTable'
  BY <1>0, NilAssumption DEF Enlist, TypeOK, SlotTable,
     Slotted
<1>3. SlotCount'
  BY <1>0, NilAssumption DEF Enlist, TypeOK, SlotCount,
     Taken, FreeSlots
<1>4. Unborn'
  BY <1>0, NilAssumption DEF Enlist, TypeOK, Unborn, Held
<1>5. Held'
  BY <1>0, NilAssumption DEF Enlist, TypeOK, Unborn, Held
<1>6. ActiveList'
  BY <1>0, NilAssumption DEF Enlist, TypeOK, Unborn, Held,
     ActiveList
<1>7. JoinedByOne'
  BY <1>0, NilAssumption DEF Enlist, TypeOK, Held,
     JoinedByOne
<1>8. Disposed'
  BY <1>0, NilAssumption DEF Enlist, TypeOK, Disposed,
     Unborn
<1>9. NoDangling'
  BY <1>0, NilAssumption DEF Enlist, TypeOK, NoDangling,
     Unborn, Held, ActiveList
<1>10. OnlyKnownFaults'
  BY <1>0, NilAssumption DEF Enlist, TypeOK,
     OnlyKnownFaults, ActiveList
<1>. QED BY <1>1, <1>2, <1>3, <1>4, <1>5, <1>6, <1>7, <1>8, <1>9, <1>10 DEF Inv

(* It finds itself in the table: the first fault that cannot be.           *)
LEMMA ApplyInv ==
  ASSUME Inv, NEW t \in Threads, Apply(t)
  PROVE  Inv'
<1>0. /\ TypeOK /\ SlotTable /\ SlotCount /\ Unborn /\ Held /\ ActiveList
      /\ JoinedByOne /\ Disposed /\ NoDangling /\ OnlyKnownFaults
  BY DEF Inv
<1>1. /\ pc[t] = "listed" /\ pc' = [pc EXCEPT ![t] = "run"]
       /\ fault = "none" /\ fault' = fault
  BY <1>0, HasSlot DEF Apply
<1>2. UNCHANGED <<arg, n, table, allThreads, heap, joining, process>>
  BY DEF Apply
<1>3. \A q \in Threads : (pc[q] \in Joining)' <=> pc[q] \in Joining
  BY <1>0, <1>1 DEF TypeOK
<1>4. TypeOK'
  BY <1>0, <1>1, <1>2, <1>3, NilAssumption DEF TypeOK, Apply
<1>5. SlotTable'
  BY <1>0, <1>1, <1>2, <1>3, NilAssumption DEF TypeOK, SlotTable, Slotted
<1>6. SlotCount'
  BY <1>0, <1>1, <1>2, <1>3, NilAssumption DEF TypeOK, SlotCount, Taken,
     FreeSlots
<1>7. Unborn'
  <2>1. (\A u \in Threads : act[u] = "none" => pc[u] = "none" /\ slot[u] = 0)'
    BY <1>0, <1>1, <1>2, <1>3, NilAssumption DEF TypeOK, Unborn
  <2>2. (\A v \in Threads : pc[v] \in Forking => pc[arg[v]] = "none")'
    BY <1>0, <1>1, <1>2, <1>3, NilAssumption DEF TypeOK, Unborn
  <2>3. (\A v \in Threads : pc[v] \in {"assign", "allocate"} => slot[arg[v]] =
            0)'
    BY <1>0, <1>1, <1>2, <1>3, NilAssumption DEF TypeOK, Unborn
  <2>4. (\A v, w \in Threads : pc[v] \in Forking /\ pc[w] \in Forking /\
            arg[v] = arg[w] => v = w)'
    BY <1>0, <1>1, <1>2, <1>3, NilAssumption DEF TypeOK, Unborn
  <2>. QED BY <2>1, <2>2, <2>3, <2>4 DEF Unborn
<1>8. Held'
  <2>1. (\A v \in Threads : pc[v] \in Forking \cup Joining <=> arg[v] # NIL)'
    BY <1>0, <1>1, <1>2, <1>3, NilAssumption DEF TypeOK, Unborn, Held
  <2>2. (\A v \in Threads : pc[v] \in Forking \cup Joining => act[arg[v]] =
            "live")'
    BY <1>0, <1>1, <1>2, <1>3, NilAssumption DEF TypeOK, Unborn, Held
  <2>3. (\A v \in Threads : pc[v] \in Joining => pc[arg[v]] # "none")'
    BY <1>0, <1>1, <1>2, <1>3, NilAssumption DEF TypeOK, Unborn, Held
  <2>4. (\A u \in known : pc[u] # "none" /\ act[u] = "live")'
    BY <1>0, <1>1, <1>2, <1>3, NilAssumption DEF TypeOK, Unborn, Held
  <2>. QED BY <2>1, <2>2, <2>3, <2>4 DEF Held
<1>9. ActiveList'
  BY <1>0, <1>1, <1>2, <1>3, NilAssumption DEF TypeOK, ActiveList
<1>10. JoinedByOne'
  <2>1. (\A u \in reaped : ended[u])'
    BY <1>0, <1>1, <1>2, <1>3, NilAssumption DEF TypeOK, JoinedByOne
  <2>2. (\A v, w \in Threads : pc[v] \in Joining /\ pc[w] \in Joining /\
            arg[v] = arg[w] => v = w)'
    BY <1>0, <1>1, <1>2, <1>3, NilAssumption DEF TypeOK, JoinedByOne
  <2>3. (\A v \in Threads : pc[v] \in Joining => joined[arg[v]])'
    BY <1>0, <1>1, <1>2, <1>3, NilAssumption DEF TypeOK, JoinedByOne
  <2>4. (\A v \in Threads : pc[v] \in {"alertJoin", "raise"} => "AlertJoin"
            \in program.calls)'
    BY <1>0, <1>1, <1>2, <1>3, NilAssumption DEF TypeOK, JoinedByOne
  <2>5. (\A u \in Threads :
           joined[u] /\ ~forked /\ u \notin reaped
             => (\E v \in Threads : pc[v] \in Joining /\ arg[v] = u)
                  \/ (ended[u] /\ "AlertJoin" \in program.calls))'
    <3> SUFFICES ASSUME NEW u \in Threads, joined[u], ~forked, u \notin reaped
                 PROVE  \/ \E v \in Threads : (pc[v] \in Joining)' /\ arg'[v] = u
                        \/ (ended[u] /\ "AlertJoin" \in program.calls)
      BY <1>2
    <3>1. CASE \E w \in Threads : pc[w] \in Joining /\ arg[w] = u
      BY <3>1, <1>2, <1>3
    <3>2. CASE ended[u] /\ "AlertJoin" \in program.calls
      BY <3>2
    <3>. QED BY <1>0, <3>1, <3>2 DEF JoinedByOne
  <2>. QED BY <2>1, <2>2, <2>3, <2>4, <2>5 DEF JoinedByOne
<1>11. Disposed'
  BY <1>0, <1>1, <1>2, <1>3, NilAssumption DEF TypeOK, Disposed, Unborn
<1>12. NoDangling'
  BY <1>0, <1>1, <1>2, <1>3, NilAssumption DEF TypeOK, NoDangling, Unborn,
     Held, ActiveList
<1>13. OnlyKnownFaults'
  BY <1>0, <1>1, <1>2, <1>3, NilAssumption DEF TypeOK, SlotTable, Slotted,
     OnlyKnownFaults
<1>. QED BY <1>4, <1>5, <1>6, <1>7, <1>8, <1>9, <1>10, <1>11, <1>12,
         <1>13 DEF Inv

(* The end is announced while slot and list still have the thread.         *)
LEMMA FinishInv ==
  ASSUME Inv, NEW t \in Threads, Finish(t)
  PROVE  Inv'
<1>0. /\ TypeOK /\ SlotTable /\ SlotCount /\ Unborn /\ Held /\ ActiveList
      /\ JoinedByOne /\ Disposed /\ NoDangling /\ OnlyKnownFaults
  BY DEF Inv
<1>1. TypeOK'
  BY <1>0, NilAssumption DEF Finish, TypeOK
<1>2. SlotTable'
  BY <1>0, NilAssumption DEF Finish, TypeOK, SlotTable,
     Slotted
<1>3. SlotCount'
  BY <1>0, NilAssumption DEF Finish, TypeOK, SlotCount,
     Taken, FreeSlots
<1>4. Unborn'
  BY <1>0, NilAssumption DEF Finish, TypeOK, Unborn, Held
<1>5. Held'
  BY <1>0, NilAssumption DEF Finish, TypeOK, Unborn, Held
<1>6. ActiveList'
  BY <1>0, NilAssumption DEF Finish, TypeOK, Unborn, Held,
     ActiveList
<1>7. JoinedByOne'
  BY <1>0, NilAssumption DEF Finish, TypeOK, Held,
     JoinedByOne
<1>8. Disposed'
  BY <1>0, NilAssumption DEF Finish, TypeOK, Disposed,
     Unborn
<1>9. NoDangling'
  BY <1>0, NilAssumption DEF Finish, TypeOK, NoDangling,
     Unborn, Held, ActiveList
<1>10. OnlyKnownFaults'
  BY <1>0, NilAssumption DEF Finish, TypeOK,
     OnlyKnownFaults, ActiveList
<1>. QED BY <1>1, <1>2, <1>3, <1>4, <1>5, <1>6, <1>7, <1>8, <1>9, <1>10 DEF Inv

(* The list loses a thread that has no slot any more.                      *)
LEMMA DelistInv ==
  ASSUME Inv, NEW t \in Threads, Delist(t)
  PROVE  Inv'
<1>0. /\ TypeOK /\ SlotTable /\ SlotCount /\ Unborn /\ Held /\ ActiveList
      /\ JoinedByOne /\ Disposed /\ NoDangling /\ OnlyKnownFaults
  BY DEF Inv
<1>1. TypeOK'
  BY <1>0, NilAssumption DEF Delist, TypeOK
<1>2. SlotTable'
  BY <1>0, NilAssumption DEF Delist, TypeOK, SlotTable,
     Slotted
<1>3. SlotCount'
  BY <1>0, NilAssumption DEF Delist, TypeOK, SlotCount,
     Taken, FreeSlots
<1>4. Unborn'
  BY <1>0, NilAssumption DEF Delist, TypeOK, Unborn, Held
<1>5. Held'
  BY <1>0, NilAssumption DEF Delist, TypeOK, Unborn, Held
<1>6. ActiveList'
  BY <1>0, NilAssumption DEF Delist, TypeOK, Unborn, Held,
     ActiveList
<1>7. JoinedByOne'
  BY <1>0, NilAssumption DEF Delist, TypeOK, Held,
     JoinedByOne
<1>8. Disposed'
  BY <1>0, NilAssumption DEF Delist, TypeOK, Disposed,
     Unborn
<1>9. NoDangling'
  BY <1>0, NilAssumption DEF Delist, TypeOK, NoDangling,
     Unborn, Held, ActiveList
<1>10. OnlyKnownFaults'
  BY <1>0, NilAssumption DEF Delist, TypeOK,
     OnlyKnownFaults, ActiveList
<1>. QED BY <1>1, <1>2, <1>3, <1>4, <1>5, <1>6, <1>7, <1>8, <1>9, <1>10 DEF Inv

(* From here on the activation may be disposed.                            *)
LEMMA ClearLinksInv ==
  ASSUME Inv, NEW t \in Threads, ClearLinks(t)
  PROVE  Inv'
<1>0. /\ TypeOK /\ SlotTable /\ SlotCount /\ Unborn /\ Held /\ ActiveList
      /\ JoinedByOne /\ Disposed /\ NoDangling /\ OnlyKnownFaults
  BY DEF Inv
<1>1. TypeOK'
  BY <1>0, NilAssumption DEF ClearLinks, TypeOK
<1>2. SlotTable'
  BY <1>0, NilAssumption DEF ClearLinks, TypeOK, SlotTable,
     Slotted
<1>3. SlotCount'
  BY <1>0, NilAssumption DEF ClearLinks, TypeOK, SlotCount,
     Taken, FreeSlots
<1>4. Unborn'
  BY <1>0, NilAssumption DEF ClearLinks, TypeOK, Unborn,
     Held
<1>5. Held'
  BY <1>0, NilAssumption DEF ClearLinks, TypeOK, Unborn,
     Held
<1>6. ActiveList'
  BY <1>0, NilAssumption DEF ClearLinks, TypeOK, Unborn,
     Held, ActiveList
<1>7. JoinedByOne'
  BY <1>0, NilAssumption DEF ClearLinks, TypeOK, Held,
     JoinedByOne
<1>8. Disposed'
  BY <1>0, NilAssumption DEF ClearLinks, TypeOK, Disposed,
     Unborn
<1>9. NoDangling'
  BY <1>0, NilAssumption DEF ClearLinks, TypeOK,
     NoDangling, Unborn, Held, ActiveList
<1>10. OnlyKnownFaults'
  BY <1>0, NilAssumption DEF ClearLinks, TypeOK,
     OnlyKnownFaults, ActiveList
<1>. QED BY <1>1, <1>2, <1>3, <1>4, <1>5, <1>6, <1>7, <1>8, <1>9, <1>10 DEF Inv

(* A Join that returns has t.joined, which no other call takes from it.    *)
LEMMA JoinReturnsInv ==
  ASSUME Inv, NEW p \in Threads, JoinReturns(p)
  PROVE  Inv'
<1>0. /\ TypeOK /\ SlotTable /\ SlotCount /\ Unborn /\ Held /\ ActiveList
      /\ JoinedByOne /\ Disposed /\ NoDangling /\ OnlyKnownFaults
  BY DEF Inv
<1>1. arg[p] \in Threads /\ ended[arg[p]]
  BY <1>0, NilAssumption DEF JoinReturns, TypeOK, Held
<1>2. /\ act[arg[p]] = "live" /\ pc[arg[p]] # "none"
      /\ \A q \in Threads : pc[q] # "none" => pc'[q] # "none"
  BY <1>0 DEF JoinReturns, TypeOK, Held
<1>3. known' \subseteq known \cup {arg[p]}
  BY DEF JoinReturns, KeepOrDrop
<1>4. TypeOK'
  BY <1>0, <1>1, <1>2, <1>3, NilAssumption DEF JoinReturns,
     KeepOrDrop, TypeOK
<1>5. SlotTable'
  BY <1>0, <1>1, <1>2, <1>3, NilAssumption DEF JoinReturns,
     KeepOrDrop, TypeOK, SlotTable, Slotted
<1>6. SlotCount'
  BY <1>0, <1>1, <1>2, <1>3, NilAssumption DEF JoinReturns,
     KeepOrDrop, TypeOK, SlotCount, Taken, FreeSlots
<1>7. Unborn'
  BY <1>0, <1>1, <1>2, <1>3, NilAssumption DEF JoinReturns,
     KeepOrDrop, TypeOK, Unborn, Held
<1>8. Held'
  <2>1. (\A v \in Threads : pc[v] \in Forking \cup Joining <=> arg[v] # NIL)'
    BY <1>0, <1>1, <1>2, <1>3, NilAssumption
       DEF JoinReturns, KeepOrDrop, TypeOK, Unborn, Held
  <2>2. (\A v \in Threads : pc[v] \in Forking \cup Joining => act[arg[v]] =
            "live")'
    BY <1>0, <1>1, <1>2, <1>3, NilAssumption
       DEF JoinReturns, KeepOrDrop, TypeOK, Unborn, Held
  <2>3. (\A v \in Threads : pc[v] \in Joining => pc[arg[v]] # "none")'
    BY <1>0, <1>1, <1>2, <1>3, NilAssumption
       DEF JoinReturns, KeepOrDrop, TypeOK, Unborn, Held
  <2>4. (\A u \in known : pc[u] # "none" /\ act[u] = "live")'
    BY <1>0, <1>2, <1>3 DEF Held, JoinReturns
  <2>. QED BY <2>1, <2>2, <2>3, <2>4 DEF Held
<1>9. ActiveList'
  BY <1>0, <1>1, <1>2, <1>3, NilAssumption DEF JoinReturns,
     KeepOrDrop, TypeOK, Unborn, Held, ActiveList
<1>10. JoinedByOne'
  BY <1>0, <1>1, <1>2, <1>3, NilAssumption DEF JoinReturns,
     KeepOrDrop, TypeOK, Held, JoinedByOne
<1>11. Disposed'
  BY <1>0, <1>1, <1>2, <1>3, NilAssumption DEF JoinReturns,
     KeepOrDrop, TypeOK, Disposed, Unborn
<1>12. NoDangling'
  BY <1>0, <1>1, <1>2, <1>3, NilAssumption DEF JoinReturns,
     KeepOrDrop, TypeOK, NoDangling, Unborn, Held, ActiveList
<1>13. OnlyKnownFaults'
  BY <1>0, <1>1, <1>2, <1>3, NilAssumption DEF JoinReturns,
     KeepOrDrop, TypeOK, OnlyKnownFaults, ActiveList
<1>. QED BY <1>4, <1>5, <1>6, <1>7, <1>8, <1>9, <1>10, <1>11, <1>12,
         <1>13 DEF Inv

(* An AlertJoin may decide to raise before or after the thread has ended.  *)
LEMMA AlertChosenInv ==
  ASSUME Inv, NEW p \in Threads, AlertChosen(p)
  PROVE  Inv'
<1>0. /\ TypeOK /\ SlotTable /\ SlotCount /\ Unborn /\ Held /\ ActiveList
      /\ JoinedByOne /\ Disposed /\ NoDangling /\ OnlyKnownFaults
  BY DEF Inv
<1>1. arg[p] \in Threads
  BY <1>0, NilAssumption DEF AlertChosen, TypeOK, Held
<1>2. TypeOK'
  BY <1>0, <1>1, NilAssumption DEF AlertChosen, TypeOK
<1>3. SlotTable'
  BY <1>0, <1>1, NilAssumption DEF AlertChosen, TypeOK,
     SlotTable, Slotted
<1>4. SlotCount'
  BY <1>0, <1>1, NilAssumption DEF AlertChosen, TypeOK,
     SlotCount, Taken, FreeSlots
<1>5. Unborn'
  BY <1>0, <1>1, NilAssumption DEF AlertChosen, TypeOK,
     Unborn, Held
<1>6. Held'
  BY <1>0, <1>1, NilAssumption DEF AlertChosen, TypeOK,
     Unborn, Held
<1>7. ActiveList'
  BY <1>0, <1>1, NilAssumption DEF AlertChosen, TypeOK,
     Unborn, Held, ActiveList
<1>8. JoinedByOne'
  BY <1>0, <1>1, NilAssumption DEF AlertChosen, TypeOK,
     Held, JoinedByOne
<1>9. Disposed'
  BY <1>0, <1>1, NilAssumption DEF AlertChosen, TypeOK,
     Disposed, Unborn
<1>10. NoDangling'
  BY <1>0, <1>1, NilAssumption DEF AlertChosen, TypeOK,
     NoDangling, Unborn, Held, ActiveList
<1>11. OnlyKnownFaults'
  BY <1>0, <1>1, NilAssumption DEF AlertChosen, TypeOK,
     OnlyKnownFaults, ActiveList
<1>. QED BY <1>2, <1>3, <1>4, <1>5, <1>6, <1>7, <1>8, <1>9, <1>10,
         <1>11 DEF Inv

(* t.joined stays TRUE only if the thread has ended and the program alerts.*)
LEMMA AlertRaisedInv ==
  ASSUME Inv, NEW p \in Threads, AlertRaised(p)
  PROVE  Inv'
<1>0. /\ TypeOK /\ SlotTable /\ SlotCount /\ Unborn /\ Held /\ ActiveList
      /\ JoinedByOne /\ Disposed /\ NoDangling /\ OnlyKnownFaults
  BY DEF Inv
<1>1. arg[p] \in Threads
  BY <1>0, NilAssumption DEF AlertRaised, TypeOK, Held
<1>2. /\ act[arg[p]] = "live" /\ pc[arg[p]] # "none"
      /\ \A q \in Threads : pc[q] # "none" => pc'[q] # "none"
  BY <1>0 DEF AlertRaised, TypeOK, Held
<1>3. known' \subseteq known \cup {arg[p]}
  BY DEF AlertRaised, KeepOrDrop
<1>4. TypeOK'
  BY <1>0, <1>1, <1>2, <1>3, NilAssumption DEF AlertRaised,
     KeepOrDrop, TypeOK
<1>5. SlotTable'
  BY <1>0, <1>1, <1>2, <1>3, NilAssumption DEF AlertRaised,
     KeepOrDrop, TypeOK, SlotTable, Slotted
<1>6. SlotCount'
  BY <1>0, <1>1, <1>2, <1>3, NilAssumption DEF AlertRaised,
     KeepOrDrop, TypeOK, SlotCount, Taken, FreeSlots
<1>7. Unborn'
  BY <1>0, <1>1, <1>2, <1>3, NilAssumption DEF AlertRaised,
     KeepOrDrop, TypeOK, Unborn, Held
<1>8. Held'
  <2>1. (\A v \in Threads : pc[v] \in Forking \cup Joining <=> arg[v] # NIL)'
    BY <1>0, <1>1, <1>2, <1>3, NilAssumption
       DEF AlertRaised, KeepOrDrop, TypeOK, Unborn, Held
  <2>2. (\A v \in Threads : pc[v] \in Forking \cup Joining => act[arg[v]] =
            "live")'
    BY <1>0, <1>1, <1>2, <1>3, NilAssumption
       DEF AlertRaised, KeepOrDrop, TypeOK, Unborn, Held
  <2>3. (\A v \in Threads : pc[v] \in Joining => pc[arg[v]] # "none")'
    BY <1>0, <1>1, <1>2, <1>3, NilAssumption
       DEF AlertRaised, KeepOrDrop, TypeOK, Unborn, Held
  <2>4. (\A u \in known : pc[u] # "none" /\ act[u] = "live")'
    BY <1>0, <1>2, <1>3 DEF Held, AlertRaised
  <2>. QED BY <2>1, <2>2, <2>3, <2>4 DEF Held
<1>9. ActiveList'
  BY <1>0, <1>1, <1>2, <1>3, NilAssumption DEF AlertRaised,
     KeepOrDrop, TypeOK, Unborn, Held, ActiveList
<1>10. JoinedByOne'
  BY <1>0, <1>1, <1>2, <1>3, NilAssumption DEF AlertRaised,
     KeepOrDrop, TypeOK, Held, JoinedByOne
<1>11. Disposed'
  BY <1>0, <1>1, <1>2, <1>3, NilAssumption DEF AlertRaised,
     KeepOrDrop, TypeOK, Disposed, Unborn
<1>12. NoDangling'
  BY <1>0, <1>1, <1>2, <1>3, NilAssumption DEF AlertRaised,
     KeepOrDrop, TypeOK, NoDangling, Unborn, Held, ActiveList
<1>13. OnlyKnownFaults'
  BY <1>0, <1>1, <1>2, <1>3, NilAssumption DEF AlertRaised,
     KeepOrDrop, TypeOK, OnlyKnownFaults, ActiveList
<1>. QED BY <1>4, <1>5, <1>6, <1>7, <1>8, <1>9, <1>10, <1>11, <1>12,
         <1>13 DEF Inv

(* A call to the system fails for a reason that OnlyKnownFaults names, and *)
(* the program ends there.                                                 *)
LEMMA DiesInv ==
  ASSUME Inv,
         \/ fault' = "dead handle" /\ \E q \in allThreads : pc[q] = "gone"
         \/ fault' = "not created" /\ "OutOfMemory" \in program.calls,
         UNCHANGED <<pc, arg, n, table, allThreads, heap, joining, process>>
  PROVE  Inv'
<1>0. /\ TypeOK /\ SlotTable /\ SlotCount /\ Unborn /\ Held /\ ActiveList
      /\ JoinedByOne /\ Disposed /\ NoDangling /\ OnlyKnownFaults
  BY DEF Inv
<1>1. /\ fault' \in {"dead handle", "not created"}
      /\ fault' = "dead handle" => forked
      /\ fault' = "not created" => "OutOfMemory" \in program.calls
  BY <1>0 DEF ActiveList, TypeOK
<1>3. TypeOK'
  BY <1>0, <1>1, NilAssumption DEF TypeOK
<1>4. SlotTable'
  BY <1>0, NilAssumption DEF TypeOK, SlotTable, Slotted
<1>5. SlotCount'
  BY <1>0, NilAssumption DEF TypeOK, SlotCount, Taken, FreeSlots
<1>6. Unborn'
  BY <1>0, NilAssumption DEF TypeOK, Unborn
<1>7. Held'
  BY <1>0, NilAssumption DEF TypeOK, Unborn, Held
<1>8. ActiveList'
  BY <1>0, NilAssumption DEF TypeOK, Unborn, Held, ActiveList
<1>9. JoinedByOne'
  BY <1>0 DEF JoinedByOne
<1>10. Disposed'
  BY <1>0, NilAssumption DEF TypeOK, Disposed, Unborn
<1>11. NoDangling'
  BY <1>0, <1>1, NilAssumption DEF TypeOK, NoDangling, Unborn, Held,
     ActiveList
<1>12. OnlyKnownFaults'
  BY <1>1 DEF OnlyKnownFaults
<1>. QED BY <1>3, <1>4, <1>5, <1>6, <1>7, <1>8, <1>9, <1>10, <1>11,
         <1>12 DEF Inv

(* A handle on the list is dead only in the child of a fork.               *)
LEMMA CollectInChildInv ==
  ASSUME Inv, CollectInChild
  PROVE  Inv'
BY DiesInv DEF CollectInChild, Ensure

LEMMA CreateFailsInv ==
  ASSUME Inv, NEW p \in Threads, CreateFails(p)
  PROVE  Inv'
BY DiesInv DEF CreateFails, Ensure

------------------------------------------------------------------------------
(* The table of slots.                                                     *)

(* The entries taken are finitely many. *)
LEMMA TakenFinite ==
  ASSUME NEW s, NEW size \in Nat, DOMAIN s = 1..size
  PROVE  /\ Taken(s) \subseteq 1..size
         /\ IsFiniteSet(Taken(s))
         /\ Cardinality(Taken(s)) \in Nat
<1>1. IsFiniteSet(1..size)
  BY FS_Interval
<1>2. Taken(s) \subseteq 1..size
  BY DEF Taken
<1>. QED BY <1>1, <1>2, FS_Subset, FS_CardinalityType

(* A table with fewer entries taken than it has has one free: the search   *)
(* of AssignSlot ends.                                                     *)
LEMMA SomeFree ==
  ASSUME NEW s, NEW size \in Nat, DOMAIN s = 1..size,
         Cardinality(Taken(s)) < size
  PROVE  FreeSlots(s) # {}
<1>. SUFFICES ASSUME FreeSlots(s) = {} PROVE FALSE
  OBVIOUS
<1>1. Taken(s) = 1..size
  BY DEF Taken
<1>2. Cardinality(1..size) = size
  BY FS_Interval
<1>. QED BY <1>1, <1>2

(* AssignSlot takes a slot in a table s, the old one or a larger copy.     *)
LEMMA TakeSlotInv ==
  ASSUME Inv, NEW p \in Threads, pc[p] \in {"assign", "allocate"},
         fault = "none",
         NEW size \in Nat, last <= size, n_slotted < size,
         NEW s \in [1..size -> Threads \cup {NIL}],
         \A i \in 1..last : s[i] = slots[i],
         \A i \in 1..size : i > last => s[i] = NIL,
         Taken(s) = Taken(slots),
         TakeSlot(p, s, size),
         UNCHANGED <<arg, allThreads, heap, joining, process>>
  PROVE  Inv'
<1>0. /\ TypeOK /\ SlotTable /\ SlotCount /\ Unborn /\ Held /\ ActiveList
      /\ JoinedByOne /\ Disposed /\ NoDangling /\ OnlyKnownFaults
  BY DEF Inv
<1>1. /\ arg[p] \in Threads /\ slot[arg[p]] = 0 /\ arg[p] # p
      /\ pc[arg[p]] = "none" /\ act[arg[p]] = "live"
  BY <1>0, NilAssumption DEF TypeOK, Unborn, Held
<1>2. n_slotted \in Nat /\ last \in Nat \ {0} /\ size \in Nat \ {0}
  BY <1>0 DEF TypeOK
<1>3. FreeSlots(s) # {}
  <2>1. Cardinality(Taken(s)) \in Nat /\ Cardinality(Taken(s)) <= n_slotted
    BY <1>0, TakenFinite DEF SlotCount
  <2>. QED BY <1>2, <2>1, SomeFree
<1>4. PICK i \in 1..size :
        /\ s[i] = NIL
        /\ slots' = [s EXCEPT ![i] = arg[p]]
        /\ next_slot' = i
        /\ n_slotted' = n_slotted + 1
        /\ slot' = [slot EXCEPT ![arg[p]] = i]
        /\ n' = [n EXCEPT ![p] = 0]
        /\ pc' = [pc EXCEPT ![p] = "create"]
  BY <1>3 DEF TakeSlot, FreeSlots
<1>5. last' = size /\ fault' = fault
  BY <1>3 DEF TakeSlot
<1>6. TypeOK'
  <2>1. slots' \in [1..last' -> Threads \cup {NIL}]
    BY <1>1, <1>4, <1>5
  <2>2. slot' \in [Threads -> 0..last']
    BY <1>0, <1>1, <1>2, <1>4, <1>5 DEF TypeOK
  <2>3. /\ last' \in Nat \ {0} /\ next_slot' \in 1..last' /\ n_slotted' \in Nat
        /\ n' \in [Threads -> Nat]
    BY <1>0, <1>2, <1>4, <1>5 DEF TypeOK
  <2>4. pc' \in [Threads -> {"none", "created", "listed", "over", "gone"}
                               \cup Running \cup Leaving]
    BY <1>0, <1>4 DEF TypeOK
  <2>. QED BY <1>0, <1>5, <2>1, <2>2, <2>3, <2>4 DEF TypeOK
<1>7. SlotTable'
  <2>1. \A t \in Threads : slot'[t] = IF t = arg[p] THEN i ELSE slot[t]
    BY <1>0, <1>1, <1>4 DEF TypeOK
  <2>2. \A j \in 1..size : slots'[j] = IF j = i THEN arg[p] ELSE s[j]
    BY <1>1, <1>4
  <2>3. ASSUME NEW t \in Threads, Slotted(t)' PROVE slot'[t] # 0
    <3>1. CASE t = arg[p]
      BY <1>2, <2>1, <3>1
    <3>2. CASE t # arg[p]
      <4>1. Slotted(t)
        BY <1>0, <1>4, <2>3, <3>2 DEF TypeOK, Slotted
      <4>. QED BY <1>0, <2>1, <3>2, <4>1 DEF SlotTable
    <3>. QED BY <3>1, <3>2
  <2>4. ASSUME NEW t \in Threads, slot'[t] # 0 PROVE slots'[slot'[t]] = t
    <3>1. CASE t = arg[p]
      BY <1>1, <2>1, <2>2, <3>1
    <3>2. CASE t # arg[p]
      <4>1. slot[t] \in 1..last /\ slots[slot[t]] = t /\ slot'[t] = slot[t]
        BY <1>0, <1>2, <2>1, <2>4, <3>2 DEF TypeOK, SlotTable
      <4>2. s[slot[t]] = t /\ slot[t] \in 1..size /\ slot[t] # i
        BY <1>2, <1>4, <4>1, NilAssumption
      <4>. QED BY <2>2, <4>1, <4>2
    <3>. QED BY <3>1, <3>2
  <2>5. ASSUME NEW j \in 1..size, slots'[j] # NIL PROVE slot'[slots'[j]] = j
    <3>1. CASE j = i
      BY <1>1, <2>1, <2>2, <3>1
    <3>2. CASE j # i
      <4>1. j \in 1..last /\ slots[j] = slots'[j] /\ slots[j] # NIL
        BY <1>2, <2>2, <2>5, <3>2
      <4>2. slots[j] \in Threads /\ slot[slots[j]] = j
        BY <1>0, <4>1 DEF TypeOK, SlotTable
      <4>3. slots[j] # arg[p]
        BY <1>1, <1>2, <4>1, <4>2
      <4>. QED BY <2>1, <4>1, <4>2, <4>3
    <3>. QED BY <3>1, <3>2
  <2>. QED BY <1>5, <2>3, <2>4, <2>5 DEF SlotTable
<1>8. SlotCount'
  <2>1. Taken(slots') = Taken(s) \cup {i} /\ i \notin Taken(s)
    BY <1>1, <1>4, NilAssumption DEF Taken, FreeSlots
  <2>2. IsFiniteSet(Taken(s)) /\ Cardinality(Taken(s)) \in Nat
    BY TakenFinite
  <2>3. Cardinality(Taken(slots')) = Cardinality(Taken(slots)) + 1
    <3>1. Cardinality(Taken(s) \cup {i}) = Cardinality(Taken(s)) + 1
      BY <2>1, <2>2, FS_AddElement
    <3>. QED BY <2>1, <3>1
  <2>4. Taken(slots)' = Taken(slots')
    BY DEF Taken, FreeSlots
  <2>. QED BY <1>0, <1>2, <1>4, <1>5, <2>2, <2>3, <2>4 DEF SlotCount
<1>9. Unborn'
  BY <1>0, <1>1, <1>4, NilAssumption DEF TypeOK, Unborn, Held
<1>10. Held'
  BY <1>0, <1>1, <1>4 DEF TypeOK, Held
<1>11. ActiveList'
  BY <1>0, <1>4 DEF TypeOK, ActiveList
<1>12. JoinedByOne'
  BY <1>0, <1>4 DEF TypeOK, JoinedByOne
<1>13. Disposed' /\ OnlyKnownFaults'
  BY <1>0, <1>5 DEF Disposed, OnlyKnownFaults
<1>14. NoDangling'
  BY <1>0, <1>1, <1>4, <1>5 DEF TypeOK, NoDangling
<1>. QED BY <1>6, <1>7, <1>8, <1>9, <1>10, <1>11, <1>12, <1>13, <1>14 DEF Inv

(* The caller of Fork moves on within AssignSlot, and leaves the table.    *)
LEMMA StillAssigning ==
  ASSUME Inv, NEW p \in Threads, fault = "none",
         pc[p] \in {"assign", "allocate"},
         NEW k \in Nat, n' = [n EXCEPT ![p] = k],
         NEW w \in {"assign", "allocate"}, pc' = [pc EXCEPT ![p] = w],
         UNCHANGED <<arg, table, allThreads, heap, joining, process, fault>>
  PROVE  Inv'
<1>0. /\ TypeOK /\ SlotTable /\ SlotCount /\ Unborn /\ Held /\ ActiveList
      /\ JoinedByOne /\ Disposed /\ NoDangling /\ OnlyKnownFaults
  BY DEF Inv
<1>1. TypeOK'
  BY <1>0 DEF TypeOK
<1>2. SlotTable' /\ SlotCount'
  BY <1>0 DEF TypeOK, SlotTable, Slotted, SlotCount, Taken, FreeSlots
<1>3. Unborn' /\ Held'
  BY <1>0, NilAssumption DEF TypeOK, Unborn, Held
<1>4. ActiveList' /\ Disposed' /\ OnlyKnownFaults'
  BY <1>0 DEF TypeOK, ActiveList, Disposed, OnlyKnownFaults
<1>5. JoinedByOne'
  BY <1>0 DEF TypeOK, JoinedByOne
<1>6. NoDangling'
  BY <1>0 DEF TypeOK, NoDangling
<1>. QED BY <1>1, <1>2, <1>3, <1>4, <1>5, <1>6 DEF Inv

LEMMA AssignSlotInv ==
  ASSUME Inv, NEW p \in Threads, AssignSlot(p)
  PROVE  Inv'
<1>1. TypeOK /\ n_slotted \in Nat /\ last \in Nat
  BY DEF Inv, TypeOK
<1>2. CASE n_slotted >= last
  BY <1>1, <1>2, StillAssigning DEF AssignSlot
<1>3. CASE ~(n_slotted >= last)
  <2>1. slots \in [1..last -> Threads \cup {NIL}]
    BY <1>1 DEF TypeOK
  <2>2. TakeSlot(p, slots, last)
    BY <1>3 DEF AssignSlot
  <2>. QED BY <1>1, <1>3, <2>1, <2>2, TakeSlotInv DEF AssignSlot
<1>. QED BY <1>2, <1>3

LEMMA GrowTableInv ==
  ASSUME Inv, NEW p \in Threads, GrowTable(p)
  PROVE  Inv'
<1>1. /\ TypeOK /\ n_slotted \in Nat /\ last \in Nat \ {0} /\ n_slotted <= last
      /\ slots \in [1..last -> Threads \cup {NIL}]
  BY DEF Inv, TypeOK, SlotCount
<1>2. CASE n[p] = last
  <2>1. PICK g \in Growths : TakeSlot(p, Larger(last + g), last + g)
    BY <1>2 DEF GrowTable
  <2> DEFINE size == last + g
  <2>2. size \in Nat /\ last <= size /\ n_slotted < size
    BY <1>1, SizesAssumption
  <2>3. Larger(size) \in [1..size -> Threads \cup {NIL}]
    BY <1>1, <2>2 DEF Larger
  <2>4. /\ \A i \in 1..last : Larger(size)[i] = slots[i]
        /\ \A i \in 1..size : i > last => Larger(size)[i] = NIL
    BY <1>1, <2>2 DEF Larger
  <2>5. Taken(Larger(size)) = Taken(slots)
    BY <1>1, <2>2, <2>3, <2>4 DEF Taken, FreeSlots
  <2>6. /\ pc[p] \in {"assign", "allocate"} /\ fault = "none"
        /\ UNCHANGED <<arg, allThreads, heap, joining, process>>
    BY DEF GrowTable
  <2> HIDE DEF size
  <2>7. TakeSlot(p, Larger(size), size)
    BY <2>1 DEF size
  <2>. QED BY <1>1, <2>2, <2>3, <2>4, <2>5, <2>6, <2>7, TakeSlotInv
<1>3. CASE n[p] # last /\ n_slotted < last
  BY <1>1, <1>3, TakeSlotInv DEF GrowTable
<1>4. CASE n[p] # last /\ ~(n_slotted < last)
  BY <1>1, <1>4, StillAssigning DEF GrowTable
<1>. QED BY <1>2, <1>3, <1>4

(* The entry that a thread gives back is its own, and taken: the count     *)
(* stays exact, and never falls below zero.                                *)
LEMMA FreeSlotInv ==
  ASSUME Inv, NEW t \in Threads, FreeSlot(t)
  PROVE  Inv'
<1>0. /\ TypeOK /\ SlotTable /\ SlotCount /\ Unborn /\ Held /\ ActiveList
      /\ JoinedByOne /\ Disposed /\ NoDangling /\ OnlyKnownFaults
  BY DEF Inv
<1>1. /\ slot[t] \in 1..last /\ slots[slot[t]] = t
      /\ pc[t] = "done" /\ fault = "none" /\ fault' = fault
  BY <1>0, HasSlot DEF FreeSlot
<1>2. /\ n_slotted' = n_slotted - 1
      /\ slots' = [slots EXCEPT ![slot[t]] = NIL]
      /\ slot' = [slot EXCEPT ![t] = 0]
      /\ pc' = [pc EXCEPT ![t] = "unslotted"]
      /\ UNCHANGED <<arg, n, last, next_slot, allThreads, heap, joining,
                     process>>
  BY DEF FreeSlot
<1>3. /\ Taken(slots)' = Taken(slots) \ {slot[t]} /\ slot[t] \in Taken(slots)
      /\ IsFiniteSet(Taken(slots)) /\ Cardinality(Taken(slots)) \in Nat
      /\ last \in Nat /\ n_slotted \in Nat
  <2>1. slots \in [1..last -> Threads \cup {NIL}] /\ last \in Nat
    BY <1>0 DEF TypeOK
  <2>2. /\ DOMAIN slots' = 1..last
        /\ \A j \in 1..last : slots'[j] = IF j = slot[t] THEN NIL ELSE slots[j]
    BY <1>2, <2>1
  <2>3. Taken(slots)' = Taken(slots) \ {slot[t]}
    BY <1>1, <2>1, <2>2 DEF Taken, FreeSlots
  <2>4. slot[t] \in Taken(slots)
    BY <1>1, <2>1, NilAssumption DEF Taken, FreeSlots
  <2>. QED BY <1>0, <2>1, <2>3, <2>4, TakenFinite DEF TypeOK
<1>4. SlotCount'
  <2>1. Cardinality(Taken(slots) \ {slot[t]}) = Cardinality(Taken(slots)) - 1
    BY <1>3, FS_RemoveElement
  <2>2. Cardinality(Taken(slots)') = Cardinality(Taken(slots)) - 1
    BY <1>3, <2>1
  <2>3. /\ Cardinality(Taken(slots)) <= n_slotted /\ n_slotted <= last
        /\ forked \/ Cardinality(Taken(slots)) = n_slotted
    BY <1>0 DEF SlotCount
  <2>4. n_slotted' = n_slotted - 1 /\ last' = last /\ forked' = forked
    BY <1>2
  <2>5. /\ Cardinality(Taken(slots)') <= n_slotted' /\ n_slotted' <= last'
        /\ forked' \/ Cardinality(Taken(slots)') = n_slotted'
    BY <1>3, <2>2, <2>3, <2>4
  <2>. QED BY <2>5 DEF SlotCount
<1>5. n_slotted' \in Nat
  <2>1. Cardinality(Taken(slots)) # 0
    BY <1>3, FS_EmptySet
  <2>. QED BY <1>0, <1>2, <1>3, <2>1 DEF SlotCount
<1>6. TypeOK'
  <2>1. slot' \in [Threads -> 0..last']
    <3>1. slot \in [Threads -> 0..last]
      BY <1>0 DEF TypeOK
    <3>2. 0 \in 0..last
      BY <1>3
    <3>. QED BY <1>2, <3>1, <3>2
  <2>2. slots' \in [1..last' -> Threads \cup {NIL}]
    BY <1>0, <1>2, <1>3 DEF TypeOK
  <2>3. pc' \in [Threads -> {"none", "created", "listed", "over", "gone"}
                              \cup Running \cup Leaving]
    BY <1>0, <1>2 DEF TypeOK
  <2>. QED BY <1>0, <1>1, <1>2, <1>5, <2>1, <2>2, <2>3 DEF TypeOK
<1>7. SlotTable'
  <2>1. \A u \in Threads : slot'[u] = IF u = t THEN 0 ELSE slot[u]
    BY <1>0, <1>2 DEF TypeOK
  <2>2. \A j \in 1..last : slots'[j] = IF j = slot[t] THEN NIL ELSE slots[j]
    BY <1>0, <1>2 DEF TypeOK
  <2>3. ASSUME NEW u \in Threads, Slotted(u)' PROVE slot'[u] # 0
    <3>1. CASE u = t
      <4>1. \A q \in Threads : pc[q] = "create" => arg[q] # t
        BY <1>0, <1>1 DEF Unborn
      <4>. QED BY <1>0, <1>2, <2>3, <3>1, <4>1 DEF TypeOK, Slotted
    <3>2. CASE u # t
      <4>1. Slotted(u)
        BY <1>0, <1>2, <2>3, <3>2 DEF TypeOK, Slotted
      <4>. QED BY <1>0, <2>1, <3>2, <4>1 DEF SlotTable
    <3>. QED BY <3>1, <3>2
  <2>4. ASSUME NEW u \in Threads, slot'[u] # 0 PROVE slots'[slot'[u]] = u
    <3>1. u # t /\ slot'[u] = slot[u] /\ slot[u] # 0
      BY <2>1, <2>4
    <3>2. slots[slot[u]] = u
      BY <1>0, <3>1 DEF SlotTable
    <3>3. slot[u] \in 0..last
      BY <1>0 DEF TypeOK
    <3>4. slot[u] \in 1..last /\ slot[u] # slot[t]
      BY <1>1, <1>3, <3>1, <3>2, <3>3
    <3>. QED BY <2>2, <3>1, <3>2, <3>4
  <2>5. ASSUME NEW j \in 1..last, slots'[j] # NIL PROVE slot'[slots'[j]] = j
    <3>1. j # slot[t] /\ slots'[j] = slots[j] /\ slots[j] \in Threads
      BY <1>0, <2>2, <2>5 DEF TypeOK
    <3>2. slot[slots[j]] = j /\ slots[j] # t
      BY <1>0, <1>1, <2>5, <3>1 DEF SlotTable
    <3>. QED BY <2>1, <3>1, <3>2
  <2>. QED BY <1>2, <2>3, <2>4, <2>5 DEF SlotTable
<1>8. Unborn'
  BY <1>0, <1>1, <1>2, NilAssumption DEF TypeOK, Unborn, Held
<1>9. Held'
  BY <1>0, <1>1, <1>2, NilAssumption DEF TypeOK, Held
<1>10. ActiveList' /\ JoinedByOne'
  BY <1>0, <1>1, <1>2 DEF TypeOK, ActiveList, JoinedByOne
<1>11. Disposed' /\ OnlyKnownFaults'
  BY <1>0, <1>1, <1>2 DEF Disposed, OnlyKnownFaults
<1>12. NoDangling'
  BY <1>0, <1>1, <1>2 DEF TypeOK, NoDangling
<1>. QED BY <1>4, <1>6, <1>7, <1>8, <1>9, <1>10, <1>11, <1>12 DEF Inv

------------------------------------------------------------------------------
(* Joining, collecting and forking the process.                            *)

(* A Join that finds t.joined is one too many: the program has alerted a   *)
(* Join of t, or is the child of a process in which one went on.           *)
LEMMA JoinInv ==
  ASSUME Inv, NEW p \in Threads, NEW t \in Threads,
         NEW how \in {"join", "alertJoin"},
         how = "alertJoin" => "AlertJoin" \in program.calls,
         Join(p, t, how)
  PROVE  Inv'
<1>0. /\ TypeOK /\ SlotTable /\ SlotCount /\ Unborn /\ Held /\ ActiveList
      /\ JoinedByOne /\ Disposed /\ NoDangling /\ OnlyKnownFaults
  BY DEF Inv
<1>1. /\ pc[p] = "run" /\ fault = "none" /\ t \in known /\ t \notin reaped
      /\ \A q \in Threads : pc[q] \in Joining => arg[q] # t
      /\ arg[p] = NIL
  BY <1>0 DEF Join, Held
<1>2. UNCHANGED <<n, table, allThreads, act, cleaned, process>>
  BY DEF Join
<1>3. CASE joined[t]
  <2>1. fault' = "join twice" /\ UNCHANGED <<pc, arg, known, joining>>
    BY <1>3 DEF Join
  <2>2. "AlertJoin" \in program.calls \/ forked
    BY <1>0, <1>1, <1>3 DEF JoinedByOne
  <2>3. TypeOK'
    BY <1>0, <1>2, <2>1 DEF TypeOK
  <2>4. SlotTable' /\ SlotCount'
    BY <1>0, <1>2, <2>1 DEF SlotTable, Slotted, SlotCount, Taken, FreeSlots
  <2>5. Unborn'
    BY <1>0, <1>2, <2>1 DEF Unborn
  <2>8. Held'
    BY <1>0, <1>2, <2>1 DEF Held
  <2>6. ActiveList' /\ Disposed' /\ NoDangling' /\ OnlyKnownFaults'
    BY <1>0, <1>2, <2>1, <2>2
       DEF ActiveList, Disposed, NoDangling, OnlyKnownFaults
  <2>7. JoinedByOne'
    BY <1>0, <1>2, <2>1 DEF JoinedByOne
  <2>. QED BY <2>3, <2>4, <2>5, <2>6, <2>7, <2>8 DEF Inv
<1>4. CASE ~joined[t] /\ ended[t]
  <2>1. /\ joined' = [joined EXCEPT ![t] = TRUE] /\ reaped' = reaped \cup {t}
        /\ known' \subseteq known \cup {t}
        /\ UNCHANGED <<pc, arg, ended, fault>>
    BY <1>4 DEF Join, KeepOrDrop
  <2>2. known' \subseteq known
    BY <1>1, <2>1
  <2>3. TypeOK'
    BY <1>0, <1>2, <2>1, <2>2 DEF TypeOK
  <2>4. SlotTable' /\ SlotCount'
    BY <1>0, <1>2, <2>1 DEF SlotTable, Slotted, SlotCount, Taken, FreeSlots
  <2>5. Unborn'
    BY <1>0, <1>2, <2>1 DEF Unborn
  <2>8. Held'
    BY <1>0, <1>2, <2>1, <2>2 DEF Held
  <2>6. ActiveList' /\ Disposed' /\ NoDangling' /\ OnlyKnownFaults'
    BY <1>0, <1>2, <2>1, <2>2
       DEF ActiveList, Disposed, NoDangling, OnlyKnownFaults
  <2>7. JoinedByOne'
    <3>1. \A u \in Threads : joined'[u] = (u = t \/ joined[u])
      BY <1>0, <2>1 DEF TypeOK
    <3>2. \A u \in Threads : u # t => (u \in reaped' <=> u \in reaped)
      BY <2>1
    <3>3. t \in reaped'
      BY <2>1
    <3>4. \A u \in reaped' : ended'[u]
      BY <1>0, <1>4, <2>1 DEF JoinedByOne
    <3>5. \A q \in Threads : pc'[q] \in Joining => joined'[arg'[q]]
      <4> SUFFICES ASSUME NEW q \in Threads, pc[q] \in Joining
                   PROVE  joined'[arg[q]]
        BY <2>1
      <4>1. arg[q] \in Threads \cup {NIL}
        BY <1>0 DEF TypeOK
      <4>2. arg[q] # NIL
        BY <1>0 DEF Held
      <4>3. joined[arg[q]]
        BY <1>0 DEF JoinedByOne
      <4>. QED BY <3>1, <4>1, <4>2, <4>3
    <3>6. \A u \in Threads :
            joined'[u] /\ ~forked' /\ u \notin reaped'
              => (\E q \in Threads : pc'[q] \in Joining /\ arg'[q] = u)
                   \/ (ended'[u] /\ "AlertJoin" \in program'.calls)
      BY <1>0, <1>2, <2>1, <3>1, <3>2, <3>3 DEF JoinedByOne
    <3>. QED BY <1>0, <1>2, <2>1, <3>4, <3>5, <3>6 DEF JoinedByOne
  <2>. QED BY <2>3, <2>4, <2>5, <2>6, <2>7, <2>8 DEF Inv
<1>5. CASE ~joined[t] /\ ~ended[t]
  <2>1. /\ joined' = [joined EXCEPT ![t] = TRUE]
        /\ pc' = [pc EXCEPT ![p] = how] /\ arg' = [arg EXCEPT ![p] = t]
        /\ UNCHANGED <<known, reaped, ended, fault>>
    BY <1>5 DEF Join
  <2>3. TypeOK'
    BY <1>0, <1>2, <2>1 DEF TypeOK
  <2>4. SlotTable' /\ SlotCount'
    BY <1>0, <1>1, <1>2, <2>1
       DEF TypeOK, SlotTable, Slotted, SlotCount, Taken, FreeSlots
  <2>5. Unborn'
    BY <1>0, <1>1, <1>2, <2>1, NilAssumption DEF TypeOK, Unborn, Held
  <2>6. Held'
    BY <1>0, <1>1, <1>2, <2>1, NilAssumption DEF TypeOK, Held
  <2>7. ActiveList' /\ Disposed' /\ OnlyKnownFaults'
    BY <1>0, <1>1, <1>2, <2>1
       DEF TypeOK, ActiveList, Disposed, OnlyKnownFaults
  <2>8. NoDangling'
    BY <1>0, <1>1, <1>2, <2>1 DEF TypeOK, NoDangling
  <2>9. JoinedByOne'
    BY <1>0, <1>1, <1>2, <2>1 DEF TypeOK, JoinedByOne
  <2>. QED BY <2>3, <2>4, <2>5, <2>6, <2>7, <2>8, <2>9 DEF Inv
<1>. QED BY <1>3, <1>4, <1>5

(* What a collection cleans up has no slot, so it does not run a closure.  *)
LEMMA CollectInv ==
  ASSUME Inv, NEW t \in Threads, Collect(t)
  PROVE  Inv'
<1>0. /\ TypeOK /\ SlotTable /\ SlotCount /\ Unborn /\ Held /\ ActiveList
      /\ JoinedByOne /\ Disposed /\ NoDangling /\ OnlyKnownFaults
  BY DEF Inv
<1>1. /\ t \notin known
      /\ \A i \in 1..last : slots[i] # t
      /\ \A q \in Threads : pc[q] \in Forking \cup Joining => arg[q] # t
      /\ fault = "none" /\ act[t] # "none" /\ t \notin cleaned
  BY DEF Collect, Reachable
<1>2. /\ act' = [act EXCEPT ![t] = "disposed"]
      /\ cleaned' = cleaned \cup {t}
      /\ fault' = IF act[t] = "disposed" THEN "disposed twice"
                  ELSE IF InUse(t) THEN "disposed in use" ELSE fault
      /\ UNCHANGED <<pc, arg, n, table, allThreads, joining, known, process>>
  BY DEF Collect, CleanThread
<1>3. slot[t] = 0 /\ ~Slotted(t)
  <2>1. slot[t] \in 0..last /\ last \in Nat
    BY <1>0 DEF TypeOK
  <2>2. slot[t] = 0
    BY <1>0, <1>1, <2>1 DEF SlotTable
  <2>. QED BY <1>0, <2>2 DEF SlotTable
<1>4. pc[t] \in {"none", "unslotted", "delisted", "over", "gone"}
  BY <1>0, <1>3 DEF TypeOK, Slotted
<1>5. \A q \in Threads : arg[q] # t
  BY <1>0, <1>1, NilAssumption DEF TypeOK, Held
<1>6. TypeOK'
  BY <1>0, <1>2 DEF TypeOK
<1>7. SlotTable' /\ SlotCount'
  BY <1>0, <1>2 DEF SlotTable, Slotted, SlotCount, Taken, FreeSlots
<1>8. Unborn' /\ Held'
  <2>1. \A u \in Threads : act'[u] = IF u = t THEN "disposed" ELSE act[u]
    BY <1>0, <1>2 DEF TypeOK
  <2>2. Unborn'
    <3>1. \A u \in Threads : act'[u] = "none" => act[u] = "none"
      BY <2>1
    <3>. QED BY <1>0, <1>2, <3>1 DEF Unborn
  <2>3. \A q \in Threads :
          pc[q] \in Forking \cup Joining => act'[arg[q]] = "live"
    <3> SUFFICES ASSUME NEW q \in Threads, pc[q] \in Forking \cup Joining
                 PROVE  act'[arg[q]] = "live"
      OBVIOUS
    <3>1. arg[q] \in Threads /\ act[arg[q]] = "live"
      BY <1>0 DEF TypeOK, Held
    <3>. QED BY <1>5, <2>1, <3>1
  <2>4. \A u \in known : pc[u] # "none" /\ act'[u] = "live"
    BY <1>0, <1>1, <2>1 DEF TypeOK, Held
  <2>5. /\ \A q \in Threads : pc[q] \in Forking \cup Joining <=> arg[q] # NIL
        /\ \A q \in Threads : pc[q] \in Joining => pc[arg[q]] # "none"
    BY <1>0 DEF Held
  <2>6. Held'
    BY <1>2, <2>3, <2>4, <2>5 DEF Held
  <2>. QED BY <2>2, <2>6
<1>9. ActiveList'
  BY <1>0, <1>2 DEF ActiveList
<1>10. JoinedByOne'
  BY <1>0, <1>2 DEF JoinedByOne
<1>11. Disposed'
  BY <1>0, <1>2 DEF TypeOK, Disposed
<1>12. NoDangling'
  <2> SUFFICES ASSUME fault' = "none", NEW u \in Threads, act'[u] = "disposed"
               PROVE  /\ u \notin known /\ \A q \in Threads : arg[q] # u
                      /\ slot[u] = 0 /\ u \notin allThreads
                      /\ pc[u] \in {"none", "over", "gone"}
    BY <1>2 DEF NoDangling
  <2>1. CASE u = t
    <3>1. ~InUse(t)
      BY <1>2
    <3>. QED BY <1>1, <1>3, <1>4, <1>5, <2>1, <3>1 DEF InUse
  <2>2. CASE u # t
    <3>1. act[u] = "disposed"
      BY <1>0, <1>2, <2>2 DEF TypeOK
    <3>. QED BY <1>0, <1>1, <3>1 DEF NoDangling
  <2>. QED BY <2>1, <2>2
<1>13. OnlyKnownFaults'
  <2>1. CASE act[t] = "disposed"
    BY <1>0, <1>1, <1>2, <2>1 DEF Disposed, OnlyKnownFaults
  <2>2. CASE act[t] # "disposed" /\ InUse(t)
    <3>1. fault' = "disposed in use"
      BY <1>2, <2>2
    <3>2. act'[t] = "disposed"
      BY <1>0, <1>2 DEF TypeOK
    <3>3. pc[t] \in {"unslotted", "delisted", "gone"}
      BY <1>0, <1>4, <2>2 DEF InUse, ActiveList
    <3>. QED BY <1>2, <3>1, <3>2, <3>3 DEF OnlyKnownFaults
  <2>3. CASE act[t] # "disposed" /\ ~InUse(t)
    BY <1>1, <1>2, <2>3 DEF OnlyKnownFaults
  <2>. QED BY <2>1, <2>2, <2>3
<1>. QED BY <1>6, <1>7, <1>8, <1>9, <1>10, <1>11, <1>12, <1>13 DEF Inv

(* The child of a fork: the table loses entries, the list loses none.      *)
LEMMA ForkProcessInv ==
  ASSUME Inv, NEW p \in Threads, ForkProcess(p)
  PROVE  Inv'
<1>0. /\ TypeOK /\ SlotTable /\ SlotCount /\ Unborn /\ Held /\ ActiveList
      /\ JoinedByOne /\ Disposed /\ NoDangling /\ OnlyKnownFaults
  BY DEF Inv
<1>1. pc[p] = "run" /\ fault = "none" /\ forked'
  BY DEF ForkProcess
<1>2. /\ pc' = [t \in Threads |-> IF t # p /\ Lives(t) THEN "gone" ELSE pc[t]]
      /\ arg' = [t \in Threads |-> NIL]
      /\ n' = [t \in Threads |-> 0]
      /\ UNCHANGED <<last, n_slotted, next_slot, allThreads, heap, joining,
                     program, fault>>
  BY DEF ForkProcess
<1>3. /\ slots' = [i \in 1..last |->
                     IF \E t \in allThreads \ {p} : slot[t] = i THEN NIL
                     ELSE slots[i]]
      /\ slot' = [t \in Threads |-> IF t \in allThreads \ {p} THEN 0
                                    ELSE slot[t]]
  BY DEF ForkProcess
<1>4. \A t \in Threads :
        (pc'[t] = "run" /\ t = p) \/ pc'[t] \in {"none", "over", "gone"}
  BY <1>0, <1>1, <1>2 DEF TypeOK, Lives
<1>5. TypeOK'
  <2>1. slots' \in [1..last -> Threads \cup {NIL}]
    BY <1>0, <1>3 DEF TypeOK
  <2>3. slot' \in [Threads -> 0..last]
    <3>1. slot \in [Threads -> 0..last] /\ last \in Nat
      BY <1>0 DEF TypeOK
    <3>2. 0 \in 0..last
      BY <3>1
    <3>. QED BY <1>3, <3>1, <3>2
  <2>2. pc' \in [Threads -> {"none", "created", "listed", "over", "gone"}
                              \cup Running \cup Leaving]
    BY <1>0, <1>2 DEF TypeOK
  <2>. QED BY <1>0, <1>1, <1>2, <2>1, <2>2, <2>3 DEF TypeOK
<1>6. SlotTable'
  <2>1. ASSUME NEW t \in Threads, Slotted(t)' PROVE slot'[t] # 0
    <3>1. t = p
      BY <1>4, <2>1 DEF Slotted
    <3>2. slot[p] # 0
      BY <1>0, <1>1 DEF SlotTable, Slotted
    <3>. QED BY <1>3, <3>1, <3>2
  <2>2. ASSUME NEW t \in Threads, slot'[t] # 0 PROVE slots'[slot'[t]] = t
    <3>1. t \notin allThreads \ {p} /\ slot'[t] = slot[t]
      BY <1>3, <2>2
    <3>2. slot[t] # 0 /\ slots[slot[t]] = t
      BY <1>0, <2>2, <3>1 DEF SlotTable
    <3>3. slot[t] \in 0..last /\ last \in Nat
      BY <1>0 DEF TypeOK
    <3>4. slot[t] \in 1..last
      BY <3>2, <3>3
    <3>5. \A u \in Threads : slot[u] = slot[t] => u = t
      BY <1>0, <3>2 DEF SlotTable
    <3>6. allThreads \subseteq Threads
      BY <1>0 DEF TypeOK
    <3>7. ~\E u \in allThreads \ {p} : slot[u] = slot[t]
      BY <3>1, <3>5, <3>6
    <3>8. slots'[slot[t]] = slots[slot[t]]
      BY <1>3, <3>4, <3>7
    <3>. QED BY <3>1, <3>2, <3>8
  <2>3. ASSUME NEW i \in 1..last, slots'[i] # NIL PROVE slot'[slots'[i]] = i
    <3>1. /\ \A t \in allThreads \ {p} : slot[t] # i
          /\ slots'[i] = slots[i] /\ slots[i] \in Threads
      BY <1>0, <1>3, <2>3 DEF TypeOK
    <3>2. slot[slots[i]] = i
      BY <1>0, <2>3, <3>1 DEF SlotTable
    <3>. QED BY <1>3, <3>1, <3>2
  <2>. QED BY <1>2, <2>1, <2>2, <2>3 DEF SlotTable
<1>7. SlotCount'
  <2>1. Taken(slots)' \subseteq Taken(slots)
    BY <1>0, <1>3 DEF TypeOK, Taken, FreeSlots
  <2>2. last \in Nat /\ DOMAIN slots = 1..last /\ n_slotted \in Nat
    BY <1>0 DEF TypeOK
  <2>3. IsFiniteSet(Taken(slots)) /\ Cardinality(Taken(slots)) \in Nat
    BY <2>2, TakenFinite
  <2>4. /\ Cardinality(Taken(slots)') <= Cardinality(Taken(slots))
        /\ Cardinality(Taken(slots)') \in Nat
    BY <2>1, <2>3, FS_Subset, FS_CardinalityType
  <2>. QED BY <1>0, <1>1, <1>2, <2>2, <2>3, <2>4 DEF SlotCount
<1>8. Unborn'
  <2>1. \A t \in Threads : act[t] = "none" => pc'[t] = "none" /\ slot'[t] = 0
    BY <1>0, <1>2, <1>3 DEF Unborn, Lives
  <2>2. \A t \in Threads : pc'[t] \notin Forking
    BY <1>4
  <2>. QED BY <1>2, <2>1, <2>2 DEF Unborn
<1>9. Held'
  <2>1. \A t \in Threads : pc'[t] \notin Forking \cup Joining /\ arg'[t] = NIL
    BY <1>2, <1>4
  <2>2. \A t \in known : pc'[t] # "none"
    BY <1>0, <1>2 DEF TypeOK, Held
  <2>. QED BY <1>0, <1>2, <2>1, <2>2 DEF Held
<1>10. ActiveList'
  BY <1>0, <1>1, <1>2, <1>4 DEF TypeOK, ActiveList, Lives
<1>11. JoinedByOne'
  BY <1>0, <1>1, <1>2, <1>4 DEF JoinedByOne
<1>12. Disposed' /\ OnlyKnownFaults'
  BY <1>0, <1>1, <1>2 DEF Disposed, OnlyKnownFaults
<1>13. NoDangling'
  BY <1>0, <1>1, <1>2, <1>3, NilAssumption DEF TypeOK, NoDangling
<1>. QED BY <1>5, <1>6, <1>7, <1>8, <1>9, <1>10, <1>11, <1>12, <1>13 DEF Inv

------------------------------------------------------------------------------
(* The initial states, all steps, and the theorems.                        *)

LEMMA InitInv == Init => Inv
<1>. SUFFICES ASSUME Init PROVE Inv
  OBVIOUS
<1>0. Main \in Threads /\ NIL \notin Threads /\ TableSize \in Nat \ {0}
  BY ThreadsAssumption, NilAssumption, SizesAssumption
<1>1. TypeOK
  <2>1. /\ last \in Nat \ {0} /\ next_slot \in 1..last
        /\ 0 \in 0..last /\ 1 \in 0..last
    BY <1>0 DEF Init
  <2>2. slots \in [1..last -> Threads \cup {NIL}]
    BY <1>0 DEF Init
  <2>3. slot \in [Threads -> 0..last]
    BY <2>1 DEF Init
  <2>4. /\ pc \in [Threads -> {"none", "run"}]
        /\ act \in [Threads -> {"none", "live"}]
        /\ arg \in [Threads -> {NIL}] /\ n \in [Threads -> Nat]
        /\ ended \in [Threads -> BOOLEAN] /\ joined \in [Threads -> BOOLEAN]
    BY DEF Init
  <2>5. /\ n_slotted \in Nat /\ allThreads \subseteq Threads
        /\ known \subseteq Threads /\ reaped \subseteq Threads
        /\ cleaned \subseteq Threads /\ program \in Programs
        /\ forked \in BOOLEAN /\ fault = "none"
    BY <1>0 DEF Init
  <2>. QED BY <2>1, <2>2, <2>3, <2>4, <2>5 DEF TypeOK
<1>2. SlotTable
  BY <1>0 DEF Init, SlotTable, Slotted
<1>3. SlotCount
  <2>1. Taken(slots) = {1}
    BY <1>0 DEF Init, Taken, FreeSlots
  <2>2. Cardinality(Taken(slots)) = 1
    BY <2>1, FS_Singleton
  <2>3. n_slotted = 1 /\ last \in Nat \ {0}
    BY <1>0 DEF Init
  <2>. QED BY <2>2, <2>3 DEF SlotCount
<1>4. Unborn /\ Held /\ ActiveList
  BY <1>0 DEF Init, Unborn, Held, ActiveList
<1>5. JoinedByOne /\ Disposed /\ NoDangling /\ OnlyKnownFaults
  BY <1>0 DEF Init, JoinedByOne, Disposed, NoDangling, OnlyKnownFaults
<1>. QED BY <1>1, <1>2, <1>3, <1>4, <1>5 DEF Inv

LEMMA NextInv == Inv /\ [Next]_vars => Inv'
<1>. SUFFICES ASSUME Inv, [Next]_vars PROVE Inv'
  OBVIOUS
<1>1. ASSUME NEW p \in Threads, Step(p) PROVE Inv'
  BY <1>1, AssignSlotInv, GrowTableInv, CreateInv, EnlistInv, ApplyInv,
     FreeSlotInv, DelistInv, ClearLinksInv, JoinReturnsInv, AlertRaisedInv
     DEF Step
<1>2. ASSUME NEW p \in Threads, NEW t \in Threads, Fork(p, t) PROVE Inv'
  BY <1>2, ForkInv
<1>3. ASSUME NEW p \in Threads, NEW t \in Threads, Join(p, t, "join")
      PROVE  Inv'
  BY <1>3, JoinInv
<1>4. ASSUME "AlertJoin" \in program.calls, NEW p \in Threads,
             NEW t \in Threads, Join(p, t, "alertJoin")
      PROVE  Inv'
  BY <1>4, JoinInv
<1>5. ASSUME NEW p \in Threads,
             \/ ForkFails(p) \/ CreateFails(p) \/ Finish(p)
             \/ AlertChosen(p) \/ ForkProcess(p)
      PROVE  Inv'
  BY <1>5, ForkFailsInv, CreateFailsInv, FinishInv, AlertChosenInv,
     ForkProcessInv
<1>6. ASSUME NEW t \in Threads, Collect(t) PROVE Inv'
  BY <1>6, CollectInv
<1>7. CASE CollectInChild
  BY <1>7, CollectInChildInv
<1>8. CASE UNCHANGED vars
  <2>1. /\ TypeOK /\ SlotTable /\ SlotCount /\ Unborn /\ Held /\ ActiveList
        /\ JoinedByOne /\ Disposed /\ NoDangling /\ OnlyKnownFaults
    BY DEF Inv
  <2>2. TypeOK'
    BY <1>8, <2>1 DEF vars, TypeOK
  <2>3. SlotTable' /\ SlotCount'
    BY <1>8, <2>1 DEF vars, SlotTable, Slotted, SlotCount, Taken, FreeSlots
  <2>4. Unborn'
    BY <1>8, <2>1 DEF vars, Unborn
  <2>5. Held'
    BY <1>8, <2>1 DEF vars, Held
  <2>6. ActiveList' /\ JoinedByOne'
    BY <1>8, <2>1 DEF vars, ActiveList, JoinedByOne
  <2>7. Disposed' /\ NoDangling' /\ OnlyKnownFaults'
    BY <1>8, <2>1 DEF vars, Disposed, NoDangling, OnlyKnownFaults
  <2>. QED BY <2>2, <2>3, <2>4, <2>5, <2>6, <2>7 DEF Inv
<1>. QED BY <1>1, <1>2, <1>3, <1>4, <1>5, <1>6, <1>7, <1>8 DEF Next

(* Whatever threads are forked, joined, collected or left behind, table,   *)
(* list and activations agree.                                             *)
THEOREM Invariance == Spec => []Inv
<1>. QED BY InitInv, NextInv, PTL DEF Spec

(* A disposed activation is not used by a program that goes on: no one     *)
(* holds its thread, waits for it or finds it in the table or on the list. *)
THEOREM NeverDangling == Spec => []NoDangling
<1>1. Inv => NoDangling
  BY DEF Inv
<1>. QED BY Invariance, <1>1, PTL

(* The table of slots never fails a thread, and what can end a program is  *)
(* an AlertJoin, a Fork out of memory, the end of a thread that nobody     *)
(* holds, or a fork of the process.                                        *)
THEOREM FaultsKnown == Spec => []OnlyKnownFaults
<1>1. Inv => OnlyKnownFaults
  BY DEF Inv
<1>. QED BY Invariance, <1>1, PTL

(* The search of AssignSlot ends: when it takes a slot, there is one.      *)
THEOREM SearchEnds ==
  Spec => [](\A p \in Threads :
               pc[p] = "assign" /\ n_slotted < last => FreeSlots(slots) # {})
<1>1. Inv => \A p \in Threads :
               pc[p] = "assign" /\ n_slotted < last => FreeSlots(slots) # {}
  <2> SUFFICES ASSUME Inv, n_slotted < last PROVE FreeSlots(slots) # {}
    OBVIOUS
  <2>1. last \in Nat /\ DOMAIN slots = 1..last /\ n_slotted \in Nat
    BY DEF Inv, TypeOK
  <2>2. /\ Cardinality(Taken(slots)) \in Nat
        /\ Cardinality(Taken(slots)) <= n_slotted
    BY <2>1, TakenFinite DEF Inv, SlotCount
  <2>. QED BY <2>1, <2>2, SomeFree
<1>. QED BY Invariance, <1>1, PTL
===============================================================================
