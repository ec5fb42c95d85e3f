----------------------------- MODULE MCThreadSync -----------------------------
(* Instances of ThreadSync for TLC. *)
EXTENDS ThreadSync, TLC

CONSTANTS t1, t2, t3, m1, m2, c1

Ranks == (m1 :> 1) @@ (m2 :> 2)
OneRank == m1 :> 1

AllCalls == Operations

(* An AlertWait that is not alerted is a Wait; TestAlert waits for nothing. *)
BlockingCalls == Operations \ {"Wait", "TestAlert"}

Interchangeable == Permutations(Threads)
===============================================================================
