---------------------------- MODULE KeyedChannel ----------------------------
(***************************************************************************)
(* What lib/stellar/ingestion-pool.ts promises its callers, without        *)
(* partitions, wakers or counters: one queue per key, at most one item of  *)
(* a key in progress, items of a key taken in arrival order, each exactly  *)
(* once, none dropped, and every one of them served.                       *)
(*                                                                         *)
(* Items are numbered in the order in which they arrive, so that the       *)
(* oldest of those that wait is the least.                                 *)
(***************************************************************************)
EXTENDS Naturals

CONSTANTS Keys, Items

VARIABLES
    pending,   \* the items of each key that wait
    active,    \* the items of each key in progress (at most one)
    served     \* the items whose processing has ended

vars == <<pending, active, served>>

Init ==
    /\ pending = [k \in Keys |-> {}]
    /\ active = [k \in Keys |-> {}]
    /\ served = {}

Known == served \cup UNION {pending[k] \cup active[k] : k \in Keys}

Oldest(S) == CHOOSE i \in S : \A j \in S : i <= j

Accept(k, i) ==
    /\ \A j \in Known : j < i
    /\ pending' = [pending EXCEPT ![k] = @ \cup {i}]
    /\ UNCHANGED <<active, served>>

(* The item in progress for each key of F ends and the oldest item of each *)
(* key of S begins; one consumer may do both in one go.                    *)
Move(F, S) ==
    /\ F \cup S # {}
    /\ \A k \in F : active[k] # {}
    /\ \A k \in S : pending[k] # {} /\ (active[k] = {} \/ k \in F)
    /\ served' = served \cup UNION {active[k] : k \in F}
    /\ active' = [k \in Keys |-> IF k \in S THEN {Oldest(pending[k])}
                                 ELSE IF k \in F THEN {} ELSE active[k]]
    /\ pending' = [k \in Keys |-> IF k \in S THEN pending[k] \ {Oldest(pending[k])} ELSE pending[k]]

AtMostOne == {{}} \cup {{k} : k \in Keys}

\* A step of the channel that serves key k.
Serve(k) == \E F, S \in AtMostOne : k \in F \cup S /\ Move(F, S)

Next ==
    \/ \E k \in Keys, i \in Items : Accept(k, i)
    \/ \E k \in Keys : Serve(k)

Spec == Init /\ [][Next]_vars /\ \A k \in Keys : WF_vars(Serve(k))

=============================================================================
