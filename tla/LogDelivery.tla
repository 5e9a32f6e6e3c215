----------------------------- MODULE LogDelivery -----------------------------
(* What the logging client promises its callers (logging_client.h): every  *)
(* entry that log() accepts is held until it is handed on, and leaves by   *)
(* exactly one way: delivered (to the logging service or, as a fallback,   *)
(* to the console), dropped on buffer overflow and counted in              *)
(* dropped_count(), or lost on a failed send when there is no fallback.    *)
(* Entries are numbered in the order log() accepts them.                   *)
EXTENDS Naturals, FiniteSets

CONSTANTS MaxEntries, FallbackEnabled

VARIABLES logged, pending, delivered, dropped, lost, droppedCount

vars == <<logged, pending, delivered, dropped, lost, droppedCount>>

Init ==
    /\ logged = 0
    /\ pending = {} /\ delivered = {} /\ dropped = {} /\ lost = {}
    /\ droppedCount = 0

\* log() accepts the next entry; it may evict one held entry, which counts.
Log ==
    /\ logged < MaxEntries
    /\ logged' = logged + 1
    /\ \/ /\ pending' = pending \cup {logged + 1}
          /\ UNCHANGED <<dropped, droppedCount>>
       \/ \E d \in pending :
             /\ pending' = (pending \ {d}) \cup {logged + 1}
             /\ dropped' = dropped \cup {d}
             /\ droppedCount' = droppedCount + 1
    /\ UNCHANGED <<delivered, lost>>

\* Some held entries are handed on together.
Deliver ==
    \E S \in (SUBSET pending) \ {{}} :
        /\ pending' = pending \ S
        /\ delivered' = delivered \cup S
        /\ UNCHANGED <<logged, dropped, lost, droppedCount>>

\* Without the console fallback, a failed send loses what it carried.
Lose ==
    /\ ~FallbackEnabled
    /\ \E S \in (SUBSET pending) \ {{}} :
        /\ pending' = pending \ S
        /\ lost' = lost \cup S
        /\ UNCHANGED <<logged, delivered, dropped, droppedCount>>

Next == Log \/ Deliver \/ Lose

Spec == Init /\ [][Next]_vars
=============================================================================
