----------------------------- MODULE ClickLedger -----------------------------
(***************************************************************************)
(* What the click collector promises, with no word about buffers, timers   *)
(* or chains: a click taken is held once, and leaves either because its    *)
(* row was stored or because it was counted as dropped.  A write that was  *)
(* given up on may have been stored and counted all the same.              *)
(***************************************************************************)
EXTENDS Naturals, FiniteSets

CONSTANT Visits

VARIABLES
    taken,   \* clicks ever accepted
    held,    \* in the process's memory
    stored,  \* [Visits -> how many rows click_events has of each]
    dropped  \* how many were reported dropped

Take(v) ==
    /\ v \notin taken
    /\ taken' = taken \cup {v}
    /\ held'  = held \cup {v}
    /\ UNCHANGED <<stored, dropped>>

Written(B) == [v \in Visits |-> IF v \in B THEN stored[v] + 1 ELSE stored[v]]

Store(B) ==
    /\ held'   = held \ B
    /\ stored' = Written(B)
    /\ UNCHANGED <<taken, dropped>>

Drop(B) ==
    /\ held'    = held \ B
    /\ dropped' = dropped + Cardinality(B)
    /\ stored' \in {stored, Written(B)}
    /\ UNCHANGED taken

Init == taken = {} /\ held = {} /\ stored = [v \in Visits |-> 0] /\ dropped = 0

\* A click may be taken and its whole batch dropped in one step.
TakeAndDrop(v, B) ==
    /\ v \in B \ taken
    /\ taken'   = taken \cup {v}
    /\ held'    = held \ B
    /\ dropped' = dropped + Cardinality(B)
    /\ UNCHANGED stored

Next ==
    \/ \E v \in Visits : Take(v)
    \/ \E B \in SUBSET held : Store(B) \/ Drop(B)
    \/ \E v \in Visits, B \in SUBSET held : TakeAndDrop(v, B \cup {v})

Spec == Init /\ [][Next]_<<taken, held, stored, dropped>>
=============================================================================
