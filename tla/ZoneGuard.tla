------------------------------ MODULE ZoneGuard ------------------------------
(***************************************************************************)
(* What connecting a domain promises the owner of a DNS zone, with no word *)
(* about jobs, tabs or awaits: at the host being connected the panel may   *)
(* write its own DNS-only CNAME where nothing stands, and may clear a      *)
(* record only when it is its own value or shaped like its provider's      *)
(* targets.  An address record and anybody else's CNAME are changed by     *)
(* others alone, and every change by others is counted in edits.           *)
(***************************************************************************)
EXTENDS Naturals

CONSTANTS Hosts, Siblings

VARIABLES zone, edits

Records == {"none", "address", "foreign", "own", "proxied"} \cup Siblings

Point(h) == /\ zone[h] = "none"
            /\ zone' = [zone EXCEPT ![h] = "own"]
            /\ UNCHANGED edits

Clear(h) == /\ zone[h] \in Siblings \cup {"proxied"}
            /\ zone' = [zone EXCEPT ![h] = "none"]
            /\ UNCHANGED edits

Others(h) == /\ \E r \in Records : zone' = [zone EXCEPT ![h] = r]
             /\ edits' = edits + 1

Init == zone \in [Hosts -> Records] /\ edits = 0

Next == \E h \in Hosts : Point(h) \/ Clear(h) \/ Others(h)

Spec == Init /\ [][Next]_<<zone, edits>>
=============================================================================
