------------------------------ MODULE SpokeSet ------------------------------
(***************************************************************************)
(* What the persisted spoke list promises: a set of names that changes by  *)
(* one export, one removal or one eviction of the silent at a time, each   *)
(* taking effect whole or not at all.  Nothing is promised while the list  *)
(* is contended, since nobody takes a lock.                                *)
(***************************************************************************)
CONSTANT Spoke

VARIABLES
    list,      \* the names
    silent,    \* those an eviction is about
    contended  \* somebody is saving who does not know what others have done

vars == <<list, silent, contended>>

TypeOK ==
    /\ list \in SUBSET Spoke
    /\ silent \in SUBSET Spoke
    /\ contended \in BOOLEAN

Init == TypeOK

Export(n) == list' = list \cup {n}

Remove(n) == list' = list \ {n}

Evict == list' = list \ silent

\* The environment: phones go silent, writers meet and part.
Elsewhere == list' = list

Next ==
    /\ TypeOK'
    /\ \/ \E n \in Spoke : Export(n) \/ Remove(n)
       \/ Evict
       \/ Elsewhere
       \/ contended

Spec == Init /\ [][Next]_vars
=============================================================================
