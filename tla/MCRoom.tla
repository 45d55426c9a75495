------------------------------- MODULE MCRoom -------------------------------
(* Instances of Room: who polls.                                           *)
EXTENDS Room

\* Every member runs Run and nothing else calls Reconcile.
OneLoopEach == [l \in Loop |-> l]
=============================================================================
