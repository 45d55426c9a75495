------------------------------ MODULE MCRoster ------------------------------
(* Instances of Roster: which goroutines of which nodes are explored.      *)
EXTENDS Roster

CONSTANTS n1, n2

\* A publisher and an observer on another host, with its own clock.
Observed == {<<n1, "run">>, <<n2, "peek">>}

\* A daemon with both of its goroutines.
BothTicks == {<<n1, "main">>, <<n1, "run">>}
=============================================================================
