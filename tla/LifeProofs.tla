----------------------------- MODULE LifeProofs -----------------------------
(***************************************************************************)
(* Proofs about Life, for any processes that may overlap, any service      *)
(* manager, hosts with and without iptables, and any number of faults.     *)
(***************************************************************************)
EXTENDS Life, TLAPS

(***************************************************************************)
(* What the properties rest on.  Both goroutines of a process exist while  *)
(* its main is between Setup and the stopper, and only then.  A process    *)
(* that was not told to stop is the one the manager knows, and once the    *)
(* manager waits, it has told that one.  An interface is somebody's to     *)
(* delete and a rule somebody's to take out: of a process on its way, or   *)
(* of -stop, unless a process has died without its stopper.                *)
(***************************************************************************)
GoroutinesLive ==
    \A p \in Proc : /\ st[p] = "live" <=> first[p] # "none"
                    /\ st[p] = "live" <=> run[p] # "none"

UntoldIsMain == \A p \in Proc : st[p] # "none" /\ ~told[p] => p = pid

WaitedIsTold == job = "wait" => \A p \in Proc : st[p] # "none" => told[p]

LinkHasOwner ==
    link => rough \/ stop = "link" \/ \E p \in Proc : st[p] \in {"live", "close", "delete"}

AcceptHasOwner ==
    accept => rough \/ \E p \in Proc : st[p] \in {"opened", "live", "close"}

IInv ==
    /\ TypeOK
    /\ GoroutinesLive
    /\ UntoldIsMain
    /\ WaitedIsTold
    /\ LinkHasOwner
    /\ AcceptHasOwner

-----------------------------------------------------------------------------
(* The invariant.                                                          *)

LEMMA InitIInv == Init => IInv
  <1>. SUFFICES ASSUME Init PROVE IInv
    OBVIOUS
  <1>1. {iptables, link, accept, want, rough} \subseteq BOOLEAN
    BY LifeAssumption, Zenon DEF Init
  <1>2. TypeOK
    BY <1>1, LifeAssumption DEF Init, TypeOK
  <1>. QED
    BY <1>2 DEF Init, IInv, GoroutinesLive, UntoldIsMain, WaitedIsTold, LinkHasOwner,
                AcceptHasOwner

\* A start takes an id that no process has.
LEMMA SpawnsFree ==
    ASSUME Spawn
    PROVE  \E p \in Proc : st[p] = "none" /\ st' = [st EXCEPT ![p] = "device"] /\ pid' = p
  <1>. DEFINE free == {p \in Proc : ~Alive(p)}
  <1>1. free # {}
    BY DEF Spawn
  <1>2. (CHOOSE q \in free : TRUE) \in free
    BY <1>1
  <1>3. /\ st' = [st EXCEPT ![CHOOSE q \in free : TRUE] = "device"]
        /\ pid' = CHOOSE q \in free : TRUE
    BY DEF Spawn
  <1>. QED  BY <1>2, <1>3 DEF Alive

USE DEF host, procs, service, rest

LEMMA TypeStep == IInv /\ [Next]_vars => TypeOK'
  <1>. SUFFICES ASSUME TypeOK, GoroutinesLive, [Next]_vars PROVE TypeOK'
    BY DEF IInv
  <1>. USE DEF TypeOK, GoroutinesLive
  <1>1. ASSUME NEW p \in Proc, OpenRouter(p) PROVE TypeOK'
    BY <1>1 DEF OpenRouter
  <1>2. ASSUME NEW p \in Proc, Setup(p) PROVE TypeOK'
    BY <1>2 DEF Setup
  <1>3. ASSUME NEW p \in Proc, Stopper(p) PROVE TypeOK'
    BY <1>3 DEF Stopper
  <1>4. ASSUME NEW p \in Proc, CloseRouter(p) PROVE TypeOK'
    BY <1>4 DEF CloseRouter
  <1>5. ASSUME NEW p \in Proc, ClosePanics(p) PROVE TypeOK'
    BY <1>5 DEF ClosePanics, Gone, Dies
  <1>6. ASSUME NEW p \in Proc, Delete(p) PROVE TypeOK'
    BY <1>6 DEF Delete, Gone
  <1>7. ASSUME NEW p \in Proc, FirstFails(p) PROVE TypeOK'
    BY <1>7 DEF FirstFails
  <1>8. ASSUME NEW p \in Proc, FirstApplies(p) PROVE TypeOK'
    BY <1>8 DEF FirstApplies
  <1>9. ASSUME NEW p \in Proc, FirstEnds(p) PROVE TypeOK'
    BY <1>9 DEF FirstEnds
  <1>10. ASSUME NEW p \in Proc, RunTicks(p) PROVE TypeOK'
    BY <1>10 DEF RunTicks
  <1>11. ASSUME NEW p \in Proc, RunReturns(p) PROVE TypeOK'
    BY <1>11 DEF RunReturns
  <1>12. ASSUME NEW p \in Proc, RunFails(p) PROVE TypeOK'
    BY <1>12 DEF RunFails
  <1>13. ASSUME NEW p \in Proc, RunApplies(p) PROVE TypeOK'
    BY <1>13 DEF RunApplies
  <1>14. ASSUME NEW p \in Proc, RunGone(p) PROVE TypeOK'
    BY <1>14 DEF RunGone
  <1>15. ASSUME NEW p \in Proc, RunEnds(p) PROVE TypeOK'
    BY <1>15 DEF RunEnds
  <1>16. ASSUME NEW p \in Proc, Fatal(p) PROVE TypeOK'
    <2>0. /\ accept' \in {accept, iptables} /\ link' \in {link, TRUE} /\ iptables' = iptables
      BY <1>16, Zenon DEF Fatal
    <2>1. /\ accept' \in BOOLEAN /\ (accept' => iptables) /\ link' \in BOOLEAN
          /\ iptables' = iptables
      <3>1. accept \in BOOLEAN /\ iptables \in BOOLEAN /\ link \in BOOLEAN /\ (accept => iptables)
        BY DEF TypeOK
      <3>2. (accept' = accept \/ accept' = iptables) /\ (link' = link \/ link' = TRUE)
        BY <2>0
      <3>3. CASE accept' = accept
        BY <2>0, <3>1, <3>2, <3>3, Zenon
      <3>4. CASE accept' = iptables
        BY <2>0, <3>1, <3>2, <3>4, Zenon
      <3>. QED  BY <3>2, <3>3, <3>4, Zenon
    <2>2. /\ Gone(p) /\ rough' = TRUE /\ faults < MaxFaults /\ faults' = faults + 1
          /\ UNCHANGED <<service, stop>>
      BY <1>16, Zenon DEF Fatal, Dies
    <2>. QED  BY <2>1, <2>2, LifeAssumption DEF Gone
  <1>17. ASSUME NEW p \in Proc, Abort(p) PROVE TypeOK'
    BY <1>17, LifeAssumption DEF Abort, Gone, Dies
  <1>18. ASSUME NEW p \in Proc, Kill(p) PROVE TypeOK'
    BY <1>18, LifeAssumption DEF Kill, Gone, Dies
  <1>19. CASE Launch
    <2>1. CASE Spawn
      <3>1. PICK p \in Proc : st[p] = "none" /\ st' = [st EXCEPT ![p] = "device"] /\ pid' = p
        BY <2>1, SpawnsFree
      <3>. QED  BY <1>19, <3>1 DEF Launch
    <2>2. CASE UNCHANGED <<st, pid>>
      BY <1>19, <2>2 DEF Launch
    <2>. QED  BY <1>19, <2>1, <2>2 DEF Launch
  <1>20. CASE Restart
    BY <1>20, LifeAssumption DEF Restart, Running, Alive
  <1>21. CASE WaitOver
    BY <1>21, LifeAssumption DEF WaitOver, ManagerAfter
  <1>22. CASE StartVerb
    BY <1>22, LifeAssumption DEF StartVerb
  <1>23. CASE StopSweeps
    BY <1>23, LifeAssumption DEF StopSweeps
  <1>24. CASE StopDeletes
    BY <1>24, LifeAssumption DEF StopDeletes
  <1>25. CASE Reboot
    <2>1. want' \in BOOLEAN
      BY <1>25, LifeAssumption DEF Reboot
    <2>2. faults' \in 0 .. MaxFaults /\ job' \in {"idle", "start", "wait"}
      BY <1>25, LifeAssumption DEF Reboot
    <2>3. /\ link' = FALSE /\ accept' = FALSE /\ rough' = FALSE
          /\ st' = [p \in Proc |-> "none"] /\ first' = [p \in Proc |-> "none"]
          /\ run' = [p \in Proc |-> "none"] /\ told' = [p \in Proc |-> FALSE]
          /\ pid' = NoProc /\ then' = "rest" /\ stop' = "none"
          /\ UNCHANGED <<iptables, mgr>>
      BY <1>25 DEF Reboot
    <2>. QED  BY <2>1, <2>2, <2>3
  <1>26. ASSUME NEW m \in Manager, Install(m) PROVE TypeOK'
    BY <1>26 DEF Install
  <1>27. ASSUME NEW next \in {"rest", "start", "remove"}, StopVerb(next) PROVE TypeOK'
    <2>1. want' \in BOOLEAN
      BY <1>27 DEF StopVerb
    <2>2. CASE Running
      <3>1. pid \in Proc /\ Term(pid)
        BY <1>27, <2>2 DEF StopVerb, Running, Alive
      <3>2. CASE Dies(pid)
        BY <1>27, <2>1, <3>1, <3>2 DEF StopVerb, Dies, Gone
      <3>3. CASE told' = [told EXCEPT ![pid] = TRUE] /\ UNCHANGED <<st, first, run, rough>>
        BY <1>27, <2>1, <3>1, <3>3 DEF StopVerb
      <3>. QED  BY <3>1, <3>2, <3>3 DEF Term
    <2>3. CASE ~Running
      BY <1>27, <2>1, <2>3 DEF StopVerb
    <2>. QED  BY <2>2, <2>3
  <1>28. CASE UNCHANGED vars
    BY <1>28 DEF vars
  <1>. QED
    BY <1>1, <1>2, <1>3, <1>4, <1>5, <1>6, <1>7, <1>8, <1>9, <1>10, <1>11, <1>12, <1>13, <1>14, <1>15, <1>16, <1>17, <1>18, <1>19, <1>20, <1>21, <1>22, <1>23, <1>24, <1>25, <1>26, <1>27, <1>28
    DEF Next, Step, Service, Operator, Fault

\* The steps of a pass: what main has come to, contexts and the manager stay.
Passes(p) ==
    \/ FirstFails(p) \/ FirstApplies(p) \/ FirstEnds(p)
    \/ RunTicks(p) \/ RunReturns(p) \/ RunFails(p) \/ RunApplies(p) \/ RunGone(p) \/ RunEnds(p)

\* A pass is run by a process between Setup and its stopper.
LEMMA PassesLive ==
    ASSUME IInv, NEW p \in Proc, Passes(p)
    PROVE  /\ st[p] = "live"
           /\ UNCHANGED <<iptables, link, st, told, service, rest>>
           /\ accept' \in {accept, iptables}
  BY DEF IInv, TypeOK, GoroutinesLive, Passes, FirstFails, FirstApplies, FirstEnds, RunTicks,
         RunReturns, RunFails, RunApplies, RunGone, RunEnds

\* The steps that end a process without its stopper.
Breaks(p) == Fatal(p) \/ Abort(p) \/ Kill(p) \/ ClosePanics(p)

LEMMA BreaksRough ==
    ASSUME IInv, NEW p \in Proc, Breaks(p)
    PROVE  Gone(p) /\ rough' = TRUE /\ UNCHANGED <<service, stop>>
  BY Zenon DEF Breaks, Fatal, Abort, Kill, ClosePanics, Dies

\* The steps of main on its way up and down, but for its last.
Advances(p) == OpenRouter(p) \/ Setup(p) \/ Stopper(p) \/ CloseRouter(p)

\* Neither processes nor the manager's main process are touched.
Aside ==
    \/ \E m \in Manager : Install(m)
    \/ StartVerb \/ Restart \/ StopSweeps \/ StopDeletes

\* The cases of a step that the lemmas below tell apart.
LEMMA StepCases ==
    ASSUME [Next]_vars
    PROVE  \/ \E p \in Proc : Passes(p) \/ Breaks(p) \/ Advances(p) \/ Delete(p)
           \/ Launch \/ WaitOver \/ Aside \/ Reboot
           \/ \E next \in {"rest", "start", "remove"} : StopVerb(next)
           \/ UNCHANGED vars
  BY DEF Next, Step, Service, Operator, Fault, Passes, Breaks, Advances, Aside

LEMMA GoroutinesStep == IInv /\ [Next]_vars => GoroutinesLive'
  <1>. SUFFICES ASSUME IInv, [Next]_vars PROVE GoroutinesLive'
    OBVIOUS
  <1>. USE DEF IInv, TypeOK, GoroutinesLive
  <1>1. ASSUME NEW p \in Proc, Passes(p) PROVE GoroutinesLive'
    BY <1>1 DEF Passes, FirstFails, FirstApplies, FirstEnds, RunTicks, RunReturns, RunFails,
                RunApplies, RunGone, RunEnds
  <1>2. ASSUME NEW p \in Proc, Breaks(p) \/ Delete(p) PROVE GoroutinesLive'
    <2>1. Gone(p)
      BY <1>2, BreaksRough DEF Delete
    <2>. QED  BY <2>1 DEF Gone
  <1>3. ASSUME NEW p \in Proc, Advances(p) PROVE GoroutinesLive'
    BY <1>3 DEF Advances, OpenRouter, Setup, Stopper, CloseRouter
  <1>4. CASE Launch
    <2>1. CASE Spawn
      <3>1. PICK p \in Proc : st[p] = "none" /\ st' = [st EXCEPT ![p] = "device"] /\ pid' = p
        BY <2>1, SpawnsFree
      <3>. QED  BY <1>4, <3>1 DEF Launch
    <2>. QED  BY <1>4, <2>1 DEF Launch
  <1>5. CASE WaitOver \/ Aside
    BY <1>5 DEF WaitOver, Aside, Install, StartVerb, Restart, StopSweeps, StopDeletes
  <1>6. CASE Reboot
    <2>1. /\ st' = [p \in Proc |-> "none"] /\ first' = [p \in Proc |-> "none"]
          /\ run' = [p \in Proc |-> "none"]
      BY <1>6 DEF Reboot
    <2>. QED  BY <2>1
  <1>7. ASSUME NEW next \in {"rest", "start", "remove"}, StopVerb(next) PROVE GoroutinesLive'
    <2>1. UNCHANGED <<st, first, run>> \/ (pid \in Proc /\ Gone(pid))
      BY <1>7 DEF StopVerb, Term, Dies, Running, Alive
    <2>. QED  BY <2>1 DEF Gone
  <1>8. CASE UNCHANGED vars
    BY <1>8 DEF vars
  <1>. QED  BY StepCases, <1>1, <1>2, <1>3, <1>4, <1>5, <1>6, <1>7, <1>8

LEMMA MainStep == IInv /\ [Next]_vars => UntoldIsMain' /\ WaitedIsTold'
  <1>. SUFFICES ASSUME IInv, [Next]_vars PROVE UntoldIsMain' /\ WaitedIsTold'
    OBVIOUS
  <1>. USE DEF IInv, UntoldIsMain, WaitedIsTold
  <1>0. st \in [Proc -> {"none", "device", "opened", "live", "close", "delete"}]
        /\ told \in [Proc -> BOOLEAN]
    BY DEF TypeOK
  <1>1. ASSUME NEW p \in Proc, Passes(p) PROVE UntoldIsMain' /\ WaitedIsTold'
    BY <1>1, PassesLive
  <1>2. ASSUME NEW p \in Proc, Breaks(p) \/ Delete(p) PROVE UntoldIsMain' /\ WaitedIsTold'
    <2>1. Gone(p) /\ UNCHANGED service
      BY <1>2, BreaksRough DEF Delete
    <2>. QED  BY <1>0, <2>1 DEF Gone
  <1>3. ASSUME NEW p \in Proc, Advances(p) PROVE UntoldIsMain' /\ WaitedIsTold'
    BY <1>0, <1>3 DEF Advances, OpenRouter, Setup, Stopper, CloseRouter
  <1>4. CASE Launch
    <2>1. job' = "idle" /\ UNCHANGED told
      BY <1>4 DEF Launch
    <2>2. CASE ~Running /\ Spawn
      <3>1. PICK p \in Proc : st[p] = "none" /\ st' = [st EXCEPT ![p] = "device"] /\ pid' = p
        BY <2>2, SpawnsFree
      <3>2. \A q \in Proc : st[q] # "none" => told[q]
        BY <2>2 DEF Running, Alive
      <3>. QED  BY <1>0, <2>1, <3>1, <3>2
    <2>. QED  BY <1>4, <2>1, <2>2 DEF Launch
  <1>5. CASE WaitOver
    BY <1>5 DEF WaitOver
  <1>6. CASE Aside
    BY <1>6 DEF Aside, Install, StartVerb, Restart, StopSweeps, StopDeletes
  <1>7. CASE Reboot
    <2>1. st' = [p \in Proc |-> "none"]
      BY <1>7 DEF Reboot
    <2>. QED  BY <2>1
  <1>8. ASSUME NEW next \in {"rest", "start", "remove"}, StopVerb(next)
        PROVE  UntoldIsMain' /\ WaitedIsTold'
    <2>1. pid' = pid
      BY <1>8 DEF StopVerb
    <2>2. CASE Running
      <3>1. pid \in Proc /\ Term(pid)
        BY <1>8, <2>2 DEF StopVerb, Running, Alive
      <3>. QED  BY <1>0, <2>1, <3>1 DEF Term, Dies, Gone
    <2>3. CASE ~Running
      <3>1. \A q \in Proc : st[q] # "none" => told[q]
        BY <2>3 DEF Running, Alive
      <3>. QED  BY <1>8, <2>1, <2>3, <3>1 DEF StopVerb
    <2>. QED  BY <2>2, <2>3
  <1>9. CASE UNCHANGED vars
    BY <1>9 DEF vars
  <1>. QED  BY StepCases, <1>1, <1>2, <1>3, <1>4, <1>5, <1>6, <1>7, <1>8, <1>9

LEMMA OwnerStep == IInv /\ [Next]_vars => LinkHasOwner' /\ AcceptHasOwner'
  <1>. SUFFICES ASSUME IInv, [Next]_vars PROVE LinkHasOwner' /\ AcceptHasOwner'
    OBVIOUS
  <1>. USE DEF IInv, LinkHasOwner, AcceptHasOwner
  <1>0. st \in [Proc -> {"none", "device", "opened", "live", "close", "delete"}]
    BY DEF TypeOK
  <1>1. ASSUME NEW p \in Proc, Passes(p) PROVE LinkHasOwner' /\ AcceptHasOwner'
    BY <1>1, PassesLive
  <1>2. ASSUME NEW p \in Proc, Breaks(p) PROVE LinkHasOwner' /\ AcceptHasOwner'
    BY <1>2, BreaksRough
  <1>3. ASSUME NEW p \in Proc, Delete(p) PROVE LinkHasOwner' /\ AcceptHasOwner'
    BY <1>0, <1>3 DEF Delete, Gone
  <1>4. ASSUME NEW p \in Proc, Advances(p) PROVE LinkHasOwner' /\ AcceptHasOwner'
    <2>1. CASE OpenRouter(p)
      BY <1>0, <2>1 DEF OpenRouter
    <2>2. CASE Setup(p)
      BY <1>0, <2>2 DEF Setup
    <2>3. CASE Stopper(p)
      BY <1>0, <2>3 DEF Stopper
    <2>4. CASE CloseRouter(p)
      BY <1>0, <2>4 DEF CloseRouter
    <2>. QED  BY <1>4, <2>1, <2>2, <2>3, <2>4 DEF Advances
  <1>5. CASE Launch
    <2>1. CASE Spawn
      <3>1. PICK p \in Proc : st[p] = "none" /\ st' = [st EXCEPT ![p] = "device"] /\ pid' = p
        BY <2>1, SpawnsFree
      <3>. QED  BY <1>0, <1>5, <3>1 DEF Launch
    <2>. QED  BY <1>5, <2>1 DEF Launch
  <1>6. CASE WaitOver \/ Aside
    BY <1>6 DEF WaitOver, Aside, Install, StartVerb, Restart, StopSweeps, StopDeletes
  <1>7. CASE Reboot
    <2>1. link' = FALSE /\ accept' = FALSE
      BY <1>7 DEF Reboot
    <2>. QED  BY <2>1
  <1>8. ASSUME NEW next \in {"rest", "start", "remove"}, StopVerb(next)
        PROVE  LinkHasOwner' /\ AcceptHasOwner'
    <2>1. UNCHANGED host /\ stop' = stop /\ (rough' = TRUE \/ UNCHANGED <<st, rough>>)
      BY <1>8 DEF StopVerb, Term, Dies
    <2>. QED  BY <2>1
  <1>9. CASE UNCHANGED vars
    BY <1>9 DEF vars
  <1>. QED  BY StepCases, <1>1, <1>2, <1>3, <1>4, <1>5, <1>6, <1>7, <1>8, <1>9

LEMMA InductiveInvariant == Spec => []IInv
  <1>1. IInv /\ [Next]_vars => IInv'
    BY TypeStep, GoroutinesStep, MainStep, OwnerStep DEF IInv
  <1>. QED  BY InitIInv, <1>1, PTL DEF Spec

-----------------------------------------------------------------------------
(* The properties.                                                         *)

(***************************************************************************)
(* Processes, goroutines and the manager keep their types (main.go:226-320 *)
(* and service.go).                                                        *)
(***************************************************************************)
THEOREM LifeTypeOK == Spec => []TypeOK
  BY InductiveInvariant, PTL DEF IInv

(***************************************************************************)
(* When no process is left and none has died without its stopper since the *)
(* last -stop, the host is clean, whatever overlapped (main.go:249-257).   *)
(***************************************************************************)
THEOREM GracefulEndsClean == Spec => []EndsClean
  <1>1. IInv => EndsClean
    BY DEF IInv, EndsClean, Alive, LinkHasOwner, AcceptHasOwner, TypeOK
  <1>. QED  BY <1>1, InductiveInvariant, PTL

(***************************************************************************)
(* Of all daemons on a host at most one has not been told to stop          *)
(* (service.go:83-98).                                                     *)
(***************************************************************************)
THEOREM SingleOwner == Spec => []OneOwner
  <1>1. IInv => OneOwner
    BY DEF IInv, OneOwner, Alive, UntoldIsMain
  <1>. QED  BY <1>1, InductiveInvariant, PTL
=============================================================================
