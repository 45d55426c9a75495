---------------------------- MODULE RouterProofs ----------------------------
(***************************************************************************)
(* Proofs about Router, for any spokes, subnets, chains and bounds.        *)
(***************************************************************************)
EXTENDS Router, TLAPS

(***************************************************************************)
(* What the loops of the daemon have still to visit.                       *)
(***************************************************************************)
Starting == pc \in {"open", "openInsert", "heal", "setupFwd", "setupHeal"}

\* Forwarding was asked for by AddSource and not by syncNat.
InAddSource == pc = "srcAdd" \/ (pc = "fwdHeal" /\ fwdWarned)

Loops ==
    /\ pc \in {"open", "openInsert", "ensure", "ensureInsert", "closePort"} => todo \subseteq Fam
    /\ pc \in {"openInsert", "ensureInsert"} => todo # {}
    /\ pc = "announce" => todo \subseteq announce \ announceNAT
    /\ pc = "srcDel" => todo \subseteq Spoke /\ spokeSrc \ todo \subseteq spokes
    /\ InAddSource => todo \cup spokeSrc \subseteq spokes
    /\ pc = "idle" => spokeSrc \subseteq spokes
    /\ pc \in {"fwd"} => ~fwdWarned
    /\ pc \in {"announce", "ensure", "ensureInsert", "srcDel", "srcAdd"} => fwdWarned

\* What a process has not yet come to know, and what it has let go of.
Memory ==
    /\ pc = "down" \/ Starting => spokeSrc = {}
    /\ pc \in {"down", "open", "openInsert", "heal"} => ~fwdSet
    /\ pc \in {"down", "closePort", "closeTags", "closeBatch", "closeFwd"}
           => added = {} /\ announceNAT = {}
    /\ pc \in {"down", "closeFwd"} => taggedChains = {}

(***************************************************************************)
(* How many copies of a rule there can be.  Own counts the operator's      *)
(* accept, Tracked the masquerade rule this process will delete in Close.  *)
(***************************************************************************)
Own(f) == IF f \in oper THEN 1 ELSE 0

Tracked(k) ==
    IF k \in added \cup announceNAT /\ ~(pc = "close" /\ k \notin todo) THEN 1 ELSE 0

PortBound ==
    /\ \A f \in Fam : port[f] <= Own(f) + 1 + fails
    /\ pc \in {"openInsert", "ensureInsert"} => port[First(todo)] <= Own(First(todo)) + fails

NatBound == \A k \in Key : nat[k] <= Tracked(k) + crashes + fails

\* TypeOK but for the bounds on the number of copies.
Shape ==
    /\ port \in [Fam -> Nat] /\ nat \in [Key -> Nat]
    /\ tag \subseteq Chain
    /\ {fwd, base, dev} \subseteq BOOLEAN
    /\ oper \subseteq Fam
    /\ pc \in {"down", "open", "openInsert", "heal", "setupFwd", "setupHeal", "idle", "fwd", "fwdHeal",
               "announce", "ensure", "ensureInsert", "srcDel", "srcAdd", "close",
               "closePort", "closeTags", "closeBatch", "closeFwd"}
    /\ todo \subseteq Fam \cup Key
    /\ chains \subseteq Chain
    /\ added \subseteq Spoke /\ announceNAT \subseteq announce
    /\ taggedChains \subseteq Chain
    /\ {fwdSet, priorFwd, fwdWarned} \subseteq BOOLEAN
    /\ spokes \subseteq Spoke /\ spokeSrc \subseteq Spoke
    /\ announce \subseteq Subnet
    /\ stop \in {"none", "port", "nat", "tags", "batch", "link", "done"}
    /\ found \subseteq Chain \cup {"replaced"}
    /\ {killed, aborted} \subseteq BOOLEAN
    /\ crashes \in 0 .. MaxCrashes /\ fails \in 0 .. MaxFails /\ wipes \in 0 .. MaxWipes

IInv == Shape /\ Loops /\ Memory /\ PortBound /\ NatBound

(***************************************************************************)
(* With no refused command, and no kill since -stop swept, nothing is left *)
(* but what the present process holds.                                     *)
(***************************************************************************)
AfterPort == {"nat", "tags", "batch", "link", "done"}
AfterNat  == {"tags", "batch", "link", "done"}
AfterTags == {"link", "done"}
Listing   == {"batch"}

Clean(swept) == fails = 0 /\ (crashes = 0 \/ (~killed /\ stop \in swept))

\* The accept that this process deletes in Close.
Held(f) ==
    IF \/ pc \in {"down", "closeTags", "closeBatch", "closeFwd"}
       \/ pc = "closePort" /\ f \notin todo
    THEN 0 ELSE 1

PortClean == Clean(AfterPort) => \A f \in Fam : port[f] <= Own(f) + Held(f)

NatClean == Clean(AfterNat) => \A k \in Key : nat[k] <= Tracked(k)

\* The tags that are neither tracked nor listed by the sweep or by Close.
TagClean ==
    /\ Clean(AfterTags) /\ ~aborted => tag \subseteq taggedChains
    /\ Clean(Listing) /\ stop = "batch" /\ ~aborted => tag \subseteq taggedChains \cup found
    /\ fails = 0 /\ pc = "closeBatch" => tag \cap taggedChains \subseteq chains

\* A spoke's rule is in the kernel only while syncNat counts the spoke as served.
SourceServed == Clean({}) => \A s \in Spoke : nat[s] > 0 => s \in spokeSrc

CInv == PortClean /\ NatClean /\ TagClean /\ SourceServed

(***************************************************************************)
(* ip_forward differs from what it would be only while this process has    *)
(* turned it on and knows what to restore.                                 *)
(***************************************************************************)
FwdInv ==
    /\ pc # "down" => priorFwd = base
    /\ ~fwdSet \/ ReadOnly => fwd = base
-----------------------------------------------------------------------------
USE DEF host, router, daemon, flow, budget, stopper

\* First picks one of the families that are left.
LEMMA FirstIn ==
    ASSUME NEW fs \in SUBSET Fam, fs # {} PROVE First(fs) \in fs
  BY RouterAssumption DEF First

\* A command is refused at most MaxFails times.
LEMMA FailsBounded ==
    ASSUME Shape, Refused \/ Done
    PROVE  fails' \in 0 .. MaxFails /\ fails' >= fails /\ (Refused => fails' > 0)
  <1>1. MaxFails \in Nat /\ fails \in 0 .. MaxFails
    BY RouterAssumption DEF Shape
  <1>. QED  BY <1>1 DEF Refused, Done

\* A process that ends without Close, and what it leaves.
LEMMA KillStep ==
    ASSUME Shape, StartFails \/ Crash
    PROVE  /\ fails \in Nat /\ fails' \in Nat /\ fails' >= fails
           /\ crashes \in Nat /\ crashes' \in Nat /\ crashes' >= crashes
           /\ crashes' + fails' = crashes + fails + 1
           /\ fails' > 0 \/ crashes' > 0
           /\ nat' = nat /\ stop' = stop /\ killed' = TRUE
  <1>0. fails \in Nat /\ crashes \in Nat /\ MaxFails \in Nat
    BY RouterAssumption DEF Shape
  <1>1. CASE StartFails
    <2>1. Refused /\ nat' = nat /\ stop' = stop /\ crashes' = crashes /\ killed' = TRUE
      BY <1>1, Zenon DEF StartFails
    <2>2. fails' = fails + 1
      BY <2>1 DEF Refused
    <2>. QED  BY <1>0, <2>1, <2>2
  <1>2. CASE Crash
    BY <1>0, <1>2 DEF Crash
  <1>. QED  BY <1>1, <1>2

LEMMA NextShape == Shape /\ Loops /\ Memory /\ [Next]_vars => Shape'
  <1>. SUFFICES ASSUME Shape, Loops, Memory, [Next]_vars PROVE Shape'
    OBVIOUS
  <1>. USE DEF Shape, Key, Chain
  <1>0. Refused \/ Done => fails' \in 0 .. MaxFails
    BY FailsBounded
  <1>1. CASE Start
    BY <1>1, RouterAssumption DEF Start, Memory
  <1>2. CASE StartFails
    BY <1>0, <1>2 DEF StartFails, Forget
  <1>3. CASE ProbePort
    <2>1. First(todo) \in Fam
      BY <1>3, FirstIn DEF ProbePort, Loops
    <2>. QED  BY <1>0, <1>3, <2>1 DEF ProbePort
  <1>4. CASE InsertPort
    <2>1. First(todo) \in Fam
      BY <1>4, FirstIn DEF InsertPort, Loops
    <2>. QED  BY <1>0, <1>4, <2>1 DEF InsertPort
  <1>5. CASE InsertRefused
    <2>1. First(todo) \in Fam
      BY <1>5, FirstIn DEF InsertRefused, Loops
    <2>. QED  BY <1>0, <1>5, <2>1 DEF InsertRefused
  <1>6. CASE PortOpen
    BY <1>6 DEF PortOpen
  <1>7. CASE InputSelfHeal
    BY <1>0, <1>7 DEF InputSelfHeal, HealChain
  <1>8. CASE Setup
    BY <1>8 DEF Setup
  <1>9. CASE ForwardSelfHeal
    BY <1>0, <1>9 DEF ForwardSelfHeal, HealChain
  <1>10. CASE PassBegins
    BY <1>10 DEF PassBegins
  <1>11. CASE Forwarding
    BY <1>11 DEF Forwarding, CanForward
  <1>12. CASE ForwardingReturns
    BY <1>12 DEF ForwardingReturns, CanForward
  <1>13. CASE AnnounceNAT
    BY <1>0, <1>13 DEF AnnounceNAT, Insert, Loops
  <1>14. CASE EnsurePort
    BY <1>14 DEF EnsurePort
  <1>15. CASE PortEnsured
    BY <1>15 DEF PortEnsured
  <1>16. CASE RemoveSource
    BY <1>0, <1>16 DEF RemoveSource, Delete
  <1>17. CASE SourcesRemoved
    BY <1>17 DEF SourcesRemoved
  <1>18. CASE AddSource
    <2>1. todo \subseteq Spoke
      BY <1>18 DEF AddSource, Loops, InAddSource
    <2>2. nat' \in [Key -> Nat] /\ added' \subseteq Spoke /\ spokeSrc' \subseteq Spoke
      BY <1>18, <2>1 DEF AddSource, Insert
    <2>. QED  BY <1>0, <1>18, <2>2 DEF AddSource
  <1>19. CASE PassEnds
    BY <1>19 DEF PassEnds
  <1>20. CASE Signal
    BY <1>20 DEF Signal, CloseBegins
  <1>21. CASE DeviceGone
    BY <1>21 DEF DeviceGone, CloseBegins
  <1>22. CASE CloseNat
    BY <1>0, <1>22 DEF CloseNat, Delete
  <1>23. CASE CloseNatDone
    BY <1>23 DEF CloseNatDone
  <1>24. CASE ClosePort
    <2>1. First(todo) \in Fam
      BY <1>24, FirstIn DEF ClosePort, Loops
    <2>. QED  BY <1>0, <1>24, <2>1 DEF ClosePort, delIPTRule
  <1>25. CASE ClosePortDone
    BY <1>25 DEF ClosePortDone
  <1>26. CASE CloseTags
    BY <1>0, <1>26 DEF CloseTags
  <1>27. CASE CloseFwd
    BY <1>27 DEF CloseFwd, Forget
  <1>28. CASE StopBegins
    BY <1>28 DEF StopBegins
  <1>29. CASE StopPort
    BY <1>29 DEF StopPort
  <1>30. CASE StopNat
    BY <1>30 DEF StopNat
  <1>31. CASE StopTags
    BY <1>31 DEF StopTags
  <1>32. CASE StopLink
    BY <1>32 DEF StopLink
  <1>38. CASE CloseBatch
    BY <1>0, <1>38 DEF CloseBatch
  <1>39. CASE StopBatch
    BY <1>39 DEF StopBatch
  <1>33. CASE Crash
    <2>1. crashes' \in 0 .. MaxCrashes
      <3>1. MaxCrashes \in Nat /\ crashes \in 0 .. MaxCrashes
        BY RouterAssumption
      <3>. QED  BY <1>33, <3>1 DEF Crash
    <2>. QED  BY <1>33, <2>1 DEF Crash, Forget
  <1>34. CASE Wipe
    <2>1. wipes' \in 0 .. MaxWipes
      <3>1. MaxWipes \in Nat /\ wipes \in 0 .. MaxWipes
        BY RouterAssumption
      <3>. QED  BY <1>34, <3>1 DEF Wipe
    <2>2. port' \in [Fam -> Nat] /\ oper' \subseteq Fam
      BY <1>34 DEF Wipe
    <2>3. nat' \in [Key -> Nat] /\ tag' \subseteq Chain
      BY <1>34 DEF Wipe
    <2>. QED  BY <1>34, <2>1, <2>2, <2>3 DEF Wipe
  <1>35. CASE OperatorAccepts
    BY <1>35 DEF OperatorAccepts
  <1>36. CASE OtherForwards
    BY <1>36 DEF OtherForwards
  <1>37. CASE UNCHANGED vars
    BY <1>37 DEF vars
  <1>. QED
    BY <1>1, <1>2, <1>3, <1>4, <1>5, <1>6, <1>7, <1>8, <1>9, <1>10, <1>11, <1>12, <1>13, <1>14, <1>15, <1>16, <1>17, <1>18, <1>19, <1>20, <1>21, <1>22, <1>23, <1>24, <1>25, <1>26, <1>27, <1>28, <1>29, <1>30, <1>31, <1>32, <1>33, <1>34, <1>35, <1>36, <1>37, <1>38, <1>39
    DEF Next, DaemonStep, StopStep

LEMMA NextLoops == Shape /\ Loops /\ Memory /\ [Next]_vars => (Loops /\ Memory)'
  <1>. SUFFICES ASSUME Shape, Loops, Memory, [Next]_vars PROVE (Loops /\ Memory)'
    OBVIOUS
  <1>. USE RouterAssumption DEF Refused, Done, Shape, Loops, Memory, Starting, InAddSource, Key
  <1>1. CASE Start
    BY <1>1 DEF Start
  <1>2. CASE StartFails
    BY <1>2 DEF StartFails, Forget
  <1>3. CASE ProbePort
    BY <1>3 DEF ProbePort
  <1>4. CASE InsertPort
    BY <1>4 DEF InsertPort
  <1>5. CASE InsertRefused
    BY <1>5 DEF InsertRefused
  <1>6. CASE PortOpen
    BY <1>6 DEF PortOpen
  <1>7. CASE InputSelfHeal
    BY <1>7 DEF InputSelfHeal, HealChain
  <1>8. CASE Setup
    BY <1>8 DEF Setup
  <1>9. CASE ForwardSelfHeal
    BY <1>9 DEF ForwardSelfHeal, HealChain
  <1>10. CASE PassBegins
    BY <1>10 DEF PassBegins
  <1>11. CASE Forwarding
    BY <1>11 DEF Forwarding, CanForward
  <1>12. CASE ForwardingReturns
    BY <1>12 DEF ForwardingReturns, CanForward
  <1>13. CASE AnnounceNAT
    BY <1>13 DEF AnnounceNAT, Insert
  <1>14. CASE EnsurePort
    BY <1>14 DEF EnsurePort
  <1>15. CASE PortEnsured
    BY <1>15 DEF PortEnsured
  <1>16. CASE RemoveSource
    BY <1>16 DEF RemoveSource, Delete
  <1>17. CASE SourcesRemoved
    BY <1>17 DEF SourcesRemoved
  <1>18. CASE AddSource
    BY <1>18 DEF AddSource, CanForward, Insert
  <1>19. CASE PassEnds
    BY <1>19 DEF PassEnds
  <1>20. CASE Signal
    BY <1>20 DEF Signal, CloseBegins
  <1>21. CASE DeviceGone
    BY <1>21 DEF DeviceGone, CloseBegins
  <1>22. CASE CloseNat
    BY <1>22 DEF CloseNat, Delete
  <1>23. CASE CloseNatDone
    BY <1>23 DEF CloseNatDone
  <1>24. CASE ClosePort
    BY <1>24 DEF ClosePort, delIPTRule
  <1>25. CASE ClosePortDone
    BY <1>25 DEF ClosePortDone
  <1>26. CASE CloseTags
    BY <1>26 DEF CloseTags
  <1>27. CASE CloseFwd
    BY <1>27 DEF CloseFwd, Forget
  <1>28. CASE StopBegins
    BY <1>28 DEF StopBegins
  <1>29. CASE StopPort
    BY <1>29 DEF StopPort
  <1>30. CASE StopNat
    BY <1>30 DEF StopNat
  <1>31. CASE StopTags
    BY <1>31 DEF StopTags
  <1>32. CASE StopLink
    BY <1>32 DEF StopLink
  <1>38. CASE CloseBatch
    BY <1>38 DEF CloseBatch
  <1>39. CASE StopBatch
    BY <1>39 DEF StopBatch
  <1>33. CASE Crash
    BY <1>33 DEF Crash, Forget
  <1>34. CASE Wipe
    BY <1>34 DEF Wipe
  <1>35. CASE OperatorAccepts
    BY <1>35 DEF OperatorAccepts
  <1>36. CASE OtherForwards
    BY <1>36 DEF OtherForwards
  <1>37. CASE UNCHANGED vars
    BY <1>37 DEF vars
  <1>. QED
    BY <1>1, <1>2, <1>3, <1>4, <1>5, <1>6, <1>7, <1>8, <1>9, <1>10, <1>11, <1>12, <1>13, <1>14, <1>15, <1>16, <1>17, <1>18, <1>19, <1>20, <1>21, <1>22, <1>23, <1>24, <1>25, <1>26, <1>27, <1>28, <1>29, <1>30, <1>31, <1>32, <1>33, <1>34, <1>35, <1>36, <1>37, <1>38, <1>39
    DEF Next, DaemonStep, StopStep
-----------------------------------------------------------------------------
(* What a step does to the copies of a rule, and to the budget.            *)

\* No accept is added but by the operator.
PortKept == \A f \in Fam : port'[f] = 0 \/ port'[f] + Own(f) <= port[f] + Own(f)'

\* No rule is added without being tracked, or let go of without being deleted.
NatKept == \A k \in Key : nat'[k] = 0 \/ nat'[k] + Tracked(k) <= nat[k] + Tracked(k)'

\* A rule is let go of and stays: a kill, or a delete that is refused.
NatLost == /\ \A k \in Key : nat'[k] <= nat[k]
           /\ crashes' + fails' = crashes + fails + 1
           /\ fails' > 0 \/ (crashes' > 0 /\ killed')

LEMMA PortStep ==
    ASSUME Shape, Loops, [Next]_vars PROVE InsertPort \/ PortKept
  <1>0. /\ \A f \in Fam : port[f] \in Nat /\ Own(f) \in {0, 1} /\ Own(f)' \in {0, 1}
        /\ oper \subseteq Fam
    BY DEF Shape, Own
  <1>1. CASE UNCHANGED <<port, oper>>
    BY <1>0, <1>1 DEF PortKept, Own
  <1>2. CASE ClosePort
    <2>1. First(todo) \in Fam
      BY <1>2, FirstIn DEF ClosePort, Loops
    <2>2. \A f \in Fam : port'[f] = port[f] \/ port'[f] = port[f] - 1
      BY <1>2, <2>1 DEF ClosePort, delIPTRule, Shape
    <2>3. oper' = oper
      BY <1>2 DEF ClosePort
    <2>. QED  BY <1>0, <2>2, <2>3 DEF PortKept, Own
  <1>3. CASE StopPort
    <2>1. \A f \in Fam : port'[f] = 0 \/ port'[f] = port[f] - 1
      BY <1>0, <1>3 DEF StopPort
    <2>2. oper' = oper
      BY <1>3 DEF StopPort
    <2>. QED  BY <1>0, <2>1, <2>2 DEF PortKept, Own
  <1>4. CASE Wipe
    <2>1. ASSUME NEW g \in Fam, port' = [port EXCEPT ![g] = 0], oper' = oper \ {g}
          PROVE  PortKept
      BY <1>0, <2>1 DEF PortKept, Own, Shape
    <2>. QED  BY <1>1, <1>4, <2>1 DEF Wipe
  <1>5. CASE OperatorAccepts
    <2>1. PICK g \in Fam \ oper : oper' = oper \cup {g} /\ port' = [port EXCEPT ![g] = @ + 1]
      BY <1>5 DEF OperatorAccepts
    <2>2. ASSUME NEW f \in Fam PROVE port'[f] + Own(f) <= port[f] + Own(f)'
      <3>1. CASE f = g
        <4>1. port'[f] = port[f] + 1 /\ Own(f) = 0 /\ Own(f)' = 1
          BY <2>1, <3>1 DEF Own, Shape
        <4>. QED  BY <1>0, <4>1
      <3>2. CASE f # g
        <4>1. port'[f] = port[f] /\ Own(f)' = Own(f)
          BY <2>1, <3>2 DEF Own, Shape
        <4>. QED  BY <1>0, <4>1
      <3>. QED  BY <3>1, <3>2
    <2>. QED  BY <2>2 DEF PortKept
  <1>6. CASE StartFails \/ Crash \/ Start \/ ProbePort \/ InsertRefused \/ PortOpen \/ Setup
    BY <1>1, <1>6 DEF StartFails, Crash, Start, ProbePort, InsertRefused, PortOpen, Setup
  <1>7. CASE InputSelfHeal \/ ForwardSelfHeal \/ PassBegins \/ Forwarding \/ ForwardingReturns
    BY <1>1, <1>7 DEF InputSelfHeal, ForwardSelfHeal, HealChain, PassBegins, Forwarding,
                      ForwardingReturns
  <1>8. CASE AnnounceNAT \/ EnsurePort \/ PortEnsured \/ RemoveSource \/ SourcesRemoved \/ AddSource
             \/ PassEnds
    BY <1>1, <1>8 DEF AnnounceNAT, EnsurePort, PortEnsured, RemoveSource, SourcesRemoved,
                      AddSource, PassEnds
  <1>9. CASE Signal \/ DeviceGone \/ CloseNat \/ CloseNatDone \/ ClosePortDone \/ CloseTags
             \/ CloseBatch \/ CloseFwd
    BY <1>1, <1>9 DEF Signal, DeviceGone, CloseBegins, CloseNat, CloseNatDone, ClosePortDone,
                      CloseTags, CloseBatch, CloseFwd
  <1>10. CASE StopBegins \/ StopNat \/ StopTags \/ StopBatch \/ StopLink \/ OtherForwards
              \/ UNCHANGED vars
    BY <1>1, <1>10 DEF StopBegins, StopNat, StopTags, StopBatch, StopLink, OtherForwards, vars
  <1>. QED
    BY <1>2, <1>3, <1>4, <1>5, <1>6, <1>7, <1>8, <1>9, <1>10 DEF Next, DaemonStep, StopStep

LEMMA NatStep ==
    ASSUME Shape, Loops, Memory, [Next]_vars PROVE NatKept \/ NatLost
  <1>0. /\ \A k \in Key : nat[k] \in Nat /\ Tracked(k) \in {0, 1} /\ Tracked(k)' \in {0, 1}
        /\ added \subseteq Spoke /\ announceNAT \subseteq Subnet /\ Spoke \cap Subnet = {}
        /\ crashes \in Nat /\ fails \in Nat
    <2>1. /\ nat \in [Key -> Nat]
          /\ added \subseteq Spoke /\ announceNAT \subseteq Subnet /\ Spoke \cap Subnet = {}
          /\ crashes \in Nat /\ fails \in Nat
      BY RouterAssumption DEF Shape
    <2>2. \A k \in Key : Tracked(k) \in {0, 1} /\ Tracked(k)' \in {0, 1}
      BY DEF Tracked
    <2>. QED  BY <2>1, <2>2
  <1>1. ASSUME \A k \in Key : nat'[k] = 0 \/ (nat'[k] = nat[k] /\ Tracked(k)' = Tracked(k))
        PROVE  NatKept
    BY <1>0, <1>1 DEF NatKept
  <1>2. ASSUME UNCHANGED <<nat, added, announceNAT>>, pc # "close", pc' # "close" PROVE NatKept
    BY <1>1, <1>2 DEF Tracked
  <1>3. ASSUME UNCHANGED <<nat, added, announceNAT, pc, todo>> PROVE NatKept
    BY <1>1, <1>3 DEF Tracked
  <1>4. CASE StartFails \/ Crash
    <2>1. /\ nat' = nat /\ killed' = TRUE /\ crashes' \in Nat /\ fails' \in Nat
          /\ crashes' + fails' = crashes + fails + 1
      BY <1>4, KillStep
    <2>2. fails' > 0 \/ crashes' > 0
      BY <1>4, KillStep
    <2>3. \A k \in Key : nat'[k] <= nat[k]
      BY <1>0, <2>1
    <2>. QED  BY <2>1, <2>2, <2>3 DEF NatLost
  <1>5. CASE AnnounceNAT
    <2>1. PICK k \in todo :
            \/ Insert(k) /\ announceNAT' = announceNAT \cup {k}
            \/ UNCHANGED <<nat, announceNAT>>
      BY <1>5 DEF AnnounceNAT
    <2>2. k \in Subnet /\ k \notin announceNAT /\ added' = added /\ pc = "announce" /\ pc' = pc
      BY <1>5 DEF AnnounceNAT, Loops, Shape
    <2>3. CASE UNCHANGED <<nat, announceNAT>>
      BY <1>2, <2>2, <2>3
    <2>4. CASE Insert(k) /\ announceNAT' = announceNAT \cup {k}
      <3>1. nat'[k] = nat[k] + 1 /\ Tracked(k) = 0 /\ Tracked(k)' = 1
        BY <1>0, <2>2, <2>4 DEF Insert, Tracked, Shape, Key
      <3>2. \A m \in Key \ {k} : nat'[m] = nat[m] /\ Tracked(m)' = Tracked(m)
        BY <2>2, <2>4 DEF Insert, Tracked, Shape
      <3>. QED  BY <1>0, <3>1, <3>2 DEF NatKept
    <2>. QED  BY <2>1, <2>3, <2>4
  <1>6. CASE AddSource
    <2>1. PICK s \in todo :
            \/ Insert(s) /\ added' = added \cup {s} /\ s \notin added
            \/ UNCHANGED <<nat, added>>
      BY <1>6 DEF AddSource
    <2>2. s \in Spoke /\ announceNAT' = announceNAT /\ pc = "srcAdd" /\ pc' = pc
      BY <1>6 DEF AddSource, Loops, InAddSource, Shape
    <2>3. CASE UNCHANGED <<nat, added>>
      BY <1>2, <2>2, <2>3
    <2>4. CASE Insert(s) /\ added' = added \cup {s} /\ s \notin added
      <3>1. nat'[s] = nat[s] + 1 /\ Tracked(s) = 0 /\ Tracked(s)' = 1
        BY <1>0, <2>2, <2>4 DEF Insert, Tracked, Shape, Key
      <3>2. \A m \in Key \ {s} : nat'[m] = nat[m] /\ Tracked(m)' = Tracked(m)
        BY <2>2, <2>4 DEF Insert, Tracked, Shape
      <3>. QED  BY <1>0, <3>1, <3>2 DEF NatKept
    <2>. QED  BY <2>1, <2>3, <2>4
  <1>7. CASE RemoveSource
    <2>1. PICK s \in todo :
            \/ Delete(s) /\ added' = IF nat[s] > 0 THEN added \ {s} ELSE added
            \/ UNCHANGED <<nat, added>>
      BY <1>7 DEF RemoveSource
    <2>2. s \in Spoke /\ announceNAT' = announceNAT /\ pc = "srcDel" /\ pc' = pc
      BY <1>7 DEF RemoveSource, Loops
    <2>3. CASE UNCHANGED <<nat, added>>
      BY <1>2, <2>2, <2>3
    <2>4. CASE Delete(s) /\ nat[s] > 0 /\ added' = added \ {s}
      <3>1. nat'[s] = nat[s] - 1
        BY <2>2, <2>4 DEF Delete, Shape, Key
      <3>2. \A m \in Key \ {s} : nat'[m] = nat[m] /\ Tracked(m)' = Tracked(m)
        BY <2>2, <2>4 DEF Delete, Tracked, Shape
      <3>. QED  BY <1>0, <3>1, <3>2 DEF NatKept
    <2>5. CASE Delete(s) /\ ~(nat[s] > 0) /\ added' = added
      BY <1>2, <2>2, <2>5 DEF Delete
    <2>. QED  BY <2>1, <2>3, <2>4, <2>5
  <1>8. CASE CloseNat
    <2>1. PICK k \in todo : /\ todo' = todo \ {k}
                            /\ \/ Done /\ Delete(k)
                               \/ Refused /\ nat' = nat
      BY <1>8 DEF CloseNat
    <2>2. pc = "close" /\ UNCHANGED <<pc, added, announceNAT, crashes>>
      BY <1>8 DEF CloseNat
    <2>3. CASE Refused /\ nat' = nat
      BY <1>0, <2>2, <2>3 DEF Refused, NatLost
    <2>4. CASE Delete(k)
      <3>1. \A m \in Key : m = k => nat'[m] = 0 \/ nat'[m] = nat[m] - 1
        BY <1>0, <2>4 DEF Delete, Shape
      <3>2. \A m \in Key : m # k => nat'[m] = nat[m] /\ Tracked(m)' = Tracked(m)
        BY <2>1, <2>2, <2>4 DEF Delete, Tracked, Shape
      <3>. QED  BY <1>0, <3>1, <3>2 DEF NatKept
    <2>. QED  BY <2>1, <2>3, <2>4
  <1>9. CASE Signal \/ DeviceGone
    <2>1. UNCHANGED <<nat, added, announceNAT>> /\ pc = "idle" /\ todo' = announceNAT \cup added
      BY <1>9 DEF Signal, DeviceGone, CloseBegins
    <2>. QED  BY <1>1, <2>1 DEF Tracked
  <1>10. CASE CloseNatDone
    <2>1. nat' = nat /\ pc = "close" /\ todo = {} /\ added' = {} /\ announceNAT' = {}
      BY <1>10 DEF CloseNatDone
    <2>. QED  BY <1>1, <2>1 DEF Tracked
  <1>11. CASE StopNat
    BY <1>1, <1>11 DEF StopNat
  <1>12. CASE Wipe
    BY <1>1, <1>3, <1>12 DEF Wipe
  <1>13. CASE CloseFwd
    <2>1. UNCHANGED <<nat, added, announceNAT>> /\ pc = "closeFwd" /\ pc' = "down"
      BY <1>13 DEF CloseFwd, Forget, Memory
    <2>. QED  BY <1>2, <2>1
  <1>14. CASE Start \/ ProbePort \/ InsertPort \/ InsertRefused \/ PortOpen \/ Setup
    BY <1>2, <1>14 DEF Start, ProbePort, InsertPort, InsertRefused, PortOpen, Setup
  <1>15. CASE InputSelfHeal \/ ForwardSelfHeal \/ PassBegins \/ Forwarding \/ ForwardingReturns
    BY <1>2, <1>15 DEF InputSelfHeal, ForwardSelfHeal, HealChain, PassBegins, Forwarding,
                       ForwardingReturns
  <1>16. CASE EnsurePort \/ PortEnsured \/ SourcesRemoved \/ PassEnds \/ ClosePort \/ ClosePortDone
              \/ CloseTags \/ CloseBatch
    BY <1>2, <1>16 DEF EnsurePort, PortEnsured, SourcesRemoved, PassEnds, ClosePort, ClosePortDone,
                       CloseTags, CloseBatch
  <1>17. CASE StopBegins \/ StopPort \/ StopTags \/ StopBatch \/ StopLink \/ OperatorAccepts
              \/ OtherForwards \/ UNCHANGED vars
    BY <1>3, <1>17 DEF StopBegins, StopPort, StopTags, StopBatch, StopLink, OperatorAccepts,
                       OtherForwards, vars
  <1>. QED
    BY <1>4, <1>5, <1>6, <1>7, <1>8, <1>9, <1>10, <1>11, <1>12, <1>13, <1>14, <1>15, <1>16, <1>17
    DEF Next, DaemonStep, StopStep
\* Refusals and kills only add up; a kill is forgotten only when -stop begins, and
\* each phase of -stop is reached from the one before it, by its sweep.
LEMMA BudgetStep ==
    ASSUME Shape, [Next]_vars
    PROVE  /\ fails \in Nat /\ fails' \in Nat /\ fails' >= fails
           /\ crashes \in Nat /\ crashes' \in Nat /\ crashes' >= crashes
           /\ killed' \/ ~killed \/ stop' = "port"
           /\ \/ stop' = stop \/ stop' \in {"none", "port"}
              \/ StopPort \/ StopNat \/ StopTags \/ StopBatch \/ (stop = "link" /\ stop' = "done")
  <1>0. fails \in Nat /\ crashes \in Nat /\ MaxFails \in Nat
    BY RouterAssumption DEF Shape
  <1>1. ASSUME Refused \/ Done, UNCHANGED <<crashes, killed, stop>>
        PROVE  /\ fails' \in Nat /\ fails' >= fails /\ crashes' = crashes
               /\ killed' = killed /\ stop' = stop
    BY <1>0, <1>1 DEF Refused, Done
  <1>2. CASE Start \/ StopBegins \/ StopPort \/ StopNat \/ StopTags \/ StopBatch \/ StopLink
    BY <1>0, <1>2 DEF Start, StopBegins, StopPort, StopNat, StopTags, StopBatch, StopLink
  <1>3. CASE StartFails \/ Crash
    BY <1>3, KillStep
  <1>4. CASE ProbePort \/ InsertRefused \/ InputSelfHeal \/ ForwardSelfHeal
    <2>1. (Refused \/ Done) /\ UNCHANGED <<crashes, killed, stop>>
      BY <1>4 DEF ProbePort, InsertRefused, InputSelfHeal, ForwardSelfHeal, HealChain
    <2>. QED  BY <1>0, <1>1, <2>1
  <1>5. CASE AnnounceNAT \/ RemoveSource \/ AddSource \/ CloseNat \/ ClosePort \/ CloseTags
             \/ CloseBatch
    <2>1. (Refused \/ Done) /\ UNCHANGED <<crashes, killed, stop>>
      BY <1>5 DEF AnnounceNAT, RemoveSource, AddSource, CloseNat, ClosePort, CloseTags, CloseBatch
    <2>. QED  BY <1>0, <1>1, <2>1
  <1>6. CASE InsertPort \/ PortOpen \/ Setup \/ PassBegins \/ Forwarding \/ ForwardingReturns
             \/ EnsurePort \/ PortEnsured \/ SourcesRemoved \/ PassEnds
    BY <1>0, <1>6 DEF InsertPort, PortOpen, Setup, PassBegins, Forwarding, ForwardingReturns,
                      EnsurePort, PortEnsured, SourcesRemoved, PassEnds
  <1>7. CASE Signal \/ DeviceGone \/ CloseNatDone \/ ClosePortDone \/ CloseFwd \/ Wipe
             \/ OperatorAccepts \/ OtherForwards \/ UNCHANGED vars
    BY <1>0, <1>7 DEF Signal, DeviceGone, CloseBegins, CloseNatDone, ClosePortDone, CloseFwd, Wipe,
                      OperatorAccepts, OtherForwards, vars
  <1>. QED
    BY <1>2, <1>3, <1>4, <1>5, <1>6, <1>7 DEF Next, DaemonStep, StopStep

\* The accept for a family is about to be inserted only after a probe of it.
LEMMA InsertStep ==
    ASSUME Shape, [Next]_vars, pc' \in {"openInsert", "ensureInsert"}
    PROVE  ProbePort \/ UNCHANGED <<pc, todo>>
  <1>1. CASE StopBegins \/ StopStep \/ Wipe \/ OperatorAccepts \/ OtherForwards \/ UNCHANGED vars
    BY <1>1 DEF StopBegins, StopStep, StopPort, StopNat, StopTags, StopBatch, StopLink, Wipe,
                OperatorAccepts, OtherForwards, vars
  <1>2. ~(Start \/ StartFails \/ InsertPort \/ InsertRefused \/ PortOpen \/ Setup)
    BY DEF Start, StartFails, InsertPort, InsertRefused, PortOpen, Setup
  <1>3. ~(InputSelfHeal \/ ForwardSelfHeal \/ PassBegins \/ Forwarding \/ ForwardingReturns)
    BY DEF InputSelfHeal, ForwardSelfHeal, HealChain, PassBegins, Forwarding, ForwardingReturns
  <1>4. ~(AnnounceNAT \/ EnsurePort \/ PortEnsured \/ RemoveSource \/ SourcesRemoved \/ AddSource)
    BY DEF AnnounceNAT, EnsurePort, PortEnsured, RemoveSource, SourcesRemoved, AddSource
  <1>5. ~(PassEnds \/ Signal \/ DeviceGone \/ CloseNat \/ CloseNatDone \/ ClosePort)
    BY DEF PassEnds, Signal, DeviceGone, CloseBegins, CloseNat, CloseNatDone, ClosePort
  <1>6. ~(ClosePortDone \/ CloseTags \/ CloseBatch \/ CloseFwd \/ Crash)
    BY DEF ClosePortDone, CloseTags, CloseBatch, CloseFwd, Crash
  <1>. QED  BY <1>1, <1>2, <1>3, <1>4, <1>5, <1>6 DEF Next, DaemonStep

-----------------------------------------------------------------------------
(* The inductive invariant.                                                *)

LEMMA InitIInv == Init => IInv
  <1>. SUFFICES ASSUME Init PROVE IInv
    OBVIOUS
  <1>1. Shape
    <2>1. {fwd, base, dev} \subseteq BOOLEAN /\ {fwdSet, priorFwd, fwdWarned} \subseteq BOOLEAN
      BY Zenon DEF Init
    <2>2. crashes \in 0 .. MaxCrashes /\ fails \in 0 .. MaxFails /\ wipes \in 0 .. MaxWipes
      BY RouterAssumption DEF Init
    <2>3. port \in [Fam -> Nat] /\ nat \in [Key -> Nat]
      BY DEF Init
    <2>. QED  BY <2>1, <2>2, <2>3 DEF Init, Shape
  <1>2. Loops /\ Memory
    BY DEF Init, Loops, Memory, Starting, InAddSource
  <1>3. PortBound /\ NatBound
    BY DEF Init, PortBound, NatBound, Own, Tracked
  <1>. QED  BY <1>1, <1>2, <1>3 DEF IInv

LEMMA NextPortBound ==
    ASSUME IInv, Shape', Loops', [Next]_vars PROVE PortBound'
  <1>0. /\ \A f \in Fam : /\ port[f] \in Nat /\ port'[f] \in Nat
                          /\ Own(f) \in {0, 1} /\ Own(f)' \in {0, 1}
                          /\ port[f] <= Own(f) + 1 + fails
        /\ fails \in Nat /\ fails' \in Nat /\ fails' >= fails
    BY BudgetStep DEF IInv, Shape, Own, PortBound
  <1>1. \A f \in Fam : port'[f] <= Own(f)' + 1 + fails'
    <2>1. CASE PortKept
      BY <1>0, <2>1 DEF PortKept
    <2>2. CASE InsertPort
      <3>1. First(todo) \in Fam
        BY <2>2, FirstIn DEF InsertPort, IInv, Loops
      <3>2. /\ port' = [port EXCEPT ![First(todo)] = @ + 1] /\ oper' = oper
            /\ port[First(todo)] <= Own(First(todo)) + fails
        BY <2>2 DEF InsertPort, IInv, PortBound
      <3>3. port'[First(todo)] = port[First(todo)] + 1
            /\ \A f \in Fam \ {First(todo)} : port'[f] = port[f]
        BY <3>1, <3>2 DEF IInv, Shape
      <3>4. \A f \in Fam : Own(f)' = Own(f)
        BY <3>2 DEF Own
      <3>. QED  BY <1>0, <3>1, <3>2, <3>3, <3>4
    <2>. QED  BY <2>1, <2>2, PortStep DEF IInv
  <1>2. ASSUME pc' \in {"openInsert", "ensureInsert"}, NEW f \in Fam, f = First(todo)'
        PROVE  port'[f] <= Own(f)' + fails'
    <2>1. CASE ProbePort
      <3>1. todo' = todo /\ port' = port /\ oper' = oper
            /\ (port[First(todo)] = 0 \/ fails' = fails + 1)
        BY <1>2, <2>1 DEF ProbePort, Refused
      <3>2. f = First(todo) /\ Own(f)' = Own(f)
        BY <1>2, <3>1 DEF Own
      <3>. QED  BY <1>0, <3>1, <3>2
    <2>2. CASE UNCHANGED <<pc, todo>>
      <3>1. PortKept
        BY <1>2, <2>2, PortStep DEF InsertPort, IInv
      <3>2. f = First(todo)
        BY <1>2, <2>2
      <3>3. port[f] <= Own(f) + fails
        BY <1>2, <2>2, <3>2 DEF IInv, PortBound
      <3>. QED  BY <1>0, <3>1, <3>3 DEF PortKept
    <2>. QED  BY <1>2, <2>1, <2>2, InsertStep DEF IInv
  <1>3. pc' \in {"openInsert", "ensureInsert"} => First(todo)' \in Fam
    <2>1. pc' \in {"openInsert", "ensureInsert"} => todo' \in SUBSET Fam /\ todo' # {}
      BY DEF Loops
    <2>2. First(todo)' = First(todo')
      BY DEF First
    <2>. QED  BY <2>1, <2>2, FirstIn
  <1>4. (pc \in {"openInsert", "ensureInsert"} => port[First(todo)] <= Own(First(todo)) + fails)'
    BY <1>2, <1>3
  <1>. QED  BY <1>1, <1>4 DEF PortBound

LEMMA NextNatBound ==
    ASSUME IInv, Shape', [Next]_vars PROVE NatBound'
  <1>0. /\ \A k \in Key : /\ nat[k] \in Nat /\ nat'[k] \in Nat
                          /\ Tracked(k) \in {0, 1} /\ Tracked(k)' \in {0, 1}
                          /\ nat[k] <= Tracked(k) + crashes + fails
        /\ fails \in Nat /\ fails' \in Nat /\ fails' >= fails
        /\ crashes \in Nat /\ crashes' \in Nat /\ crashes' >= crashes
    BY BudgetStep DEF IInv, Shape, Tracked, NatBound
  <1>1. CASE NatKept
    BY <1>0, <1>1 DEF NatKept, NatBound
  <1>2. CASE NatLost
    <2>1. (\A k \in Key : nat'[k] <= nat[k]) /\ crashes' + fails' = crashes + fails + 1
      BY <1>2 DEF NatLost
    <2>2. ASSUME NEW k \in Key PROVE nat'[k] <= Tracked(k)' + crashes' + fails'
      <3>1. nat'[k] <= nat[k] /\ nat[k] <= 1 + crashes + fails
        BY <1>0, <2>1
      <3>2. Tracked(k)' \in Nat /\ nat[k] \in Nat /\ nat'[k] \in Nat
        BY <1>0
      <3>3. /\ fails \in Nat /\ fails' \in Nat /\ crashes \in Nat /\ crashes' \in Nat
            /\ crashes' + fails' = crashes + fails + 1
        BY <1>0, <2>1
      <3>4. nat'[k] <= crashes' + fails'
        BY <3>1, <3>2, <3>3
      <3>. QED  BY <3>2, <3>3, <3>4
    <2>. QED  BY <2>2 DEF NatBound
  <1>. QED  BY <1>1, <1>2, NatStep DEF IInv

LEMMA NextIInv == IInv /\ [Next]_vars => IInv'
  <1>. SUFFICES ASSUME IInv, [Next]_vars PROVE IInv'
    OBVIOUS
  <1>1. Shape' /\ Loops' /\ Memory'
    BY NextShape, NextLoops DEF IInv
  <1>2. PortBound' /\ NatBound'
    BY <1>1, NextPortBound, NextNatBound
  <1>. QED  BY <1>1, <1>2 DEF IInv

(***************************************************************************)
(* The types of the host and of the daemon's memory, with the bounds on    *)
(* the number of copies of a rule: however kills, refused commands, -stop, *)
(* wipes and the operator interleave, an accept exists at most twice and   *)
(* once more per refused command, a masquerade rule at most once and once  *)
(* more per kill and per refused command (router.go:336-358, 678-792).     *)
(***************************************************************************)
THEOREM RouterTypeOK == Spec => []TypeOK
  <1>1. IInv => TypeOK
    <2>. SUFFICES ASSUME IInv PROVE TypeOK
      OBVIOUS
    <2>0. /\ crashes \in Nat /\ crashes <= MaxCrashes /\ MaxCrashes \in Nat
          /\ fails \in Nat /\ fails <= MaxFails /\ MaxFails \in Nat
      BY RouterAssumption DEF IInv, Shape
    <2>1. port \in [Fam -> 0 .. 2 + MaxFails]
      <3>1. \A f \in Fam : Own(f) \in {0, 1} /\ port[f] \in Nat /\ port[f] <= Own(f) + 1 + fails
        BY DEF Own, IInv, Shape, PortBound
      <3>2. \A f \in Fam : port[f] \in 0 .. 2 + MaxFails
        BY <2>0, <3>1
      <3>. QED  BY <3>2 DEF IInv, Shape
    <2>2. nat \in [Key -> 0 .. 1 + MaxCrashes + MaxFails]
      <3>1. \A k \in Key : Tracked(k) \in {0, 1} /\ nat[k] \in Nat
                           /\ nat[k] <= Tracked(k) + crashes + fails
        BY DEF Tracked, IInv, Shape, NatBound
      <3>2. \A k \in Key : nat[k] \in 0 .. 1 + MaxCrashes + MaxFails
        BY <2>0, <3>1
      <3>. QED  BY <3>2 DEF IInv, Shape
    <2>. QED  BY <2>1, <2>2 DEF IInv, Shape, TypeOK
  <1>. QED  BY <1>1, InitIInv, NextIInv, PTL DEF Spec
-----------------------------------------------------------------------------
(* Nothing is left but what the present process holds.                     *)

\* A host that is clean after a step was clean before, or the step was the sweep.
LEMMA CleanBack ==
    ASSUME Shape, [Next]_vars
    PROVE  /\ Clean(AfterPort)' => Clean(AfterPort) \/ StopPort
           /\ Clean(AfterNat)' => Clean(AfterNat) \/ StopNat
           /\ Clean(AfterTags)' => Clean(AfterTags) \/ (StopBatch /\ Clean(Listing))
           /\ Clean(Listing)' /\ stop' = "batch" => (Clean(Listing) /\ stop = "batch") \/ StopTags
           /\ Clean({})' => Clean({})
           /\ \A swept \in {AfterPort, AfterNat, AfterTags, Listing, {}} :
                Clean(swept)' => fails' = 0 /\ fails = 0
  <1>1. /\ fails' = 0 => fails = 0
        /\ crashes' = 0 => crashes = 0
        /\ killed' \/ ~killed \/ stop' = "port"
        /\ \/ stop' = stop \/ stop' \in {"none", "port"}
           \/ StopPort \/ StopNat \/ StopTags \/ StopBatch \/ (stop = "link" /\ stop' = "done")
    BY BudgetStep
  <1>2. /\ StopPort => stop = "port" /\ stop' = "nat"
        /\ StopNat => stop = "nat" /\ stop' = "tags"
        /\ StopTags => stop = "tags" /\ stop' = "batch"
        /\ StopBatch => stop = "batch" /\ stop' = "link" /\ killed' = killed
    BY DEF StopPort, StopNat, StopTags, StopBatch
  <1>. QED  BY <1>1, <1>2 DEF Clean, AfterPort, AfterNat, AfterTags, Listing

\* A process that is killed, or gives up before it serves, leaves an unclean host.
LEMMA KillsUnclean ==
    ASSUME Shape, StartFails \/ Crash
    PROVE  \A swept \in {AfterPort, AfterNat, AfterTags, Listing, {}} : ~Clean(swept)'
  <1>1. killed' = TRUE
    BY KillStep
  <1>2. StartFails => fails' # 0
    BY RouterAssumption DEF StartFails, Refused, Shape
  <1>3. Crash => crashes' # 0
    BY RouterAssumption DEF Crash, Shape
  <1>. QED  BY <1>1, <1>2, <1>3 DEF Clean

\* Until Close has deleted it, or the process was killed, the accept stays held.
LEMMA HeldStep ==
    ASSUME Shape, [Next]_vars
    PROVE  ClosePort \/ StartFails \/ Crash \/ \A f \in Fam : Held(f) <= Held(f)'
  <1>0. \A f \in Fam : Held(f) \in {0, 1} /\ Held(f)' \in {0, 1}
    BY DEF Held
  <1>1. ASSUME pc \in {"down", "closeTags", "closeBatch", "closeFwd"}
               \/ (pc = "closePort" /\ todo = {})
               \/ (pc' = "closePort" /\ Fam \subseteq todo')
               \/ pc' \notin {"down", "closeTags", "closeBatch", "closeFwd", "closePort"}
               \/ UNCHANGED <<pc, todo>>
        PROVE  \A f \in Fam : Held(f) <= Held(f)'
    BY <1>0, <1>1 DEF Held
  <1>2. CASE StopBegins \/ StopStep \/ Wipe \/ OperatorAccepts \/ OtherForwards \/ UNCHANGED vars
    <2>1. UNCHANGED <<pc, todo>>
      BY <1>2 DEF StopBegins, StopStep, StopPort, StopNat, StopTags, StopBatch, StopLink, Wipe,
                  OperatorAccepts, OtherForwards, vars
    <2>. QED  BY <1>1, <2>1
  <1>3. CASE Start \/ ProbePort \/ InsertPort \/ InsertRefused \/ PortOpen \/ Setup
    <2>1. pc' \notin {"down", "closeTags", "closeBatch", "closeFwd", "closePort"}
      BY <1>3 DEF Start, ProbePort, InsertPort, InsertRefused, PortOpen, Setup
    <2>. QED  BY <1>1, <2>1
  <1>4. CASE InputSelfHeal \/ ForwardSelfHeal \/ PassBegins \/ Forwarding \/ ForwardingReturns
    <2>1. pc' \notin {"down", "closeTags", "closeBatch", "closeFwd", "closePort"}
      BY <1>4 DEF InputSelfHeal, ForwardSelfHeal, HealChain, PassBegins, Forwarding,
                  ForwardingReturns
    <2>. QED  BY <1>1, <2>1
  <1>5. CASE AnnounceNAT \/ EnsurePort \/ PortEnsured \/ RemoveSource \/ SourcesRemoved \/ AddSource
             \/ PassEnds \/ Signal \/ DeviceGone \/ CloseNat
    <2>1. pc' \notin {"down", "closeTags", "closeBatch", "closeFwd", "closePort"}
      BY <1>5 DEF AnnounceNAT, EnsurePort, PortEnsured, RemoveSource, SourcesRemoved, AddSource,
                  PassEnds, Signal, DeviceGone, CloseBegins, CloseNat
    <2>. QED  BY <1>1, <2>1
  <1>6. CASE CloseNatDone \/ ClosePortDone \/ CloseTags \/ CloseBatch \/ CloseFwd
    <2>1. \/ pc' = "closePort" /\ todo' = Fam
          \/ pc \in {"closeTags", "closeBatch", "closeFwd"} \/ (pc = "closePort" /\ todo = {})
      BY <1>6 DEF CloseNatDone, ClosePortDone, CloseTags, CloseBatch, CloseFwd
    <2>. QED  BY <1>1, <2>1
  <1>. QED  BY <1>2, <1>3, <1>4, <1>5, <1>6 DEF Next, DaemonStep

LEMMA NextPortClean ==
    ASSUME IInv, PortClean, Shape', [Next]_vars PROVE PortClean'
  <1>. SUFFICES ASSUME Clean(AfterPort)', NEW f \in Fam PROVE port'[f] <= Own(f)' + Held(f)'
    BY DEF PortClean
  <1>0. /\ port[f] \in Nat /\ port'[f] \in Nat
        /\ Own(f) \in {0, 1} /\ Own(f)' \in {0, 1} /\ Held(f) \in {0, 1} /\ Held(f)' \in {0, 1}
        /\ fails' = 0 /\ fails = 0
    BY CleanBack DEF IInv, Shape, Own, Held
  <1>1. CASE StopPort
    <2>1. port[f] <= Own(f) + 1
      BY <1>0 DEF IInv, PortBound
    <2>2. (port'[f] = 0 \/ port'[f] = port[f] - 1) /\ oper' = oper
      BY <1>0, <1>1 DEF StopPort
    <2>3. Own(f)' = Own(f)
      BY <2>2 DEF Own
    <2>. QED  BY <1>0, <2>1, <2>2, <2>3
  <1>2. CASE Clean(AfterPort)
    <2>0. port[f] <= Own(f) + Held(f)
      BY <1>2 DEF PortClean
    <2>1. CASE ClosePort
      <3>1. PICK g \in Fam : g = First(todo)
        BY <2>1, FirstIn DEF ClosePort, IInv, Loops
      <3>2. /\ todo' = todo \ {g} /\ delIPTRule(g) /\ oper' = oper
            /\ pc = "closePort" /\ pc' = pc
        <4>1. ~Refused
          BY <1>0 DEF Refused
        <4>. QED  BY <2>1, <3>1, <4>1 DEF ClosePort
      <3>3. CASE f = g
        <4>1. port'[f] = 0 \/ port'[f] = port[f] - 1
          BY <1>0, <3>2, <3>3 DEF delIPTRule, IInv, Shape
        <4>2. Own(f)' = Own(f)
          BY <3>2 DEF Own
        <4>. QED  BY <1>0, <2>0, <4>1, <4>2
      <3>4. CASE f # g
        <4>1. port'[f] = port[f]
          BY <3>1, <3>2, <3>4 DEF delIPTRule, IInv, Shape
        <4>2. Own(f)' = Own(f) /\ Held(f)' = Held(f)
          BY <3>2, <3>4 DEF Own, Held
        <4>. QED  BY <2>0, <4>1, <4>2
      <3>. QED  BY <3>3, <3>4
    <2>2. CASE InsertPort
      <3>1. PICK g \in Fam : g = First(todo)
        BY <2>2, FirstIn DEF InsertPort, IInv, Loops
      <3>2. /\ port' = [port EXCEPT ![g] = @ + 1] /\ oper' = oper
            /\ pc \in {"openInsert", "ensureInsert"} /\ pc' \in {"open", "ensure"}
        BY <2>2, <3>1 DEF InsertPort
      <3>3. Own(f)' = Own(f) /\ Held(f) = 1 /\ Held(f)' = 1
        BY <3>2 DEF Own, Held
      <3>4. f = g => port[f] <= Own(f)
        BY <1>0, <3>1, <3>2 DEF IInv, PortBound
      <3>5. port'[f] = IF f = g THEN port[f] + 1 ELSE port[f]
        BY <3>2 DEF IInv, Shape
      <3>. QED  BY <1>0, <2>0, <3>3, <3>4, <3>5
    <2>3. CASE PortKept /\ Held(f) <= Held(f)'
      <3>1. port'[f] = 0 \/ port'[f] + Own(f) <= port[f] + Own(f)'
        BY <2>3 DEF PortKept
      <3>. QED  BY <1>0, <2>0, <2>3, <3>1
    <2>4. ~StartFails /\ ~Crash
      BY KillsUnclean DEF IInv
    <2>. QED  BY <2>1, <2>2, <2>3, <2>4, HeldStep, PortStep DEF IInv
  <1>. QED  BY <1>1, <1>2, CleanBack DEF IInv
LEMMA NextNatClean ==
    ASSUME IInv, NatClean, Shape', [Next]_vars PROVE NatClean'
  <1>. SUFFICES ASSUME Clean(AfterNat)', NEW k \in Key PROVE nat'[k] <= Tracked(k)'
    BY DEF NatClean
  <1>0. /\ nat[k] \in Nat /\ nat'[k] \in Nat /\ Tracked(k) \in {0, 1} /\ Tracked(k)' \in {0, 1}
        /\ fails' = 0
    BY CleanBack DEF IInv, Shape, Tracked
  <1>1. CASE StopNat
    BY <1>0, <1>1 DEF StopNat
  <1>2. CASE Clean(AfterNat)
    <2>1. NatKept
      <3>1. ~NatLost
        <4>1. crashes' = 0 \/ ~killed'
          BY DEF Clean
        <4>2. crashes' \in Nat
          BY BudgetStep DEF IInv
        <4>. QED  BY <1>0, <4>1, <4>2 DEF NatLost
      <3>. QED  BY <3>1, NatStep DEF IInv
    <2>. QED  BY <1>0, <1>2, <2>1 DEF NatKept, NatClean
  <1>. QED  BY <1>1, <1>2, CleanBack DEF IInv

\* A batch of deletes that was refused for a missing rule is not forgotten.
LEMMA AbortedStays ==
    ASSUME [Next]_vars PROVE CloseBatch \/ StopBatch \/ aborted' = aborted
  <1>1. CASE Start \/ StartFails \/ ProbePort \/ InsertPort \/ InsertRefused \/ PortOpen \/ Setup
             \/ PassBegins \/ Forwarding \/ ForwardingReturns \/ InputSelfHeal \/ ForwardSelfHeal
    BY <1>1 DEF Start, StartFails, ProbePort, InsertPort, InsertRefused, PortOpen, Setup, PassBegins,
                Forwarding, ForwardingReturns, InputSelfHeal, ForwardSelfHeal, HealChain
  <1>2. CASE AnnounceNAT \/ EnsurePort \/ PortEnsured \/ RemoveSource \/ SourcesRemoved \/ AddSource
             \/ PassEnds
    BY <1>2 DEF AnnounceNAT, EnsurePort, PortEnsured, RemoveSource, SourcesRemoved, AddSource,
                PassEnds
  <1>3. CASE Signal \/ DeviceGone \/ CloseNat \/ CloseNatDone \/ ClosePort \/ ClosePortDone
             \/ CloseTags \/ CloseFwd
    BY <1>3 DEF Signal, DeviceGone, CloseBegins, CloseNat, CloseNatDone, ClosePort, ClosePortDone,
                CloseTags, CloseFwd
  <1>4. CASE StopBegins \/ StopPort \/ StopNat \/ StopTags \/ StopLink \/ Crash \/ Wipe
             \/ OperatorAccepts \/ OtherForwards \/ UNCHANGED vars
    BY <1>4 DEF StopBegins, StopPort, StopNat, StopTags, StopLink, Crash, Wipe,
                OperatorAccepts, OtherForwards, vars
  <1>. QED  BY <1>1, <1>2, <1>3, <1>4 DEF Next, DaemonStep, StopStep

\* What a step does to the tags, to the record of them and to the lists of them.
TagShrinks ==
    /\ tag' \subseteq tag /\ taggedChains' = taggedChains
    /\ found' = found \/ stop' # "batch"
    /\ (pc = "closeBatch" /\ chains' = chains) \/ pc' # "closeBatch"

TagTracked ==
    /\ tag' \ tag \subseteq taggedChains' /\ taggedChains \subseteq taggedChains'
    /\ found \subseteq found' /\ pc' # "closeBatch" /\ stop' = stop

LEMMA TagStep ==
    ASSUME Memory, [Next]_vars
    PROVE  \/ TagShrinks \/ TagTracked \/ StartFails \/ Crash
           \/ CloseTags \/ CloseBatch \/ StopTags \/ StopBatch
  <1>1. CASE InputSelfHeal \/ ForwardSelfHeal
    BY <1>1 DEF InputSelfHeal, ForwardSelfHeal, HealChain, TagTracked
  <1>2. CASE CloseFwd
    BY <1>2 DEF CloseFwd, Forget, Memory, TagShrinks
  <1>3. CASE Start \/ ProbePort \/ InsertPort \/ InsertRefused \/ PortOpen \/ Setup \/ PassBegins
             \/ Forwarding \/ ForwardingReturns
    BY <1>3 DEF Start, ProbePort, InsertPort, InsertRefused, PortOpen, Setup, PassBegins,
                Forwarding, ForwardingReturns, TagShrinks
  <1>4. CASE AnnounceNAT \/ EnsurePort \/ PortEnsured \/ RemoveSource \/ SourcesRemoved \/ AddSource
             \/ PassEnds
    BY <1>4 DEF AnnounceNAT, EnsurePort, PortEnsured, RemoveSource, SourcesRemoved, AddSource,
                PassEnds, TagShrinks
  <1>5. CASE Signal \/ DeviceGone \/ CloseNat \/ CloseNatDone \/ ClosePort \/ ClosePortDone
    BY <1>5 DEF Signal, DeviceGone, CloseBegins, CloseNat, CloseNatDone, ClosePort,
                ClosePortDone, TagShrinks
  <1>6. CASE StopBegins \/ StopPort \/ StopNat \/ StopLink \/ Wipe \/ OperatorAccepts
             \/ OtherForwards \/ UNCHANGED vars
    <2>1. tag' \subseteq tag /\ UNCHANGED <<taggedChains, found, pc, chains>>
      BY <1>6 DEF StopBegins, StopPort, StopNat, StopLink, Wipe, OperatorAccepts,
                  OtherForwards, vars
    <2>. QED  BY <2>1 DEF TagShrinks
  <1>. QED
    BY <1>1, <1>2, <1>3, <1>4, <1>5, <1>6 DEF Next, DaemonStep, StopStep

\* Chains gain our tag only together with the record of it, which goes with the
\* tag: in one batch, of the rules that Close or the sweep has listed.
LEMMA NextTagClean ==
    ASSUME IInv, TagClean, [Next]_vars PROVE TagClean'
  <1>0. \/ ~StartFails /\ ~Crash
        \/ ~Clean(AfterTags)' /\ ~Clean(Listing)'
    BY KillsUnclean DEF IInv
  <1>1. fails' = 0 => fails = 0 /\ ~Refused
    BY BudgetStep DEF IInv, Refused
  <1>2. ASSUME Clean(AfterTags)', ~aborted' PROVE tag' \subseteq taggedChains'
    <2>0. fails' = 0 /\ ~StartFails /\ ~Crash
      BY <1>0, <1>2 DEF Clean
    <2>1. CASE StopBatch /\ Clean(Listing)
      <3>1. stop = "batch" /\ ~aborted /\ tag' = tag \ found /\ taggedChains' = taggedChains
        BY <1>2, <2>1 DEF StopBatch
      <3>. QED  BY <2>1, <3>1 DEF TagClean
    <2>2. CASE Clean(AfterTags) /\ ~StopBatch
      <3>1. ~aborted => tag \subseteq taggedChains
        BY <2>2 DEF TagClean
      <3>2. CASE CloseBatch
        <4>1. pc = "closeBatch" /\ ~aborted /\ tag' = tag \ chains /\ taggedChains' = {}
          BY <1>1, <1>2, <2>0, <3>2 DEF CloseBatch
        <4>. QED  BY <1>1, <2>0, <3>1, <4>1 DEF TagClean
      <3>3. CASE ~CloseBatch
        <4>1. ~aborted
          BY <1>2, <2>2, <3>3, AbortedStays
        <4>2. CASE CloseTags \/ StopTags
          BY <3>1, <4>1, <4>2 DEF CloseTags, StopTags
        <4>3. CASE TagShrinks \/ TagTracked
          BY <3>1, <4>1, <4>3 DEF TagShrinks, TagTracked
        <4>. QED  BY <2>0, <2>2, <3>3, <4>2, <4>3, TagStep DEF IInv
      <3>. QED  BY <3>2, <3>3
    <2>3. CASE Clean(AfterTags) /\ StopBatch
      <3>1. Clean(Listing)
        BY <2>3 DEF Clean, AfterTags, StopBatch
      <3>. QED  BY <2>1, <2>3, <3>1
    <2>. QED  BY <1>2, <2>1, <2>2, <2>3, CleanBack DEF IInv
  <1>3. ASSUME Clean(Listing)', stop' = "batch", ~aborted'
        PROVE  tag' \subseteq taggedChains' \cup found'
    <2>0. fails' = 0 /\ ~StartFails /\ ~Crash
      BY <1>0, <1>3 DEF Clean
    <2>1. CASE StopTags
      BY <2>1 DEF StopTags
    <2>2. CASE Clean(Listing) /\ stop = "batch"
      <3>0. ~StopBatch /\ ~StopTags
        BY <1>3, <2>2 DEF StopBatch, StopTags
      <3>1. ~aborted => tag \subseteq taggedChains \cup found
        BY <2>2 DEF TagClean
      <3>2. CASE CloseBatch
        <4>1. /\ pc = "closeBatch" /\ ~aborted /\ tag' = tag \ chains /\ taggedChains' = {}
              /\ found' = found
          BY <1>1, <1>3, <2>0, <3>2 DEF CloseBatch
        <4>. QED  BY <1>1, <2>0, <3>1, <4>1 DEF TagClean
      <3>3. CASE ~CloseBatch
        <4>1. ~aborted
          BY <1>3, <3>0, <3>3, AbortedStays
        <4>2. CASE CloseTags
          BY <3>1, <4>1, <4>2 DEF CloseTags
        <4>3. CASE TagShrinks \/ TagTracked
          BY <1>3, <3>1, <4>1, <4>3 DEF TagShrinks, TagTracked
        <4>. QED  BY <2>0, <3>0, <3>3, <4>2, <4>3, TagStep DEF IInv
      <3>. QED  BY <3>2, <3>3
    <2>. QED  BY <1>3, <2>1, <2>2, CleanBack DEF IInv
  <1>4. ASSUME fails' = 0, pc' = "closeBatch" PROVE tag' \cap taggedChains' \subseteq chains'
    <2>1. CASE CloseTags
      BY <1>1, <1>4, <2>1 DEF CloseTags
    <2>2. CASE StopTags \/ StopBatch
      BY <1>1, <1>4, <2>2 DEF StopTags, StopBatch, TagClean
    <2>3. CASE TagShrinks \/ TagTracked
      BY <1>1, <1>4, <2>3 DEF TagShrinks, TagTracked, TagClean
    <2>. QED  BY <1>4, <2>1, <2>2, <2>3, TagStep DEF IInv, StartFails, Crash, CloseBatch
  <1>. QED  BY <1>2, <1>3, <1>4 DEF TagClean

LEMMA NextSourceServed ==
    ASSUME IInv, NatClean, SourceServed, NatClean', Shape', [Next]_vars PROVE SourceServed'
  <1>. SUFFICES ASSUME Clean({})', NEW s \in Spoke, nat'[s] > 0 PROVE s \in spokeSrc'
    BY DEF SourceServed
  <1>0. /\ nat[s] \in Nat /\ nat'[s] \in Nat /\ fails' = 0 /\ ~Refused /\ ~StartFails /\ ~Crash
        /\ nat[s] > 0 => s \in spokeSrc
    <2>1. nat[s] \in Nat /\ nat'[s] \in Nat
      BY DEF IInv, Shape, Key
    <2>2. fails' = 0 /\ fails = 0 /\ (nat[s] > 0 => s \in spokeSrc)
      BY CleanBack DEF SourceServed, IInv
    <2>3. ~StartFails /\ ~Crash
      BY KillsUnclean DEF IInv
    <2>. QED  BY <2>1, <2>2, <2>3 DEF Refused
  <1>1. CASE nat'[s] <= nat[s] /\ spokeSrc' = spokeSrc
    BY <1>0, <1>1
  <1>2. CASE AddSource
    <2>1. PICK r \in todo :
            \/ Insert(r) /\ spokeSrc' = spokeSrc \cup {r}
            \/ nat' = nat /\ spokeSrc \subseteq spokeSrc'
      BY <1>2 DEF AddSource
    <2>. QED  BY <1>0, <2>1 DEF Insert, IInv, Shape, Key
  <1>3. CASE RemoveSource
    <2>1. PICK r \in todo : Delete(r) /\ spokeSrc' = spokeSrc \ {r}
      BY <1>0, <1>3 DEF RemoveSource
    <2>2. r = s => nat'[s] = 0
      <3>1. nat[s] <= 1
        <4>1. Clean(AfterNat)
          BY CleanBack DEF Clean, IInv
        <4>2. nat[s] <= Tracked(s) /\ Tracked(s) \in {0, 1}
          BY <4>1 DEF NatClean, Key, Tracked
        <4>. QED  BY <1>0, <4>2
      <3>. QED  BY <1>0, <2>1, <3>1 DEF Delete, IInv, Shape, Key
    <2>3. r # s => nat'[s] = nat[s]
      BY <2>1 DEF Delete, IInv, Shape, Key
    <2>. QED  BY <1>0, <2>1, <2>2, <2>3
  <1>4. CASE AnnounceNAT
    <2>1. PICK k \in todo : Insert(k) \/ nat' = nat
      BY <1>4 DEF AnnounceNAT
    <2>2. k \in Subnet /\ spokeSrc' = spokeSrc
      BY <1>4 DEF AnnounceNAT, IInv, Loops, Shape
    <2>3. nat'[s] = nat[s]
      BY <2>1, <2>2, RouterAssumption DEF Insert, IInv, Shape, Key
    <2>. QED  BY <1>0, <2>2, <2>3
  <1>5. CASE CloseNat
    <2>1. \E k \in todo : Delete(k) \/ nat' = nat
      BY <1>5 DEF CloseNat
    <2>2. nat'[s] <= nat[s]
      BY <1>0, <2>1 DEF Delete, IInv, Shape, Key
    <2>. QED  BY <1>1, <1>5, <2>2 DEF CloseNat
  <1>6. CASE CloseFwd
    <2>1. Clean(AfterNat)' /\ added' = {} /\ announceNAT' = {}
      BY <1>6 DEF Clean, CloseFwd, Forget
    <2>2. Tracked(s)' = 0 /\ nat'[s] <= Tracked(s)'
      BY <2>1 DEF NatClean, Tracked, Key
    <2>. QED  BY <1>0, <2>2
  <1>7. CASE Start \/ ProbePort \/ InsertPort \/ InsertRefused \/ PortOpen \/ Setup \/ PassBegins
             \/ Forwarding \/ ForwardingReturns \/ InputSelfHeal \/ ForwardSelfHeal
    <2>1. UNCHANGED <<nat, spokeSrc>>
      BY <1>7 DEF Start, ProbePort, InsertPort, InsertRefused, PortOpen, Setup, PassBegins,
                  Forwarding, ForwardingReturns, InputSelfHeal, ForwardSelfHeal, HealChain
    <2>. QED  BY <1>0, <2>1
  <1>8. CASE EnsurePort \/ PortEnsured \/ SourcesRemoved \/ PassEnds \/ Signal \/ DeviceGone
             \/ CloseNatDone \/ ClosePort \/ ClosePortDone \/ CloseTags \/ CloseBatch
    <2>1. UNCHANGED <<nat, spokeSrc>>
      BY <1>8 DEF EnsurePort, PortEnsured, SourcesRemoved, PassEnds, Signal, DeviceGone,
                  CloseBegins, CloseNatDone, ClosePort, ClosePortDone, CloseTags, CloseBatch
    <2>. QED  BY <1>0, <2>1
  <1>9. CASE StopBegins \/ StopStep \/ Wipe \/ OperatorAccepts \/ OtherForwards \/ UNCHANGED vars
    <2>1. spokeSrc' = spokeSrc /\ (nat' = nat \/ nat'[s] = 0)
      BY <1>9 DEF StopBegins, StopStep, StopPort, StopNat, StopTags, StopBatch, StopLink, Wipe,
                  OperatorAccepts, OtherForwards, vars, Key
    <2>. QED  BY <1>0, <2>1
  <1>. QED
    BY <1>0, <1>2, <1>3, <1>4, <1>5, <1>6, <1>7, <1>8, <1>9 DEF Next, DaemonStep

LEMMA RouterInv == Spec => [](IInv /\ CInv)
  <1>1. Init => CInv
    BY DEF Init, CInv, PortClean, NatClean, TagClean, SourceServed, Own, Held, Tracked, Key
  <1>2. IInv /\ CInv /\ [Next]_vars => CInv'
    <2>. SUFFICES ASSUME IInv, CInv, [Next]_vars PROVE CInv'
      OBVIOUS
    <2>1. Shape'
      BY NextIInv DEF IInv
    <2>2. PortClean' /\ NatClean' /\ TagClean'
      BY <2>1, NextPortClean, NextNatClean, NextTagClean DEF CInv
    <2>3. SourceServed'
      BY <2>1, <2>2, NextSourceServed DEF CInv
    <2>. QED  BY <2>2, <2>3 DEF CInv
  <1>. QED  BY <1>1, <1>2, InitIInv, NextIInv, PTL DEF Spec

\* A process that is through with Close, or gone, holds nothing.
LEMMA NothingHeld ==
    ASSUME IInv, CInv, pc \in {"down", "closeFwd"}, ~aborted,
           Clean(AfterPort), Clean(AfterNat), Clean(AfterTags)
    PROVE  NoRules
  <1>1. \A f \in Fam : port[f] <= IF f \in oper THEN 1 ELSE 0
    <2>1. \A f \in Fam : port[f] \in Nat /\ port[f] <= Own(f) + Held(f) /\ Held(f) = 0
      BY DEF CInv, PortClean, IInv, Shape, Held
    <2>. QED  BY <2>1 DEF Own
  <1>2. \A k \in Key : nat[k] = 0
    <2>1. \A k \in Key : nat[k] \in Nat /\ nat[k] <= Tracked(k) /\ Tracked(k) = 0
      BY DEF CInv, NatClean, IInv, Shape, Memory, Tracked
    <2>. QED  BY <2>1
  <1>3. tag = {}
    BY DEF CInv, TagClean, IInv, Memory
  <1>. QED  BY <1>1, <1>2, <1>3 DEF NoRules

(***************************************************************************)
(* For any number of kills, restarts, refused commands and wipes: once     *)
(* -stop is through and the daemon has gone by Close or before -stop       *)
(* began, no rule is left unless a command was refused or a batch of nft   *)
(* deletes failed for a rule that had gone.  After each sweep only what    *)
(* the daemon of the moment holds can be there, and it lets go of nothing  *)
(* in Close without deleting it (router.go:608-676, 794-845).              *)
(***************************************************************************)
THEOREM StopSweepsAll == Spec => []StopLeavesNothing
  <1>1. ASSUME IInv, CInv PROVE StopLeavesNothing
    <2>. SUFFICES ASSUME stop = "done", pc = "down", ~killed, fails = 0, ~aborted
                  PROVE  NoRules
      BY DEF StopLeavesNothing
    <2>1. Clean(AfterPort) /\ Clean(AfterNat) /\ Clean(AfterTags)
      BY DEF Clean, AfterPort, AfterNat, AfterTags
    <2>. QED  BY <1>1, <2>1, NothingHeld
  <1>. QED  BY <1>1, RouterInv, PTL

\* No kills and no refused commands.
NoFaults == MaxCrashes = 0 /\ MaxFails = 0

LEMMA FaultFree ==
    ASSUME NoFaults, Shape
    PROVE  fails = 0 /\ \A swept : Clean(swept)
  <1>1. fails = 0 /\ crashes = 0
    BY DEF NoFaults, Shape
  <1>. QED  BY <1>1 DEF Clean

(***************************************************************************)
(* "Everything added is tracked and removed on Close" (router.go:39): with *)
(* no kill and no refused command, and whatever -stop, wipes and the       *)
(* operator do in the meantime, Close leaves no rule of ours, unless they  *)
(* took one from under a batch of nft deletes.                             *)
(***************************************************************************)
THEOREM CloseRemovesAll == ASSUME NoFaults PROVE Spec => CloseLeavesNothing
  <1>1. ASSUME IInv, CInv, CloseFwd, ~aborted PROVE NoRules'
    <2>1. NoRules
      <3>1. pc = "closeFwd"
        BY <1>1 DEF CloseFwd
      <3>2. Clean(AfterPort) /\ Clean(AfterNat) /\ Clean(AfterTags)
        BY <1>1, FaultFree DEF IInv
      <3>. QED  BY <1>1, <3>1, <3>2, NothingHeld
    <2>2. UNCHANGED <<port, nat, tag, oper>>
      BY <1>1 DEF CloseFwd
    <2>. QED  BY <2>1, <2>2 DEF NoRules
  <1>2. IInv /\ CInv /\ [Next]_vars => [CloseFwd /\ ~aborted => NoRules']_vars
    BY <1>1
  <1>. QED  BY <1>2, RouterInv, PTL DEF Spec, CloseLeavesNothing

(***************************************************************************)
(* syncNat leaves every masquerade rule in step with the list it read, for *)
(* any number of spokes and subnets, with no kill and no refused command   *)
(* (daemon.go:363-406).                                                    *)
(***************************************************************************)
THEOREM NatFollowsList == ASSUME NoFaults PROVE Spec => []NatInStep
  <1>1. ASSUME IInv, CInv PROVE NatInStep
    <2>. SUFFICES ASSUME pc = "idle", NEW k \in Key, nat[k] > 0
                  PROVE  nat[k] = 1 /\ k \in (spokes \cap added) \cup announceNAT
      BY DEF NatInStep
    <2>1. Clean(AfterNat) /\ Clean({})
      BY <1>1, FaultFree DEF IInv
    <2>2. nat[k] \in Nat /\ nat[k] <= Tracked(k)
      BY <1>1, <2>1 DEF CInv, NatClean, IInv, Shape
    <2>3. nat[k] = 1 /\ k \in added \cup announceNAT
      BY <2>2 DEF Tracked
    <2>4. k \in added => k \in spokes
      <3>1. added \subseteq Spoke /\ spokeSrc \subseteq spokes
        BY <1>1 DEF IInv, Shape, Loops
      <3>2. k \in Spoke => k \in spokeSrc
        BY <1>1, <2>1 DEF CInv, SourceServed
      <3>. QED  BY <3>1, <3>2
    <2>. QED  BY <2>3, <2>4
  <1>. QED  BY <1>1, RouterInv, PTL

(***************************************************************************)
(* A masquerade rule leaves the daemon's books only with the delete that   *)
(* takes a copy of it out, or with the process, for any kills, refused     *)
(* commands, wipes and sweeps (router.go:729-792, daemon.go:384-395).      *)
(***************************************************************************)
THEOREM BooksKeepRules == Spec => RefusedStaysTracked
  <1>1. ASSUME IInv, [Next]_vars, NEW k \in added \cup announceNAT,
               pc' \notin {"closePort", "down"}
        PROVE  nat'[k] < nat[k] \/ k \in added' \cup announceNAT'
    <2>1. CASE added \subseteq added' /\ announceNAT \subseteq announceNAT'
      BY <2>1
    <2>2. CASE RemoveSource
      <3>1. PICK s \in todo :
              \/ Delete(s) /\ added' = IF nat[s] > 0 THEN added \ {s} ELSE added
              \/ added' = added
        BY <2>2 DEF RemoveSource
      <3>2. announceNAT' = announceNAT /\ k \in Key /\ nat[k] \in Nat
        BY <1>1, <2>2 DEF RemoveSource, IInv, Shape, Key
      <3>3. CASE Delete(s) /\ nat[s] > 0 /\ added' = added \ {s}
        <4>1. k = s => nat'[k] = nat[k] - 1
          BY <1>1, <3>2, <3>3 DEF Delete, IInv, Shape
        <4>. QED  BY <3>2, <3>3, <4>1
      <3>4. CASE added' = added
        BY <3>2, <3>4
      <3>. QED  BY <3>1, <3>3, <3>4
    <2>3. ~(StartFails \/ Crash \/ CloseNatDone \/ CloseFwd)
      BY <1>1 DEF StartFails, Crash, CloseNatDone, CloseFwd
    <2>4. CASE Start \/ ProbePort \/ InsertPort \/ InsertRefused \/ PortOpen \/ Setup \/ PassBegins
               \/ Forwarding \/ ForwardingReturns \/ InputSelfHeal \/ ForwardSelfHeal
      BY <2>1, <2>4 DEF Start, ProbePort, InsertPort, InsertRefused, PortOpen, Setup, PassBegins,
                        Forwarding, ForwardingReturns, InputSelfHeal, ForwardSelfHeal, HealChain
    <2>5. CASE AnnounceNAT \/ EnsurePort \/ PortEnsured \/ SourcesRemoved \/ AddSource \/ PassEnds
      BY <2>1, <2>5 DEF AnnounceNAT, EnsurePort, PortEnsured, SourcesRemoved, AddSource, PassEnds
    <2>6. CASE Signal \/ DeviceGone \/ CloseNat \/ ClosePort \/ ClosePortDone \/ CloseTags
               \/ CloseBatch
      BY <2>1, <2>6 DEF Signal, DeviceGone, CloseBegins, CloseNat, ClosePort, ClosePortDone,
                        CloseTags, CloseBatch
    <2>7. CASE StopBegins \/ StopStep \/ Wipe \/ OperatorAccepts \/ OtherForwards \/ UNCHANGED vars
      BY <2>1, <2>7 DEF StopBegins, StopStep, StopPort, StopNat, StopTags, StopBatch, StopLink, Wipe,
                        OperatorAccepts, OtherForwards, vars
    <2>. QED  BY <1>1, <2>2, <2>3, <2>4, <2>5, <2>6, <2>7 DEF Next, DaemonStep
  <1>2. IInv /\ [Next]_vars
            => [\A k \in added \cup announceNAT :
                    nat'[k] < nat[k] \/ nat'[k] = 0 \/ k \in added' \cup announceNAT'
                                    \/ pc' \in {"closePort", "down"}]_vars
    BY <1>1
  <1>. QED  BY <1>2, RouterInv, PTL DEF Spec, RefusedStaysTracked

-----------------------------------------------------------------------------
(* Forwarding.                                                             *)

\* No kills, and nobody else turns forwarding on.
Undisturbed == MaxCrashes = 0 /\ ~OthersForward

LEMMA NextFwdInv ==
    ASSUME Undisturbed, IInv, FwdInv, [Next]_vars PROVE FwdInv'
  <1>0. /\ fwd \in BOOLEAN /\ base \in BOOLEAN /\ priorFwd \in BOOLEAN /\ fwdSet \in BOOLEAN
        /\ ReadOnly \in BOOLEAN /\ ~Crash /\ ~OtherForwards
    <2>1. ~Crash /\ ~OtherForwards
      BY DEF Undisturbed, Crash, OtherForwards, IInv, Shape
    <2>. QED  BY <2>1, RouterAssumption DEF IInv, Shape
  <1>1. CASE UNCHANGED <<fwd, base, priorFwd, fwdSet>> /\ (pc = "down" => pc' = "down")
    BY <1>1 DEF FwdInv
  <1>2. CASE Start
    <2>1. pc = "down" /\ ~fwdSet /\ UNCHANGED <<fwd, base, fwdSet>> /\ priorFwd' = fwd
      BY <1>2 DEF Start, IInv, Memory
    <2>. QED  BY <2>1 DEF FwdInv
  <1>3. CASE StartFails
    <2>1. ~fwdSet /\ fwdSet' = FALSE /\ pc' = "down" /\ UNCHANGED <<fwd, base>>
      BY <1>3 DEF StartFails, Forget, IInv, Memory
    <2>. QED  BY <2>1 DEF FwdInv
  <1>4. CASE Forwarding
    <2>1. /\ fwd' = TRUE /\ fwdSet' = TRUE /\ UNCHANGED <<base, priorFwd>>
          /\ fwd \/ ~ReadOnly
          /\ pc # "down" /\ pc' # "down" /\ ~fwdSet
      BY <1>4 DEF Forwarding, CanForward
    <2>2. pc' # "down" => priorFwd' = base'
      BY <2>1 DEF FwdInv
    <2>3. ~fwdSet' \/ ReadOnly => fwd' = base'
      BY <1>0, <2>1 DEF FwdInv
    <2>. QED  BY <2>2, <2>3 DEF FwdInv
  <1>5. CASE CloseFwd
    <2>1. /\ fwd' = IF fwdSet /\ ~ReadOnly THEN priorFwd ELSE fwd
          /\ base' = base /\ pc = "closeFwd" /\ pc' = "down"
      BY <1>5 DEF CloseFwd
    <2>. QED  BY <2>1 DEF FwdInv
  <1>6. CASE ProbePort \/ InsertPort \/ InsertRefused \/ PortOpen \/ Setup \/ PassBegins
             \/ ForwardingReturns \/ InputSelfHeal \/ ForwardSelfHeal
    BY <1>1, <1>6 DEF ProbePort, InsertPort, InsertRefused, PortOpen, Setup, PassBegins,
                      ForwardingReturns, InputSelfHeal, ForwardSelfHeal, HealChain
  <1>7. CASE AnnounceNAT \/ EnsurePort \/ PortEnsured \/ RemoveSource \/ SourcesRemoved \/ AddSource
             \/ PassEnds
    BY <1>1, <1>7 DEF AnnounceNAT, EnsurePort, PortEnsured, RemoveSource, SourcesRemoved,
                      AddSource, PassEnds
  <1>8. CASE Signal \/ DeviceGone \/ CloseNat \/ CloseNatDone \/ ClosePort \/ ClosePortDone
             \/ CloseTags \/ CloseBatch
    BY <1>1, <1>8 DEF Signal, DeviceGone, CloseBegins, CloseNat, CloseNatDone, ClosePort,
                      ClosePortDone, CloseTags, CloseBatch
  <1>9. CASE StopBegins \/ StopStep \/ Wipe \/ OperatorAccepts \/ UNCHANGED vars
    BY <1>1, <1>9 DEF StopBegins, StopStep, StopPort, StopNat, StopTags, StopBatch, StopLink, Wipe,
                      OperatorAccepts, vars
  <1>. QED
    BY <1>0, <1>2, <1>3, <1>4, <1>5, <1>6, <1>7, <1>8, <1>9 DEF Next, DaemonStep

(***************************************************************************)
(* Close gives ip_forward back the value it would have without meshd, with *)
(* refused commands, wipes and -stop in between, unless a daemon was       *)
(* killed or other software turned it on (router.go:360-391, 839-845).     *)
(***************************************************************************)
THEOREM CloseRestoresForwarding == ASSUME Undisturbed PROVE Spec => ForwardingRestored
  <1>1. Init => FwdInv
    BY DEF Init, FwdInv
  <1>2. IInv /\ FwdInv /\ [Next]_vars => FwdInv'
    BY NextFwdInv
  <1>3. Spec => [](IInv /\ FwdInv)
    BY <1>1, <1>2, InitIInv, NextIInv, PTL DEF Spec
  <1>4. ASSUME FwdInv, CloseFwd PROVE fwd' = base
    <2>1. /\ fwd' = IF fwdSet /\ ~ReadOnly THEN priorFwd ELSE fwd
          /\ pc = "closeFwd"
      BY <1>4 DEF CloseFwd
    <2>. QED  BY <1>4, <2>1 DEF FwdInv
  <1>5. FwdInv /\ [Next]_vars => [CloseFwd => fwd' = base]_vars
    BY <1>4
  <1>. QED  BY <1>3, <1>5, PTL DEF Spec, ForwardingRestored
=============================================================================
