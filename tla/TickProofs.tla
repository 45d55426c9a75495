----------------------------- MODULE TickProofs -----------------------------
(***************************************************************************)
(* Proofs about Tick, for every set of peers, spokes, endpoints, dial      *)
(* orders and subnets.                                                     *)
(***************************************************************************)
EXTENDS Tick, WellFoundedInduction, TLAPS

Plan == [in: BOOLEAN, ord: Seq(Addr), win: End, des: End, fresh: BOOLEAN, adv: SUBSET Subnet]

Racing == pc \in {"race", "wait", "won", "routes", "nat"}

(***************************************************************************)
(* What the properties rest on: only peers are dialed; a plan sampled as   *)
(* fresh carries no endpoint from the first Apply on; while a dial is      *)
(* awaited, the peer it went to is a peer that was not fresh, and once the *)
(* device reports a handshake its endpoint is one it was heard from; a     *)
(* handshake that a poll saw is forgotten only with the interface.         *)
(***************************************************************************)
Awaiting == pc \in {"wait", "won"}

OnlyPeersDialed == \A p \in Name : plan[p].ord # <<>> => p \in Peer

FreshHasNoEndpoint == Racing => \A p \in Name : plan[p].fresh => plan[p].des = NoAddr

StalePeerAwaited ==
    Awaiting => \E p \in Peer : Current(p) /\ ~plan[p].fresh /\ cand \in 1 .. Len(plan[p].ord)

HeardWhenShook ==
    Awaiting /\ shook => \A p \in Name : Current(p) => seen[p] /\ ep[p] \in Addr

WonWasShook == pc = "won" /\ dev = "up" => shook

IInv ==
    /\ TypeOK
    /\ Converged
    /\ OnlyPeersDialed
    /\ FreshHasNoEndpoint
    /\ StalePeerAwaited
    /\ HeardWhenShook
    /\ WonWasShook

-----------------------------------------------------------------------------
(* Lemmas.                                                                 *)

\* A peer's position is its index in Order.
LEMMA PosPeer ==
    ASSUME NEW p \in Peer
    PROVE  Pos(p) \in 1 .. Len(Order) /\ Order[Pos(p)] = p
  <1>1. \E i \in 1 .. Len(Order) : Order[i] = p
    BY TickAssumption
  <1>. QED  BY <1>1 DEF Pos

\* While a peer is current, nobody else is.
LEMMA CurrentUnique ==
    ASSUME NEW p \in Peer, Current(p), NEW q \in Name, Current(q)
    PROVE  q = p
  <1>1. Len(Order) \in Nat
    BY TickAssumption
  <1>2. Pos(p) \in 1 .. Len(Order) /\ Order[Pos(p)] = p
    BY PosPeer
  <1>3. Pos(p) <= Pos(q) /\ Pos(q) <= Pos(p)
    BY DEF Current
  <1>4. CASE q \in Peer
    <2>1. Pos(q) \in 1 .. Len(Order) /\ Order[Pos(q)] = q
      BY <1>4, PosPeer
    <2>. QED  BY <1>2, <1>3, <2>1
  <1>5. CASE q \notin Peer
    <2>1. Pos(q) = Len(Order) + 1
      BY <1>5 DEF Pos
    <2>. QED  BY <1>1, <1>2, <1>3, <2>1
  <1>. QED  BY <1>4, <1>5

\* orderedFor yields a list of endpoints.
LEMMA OrderedForType ==
    ASSUME TypeOK, NEW p \in Peer
    PROVE  OrderedFor(p) \in Seq(Addr)
  <1>1. pub[p].dial \in Seq(Addr) /\ ep[p] \in End
    BY TickAssumption DEF TypeOK, Name
  <1>2. ep[p] # NoAddr => <<ep[p]>> \in Seq(Addr)
    BY <1>1 DEF End
  <1>. QED  BY <1>1, <1>2 DEF OrderedFor

\* buildPlans yields plans.
LEMMA PlanForType ==
    ASSUME TypeOK, NEW p \in Name, NEW view \in SUBSET listed, NEW spk \in SUBSET Spoke
    PROVE  /\ PlanFor(p, view, spk) \in Plan
           /\ PlanFor(p, view, spk).ord # <<>> => p \in Peer
  <1>1. CASE p \in view
    <2>1. p \in Peer /\ pub[p].adv \in SUBSET Subnet /\ lastGood[p] \in End
      BY <1>1 DEF TypeOK, Name
    <2>. QED  BY <1>1, <2>1, OrderedForType DEF PlanFor, Plan, End
  <1>2. CASE p \notin view
    BY <1>2 DEF PlanFor, BarePlan, Plan, End
  <1>. QED  BY <1>1, <1>2

\* pickInitial yields an endpoint or nil, and nil for a fresh plan.
LEMMA InitialDesireType ==
    ASSUME TypeOK, NEW p \in Name
    PROVE  InitialDesire(p) \in End /\ (plan[p].fresh => InitialDesire(p) = NoAddr)
  <1>1. plan[p] \in Plan
    BY DEF TypeOK, Plan
  <1>2. plan[p].ord # <<>> => plan[p].ord[1] \in Addr
    BY <1>1 DEF Plan
  <1>. QED  BY <1>1, <1>2 DEF InitialDesire, PickInitial, Plan, End

\* Apply on a live interface leaves the kernel well typed, with the wanted
\* peers, and does not touch the endpoint of one wanted with none.
LEMMA ConfigureType ==
    ASSUME TypeOK, NEW want \in SUBSET Name, NEW des \in [Name -> End], Configure(want, des)
    PROVE  /\ kpeers' = want /\ dev' = dev
           /\ kpeers' \subseteq Name
           /\ ep' \in [Name -> End]
           /\ seen' \in [Name -> BOOLEAN]
           /\ hs' \in [Name -> {"never", "live", "stale"}]
           /\ owner' \in [Subnet -> Name \cup {NoAddr}]
           /\ kroutes' \subseteq Subnet
           /\ \A p \in want : des[p] = NoAddr => ep'[p] = ep[p]
  <1>1. \A s \in Subnet : OwnerAfter(s, want) \in Name \cup {NoAddr}
    <2>. SUFFICES ASSUME NEW s \in Subnet PROVE OwnerAfter(s, want) \in Name \cup {NoAddr}
      OBVIOUS
    <2>. DEFINE claims == {p \in want : s \in plan[p].adv}
    <2>. DEFINE last == {p \in claims : \A q \in claims : Pos(q) <= Pos(p)}
    <2>1. CASE last = {}
      BY <2>1 DEF OwnerAfter, TypeOK
    <2>2. CASE last # {}
      <3>1. (CHOOSE p \in last : TRUE) \in last
        BY <2>2
      <3>2. last \subseteq Name
        OBVIOUS
      <3>3. OwnerAfter(s, want) = CHOOSE p \in last : TRUE
        BY <2>2 DEF OwnerAfter
      <3>. QED  BY <3>1, <3>2, <3>3
    <2>. QED  BY <2>1, <2>2
  <1>. QED  BY <1>1 DEF Configure, TypeOK, End

\* The plan of nobody is a plan.
LEMMA NoPlanType == NoPlan \in Plan /\ NoPlan.ord = <<>>
  BY DEF NoPlan, BarePlan, Plan, End

\* A step that is over with the pass leaves no plan behind.
LEMMA PassEndsType ==
    ASSUME PassEnds
    PROVE  /\ plan' \in [Name -> Plan]
           /\ \A p \in Name : plan'[p].ord = <<>>
           /\ todo' \subseteq Name /\ cand' \in Nat /\ shook' \in BOOLEAN
  BY NoPlanType DEF PassEnds

\* Deleting the link leaves an empty, well-typed interface.
LEMMA LinkDelType ==
    ASSUME LinkDel
    PROVE  /\ dev' \in {"up", "gone"} /\ kpeers' \subseteq Name
           /\ ep' \in [Name -> End] /\ seen' \in [Name -> BOOLEAN]
           /\ hs' \in [Name -> {"never", "live", "stale"}]
           /\ owner' \in [Subnet -> Name \cup {NoAddr}] /\ kroutes' \subseteq Subnet
  BY DEF LinkDel, End

-----------------------------------------------------------------------------
(* The invariant.                                                          *)

LEMMA InitIInv == Init => IInv
  <1>. SUFFICES ASSUME Init PROVE IInv
    OBVIOUS
  <1>1. TypeOK
    <2>1. plan \in [Name -> Plan]
      BY NoPlanType DEF Init
    <2>. QED  BY <2>1 DEF Init, TypeOK, Plan, End
  <1>2. OnlyPeersDialed
    BY NoPlanType DEF Init, OnlyPeersDialed
  <1>. QED
    BY <1>1, <1>2 DEF Init, IInv, Converged, FreshHasNoEndpoint, StalePeerAwaited,
                      HeardWhenShook, WonWasShook, Awaiting, Racing

USE DEF rosterVars, kernelVars, passVars, daemonVars

LEMMA TypeStep == IInv /\ [Next]_vars => TypeOK'
  <1>. SUFFICES ASSUME IInv, [Next]_vars PROVE TypeOK'
    OBVIOUS
  <1>0. TypeOK
    BY DEF IInv
  <1>1. CASE BuildPlans
    <2>1. PICK view \in SUBSET listed, spk \in SUBSET Spoke :
             plan' = [p \in Name |-> PlanFor(p, view, spk)]
      BY <1>1 DEF BuildPlans
    <2>2. plan' \in [Name -> Plan]
      BY <1>0, <2>1, PlanForType
    <2>. QED  BY <1>0, <1>1, <2>2 DEF BuildPlans, TypeOK, Plan
  <1>2. CASE SampleFresh
    <2>1. \A p \in Name : [plan[p] EXCEPT !.fresh = plan[p].in /\ hs[p] = "live"] \in Plan
      BY <1>0 DEF TypeOK, Plan
    <2>2. plan' \in [Name -> Plan]
      BY <1>2, <2>1 DEF SampleFresh
    <2>. QED  BY <1>0, <1>2, <2>2 DEF SampleFresh, TypeOK, Plan
  <1>3. CASE ApplyInitial
    <2>1. \A p \in Name : InitialDesire(p) \in End
      BY <1>0, InitialDesireType
    <2>2. \A p \in Name : [plan[p] EXCEPT !.des = InitialDesire(p)] \in Plan
      BY <1>0, <2>1 DEF TypeOK, Plan
    <2>3. plan' \in [Name -> Plan]
      BY <1>3, <2>2 DEF ApplyInitial
    <2>4. Configure(Planned, [p \in Name |-> InitialDesire(p)])
      BY <1>3 DEF ApplyInitial
    <2>5. Planned \in SUBSET Name /\ [p \in Name |-> InitialDesire(p)] \in [Name -> End]
      BY <2>1 DEF Planned
    <2>6. /\ dev' = dev
          /\ kpeers' \subseteq Name
          /\ ep' \in [Name -> End]
          /\ seen' \in [Name -> BOOLEAN]
          /\ hs' \in [Name -> {"never", "live", "stale"}]
          /\ owner' \in [Subnet -> Name \cup {NoAddr}]
          /\ kroutes' \subseteq Subnet
      BY <1>0, <2>4, <2>5, ConfigureType
    <2>. QED  BY <1>0, <1>3, <2>3, <2>5, <2>6 DEF ApplyInitial, TypeOK, Plan
  <1>4. CASE ApplyGone \/ ApplyFails \/ SyncNat
    <2>1. PassEnds /\ pc' \in {"stopped", "idle"}
          /\ UNCHANGED <<rosterVars, kernelVars, lastGood, routes>>
      BY <1>4 DEF ApplyGone, ApplyFails, SyncNat
    <2>. QED  BY <1>0, <2>1, PassEndsType DEF TypeOK, Plan
  <1>5. ASSUME NEW p \in Name, Adopt(p) PROVE TypeOK'
    <2>1. ep[p] \in End /\ plan[p] \in Plan
      BY <1>0 DEF TypeOK, Plan
    <2>2. plan' \in [Name -> Plan] /\ lastGood' \in [Name -> End]
      <3>1. \A a \in End : [plan[p] EXCEPT !.win = a] \in Plan
        BY <2>1 DEF Plan
      <3>. QED  BY <1>0, <1>5, <2>1, <3>1 DEF Adopt, TypeOK, Plan
    <2>. QED  BY <1>0, <1>5, <2>2 DEF Adopt, PassOver, TypeOK, Plan
  <1>6. ASSUME NEW p \in Name, NothingToDial(p) PROVE TypeOK'
    BY <1>0, <1>6 DEF NothingToDial, PassOver, TypeOK
  <1>7. ASSUME NEW p \in Name, DialNext(p) PROVE TypeOK'
    <2>1. plan[p] \in Plan /\ plan[p].ord[cand + 1] \in Addr
      BY <1>0, <1>7 DEF TypeOK, Plan, DialNext
    <2>2. [plan[p] EXCEPT !.des = plan[p].ord[cand + 1]] \in Plan
      BY <2>1 DEF Plan, End
    <2>3. plan' \in [Name -> Plan]
      BY <1>0, <1>7, <2>2 DEF DialNext, TypeOK, Plan
    <2>4. Configure(Planned, [q \in Name |-> plan'[q].des])
      BY <1>7 DEF DialNext
    <2>5. Planned \in SUBSET Name /\ [q \in Name |-> plan'[q].des] \in [Name -> End]
      BY <2>3 DEF Planned, Plan
    <2>6. /\ dev' = dev
          /\ kpeers' \subseteq Name
          /\ ep' \in [Name -> End]
          /\ seen' \in [Name -> BOOLEAN]
          /\ hs' \in [Name -> {"never", "live", "stale"}]
          /\ owner' \in [Subnet -> Name \cup {NoAddr}]
          /\ kroutes' \subseteq Subnet
      BY <1>0, <2>4, <2>5, ConfigureType
    <2>7. pc' = "wait" /\ shook' = FALSE /\ UNCHANGED <<rosterVars, todo, lastGood, routes>>
      BY <1>7 DEF DialNext
    <2>8. cand' \in Nat
      BY <1>0, <1>7 DEF DialNext, TypeOK
    <2>9. plan' \in [Name -> [in: BOOLEAN, ord: Seq(Addr), win: End, des: End,
                             fresh: BOOLEAN, adv: SUBSET Subnet]]
      BY <2>3 DEF Plan
    <2>. QED  BY <1>0, <2>6, <2>7, <2>8, <2>9 DEF TypeOK
  <1>19. ASSUME NEW p \in Name, DialFails(p) PROVE TypeOK'
    <2>1. plan[p] \in Plan /\ plan[p].ord[cand + 1] \in Addr
      BY <1>0, <1>19 DEF TypeOK, Plan, DialFails
    <2>2. [plan[p] EXCEPT !.des = plan[p].ord[cand + 1]] \in Plan
      BY <2>1 DEF Plan, End
    <2>3. plan' \in [Name -> [in: BOOLEAN, ord: Seq(Addr), win: End, des: End,
                             fresh: BOOLEAN, adv: SUBSET Subnet]]
      BY <1>0, <1>19, <2>2 DEF DialFails, TypeOK, Plan
    <2>4. lastGood' \in [Name -> End]
      BY <1>0, <1>19 DEF DialFails, TypeOK, End
    <2>5. /\ todo' \subseteq Name /\ cand' \in Nat /\ pc' = "race"
          /\ UNCHANGED <<rosterVars, kernelVars, shook, routes>>
      BY <1>0, <1>19 DEF DialFails, PassOver, TypeOK
    <2>. QED  BY <1>0, <2>3, <2>4, <2>5 DEF TypeOK
  <1>8. ASSUME NEW p \in Name, TimesOut(p) PROVE TypeOK'
    <2>1. lastGood' \in [Name -> End]
      BY <1>0, <1>8 DEF TimesOut, TypeOK, End
    <2>2. todo' \subseteq Name /\ cand' \in Nat /\ pc' = "race"
      BY <1>0, <1>8 DEF TimesOut, PassOver, TypeOK
    <2>3. UNCHANGED <<rosterVars, kernelVars, plan, shook, routes>>
      BY <1>8 DEF TimesOut
    <2>. QED  BY <1>0, <2>1, <2>2, <2>3 DEF TypeOK
  <1>9. ASSUME NEW p \in Name, Win(p) PROVE TypeOK'
    <2>. DEFINE win == IF ep[p] # NoAddr THEN ep[p] ELSE plan[p].ord[cand]
    <2>1. win \in End
      <3>1. PICK r \in Peer : Current(r) /\ cand \in 1 .. Len(plan[r].ord)
        BY <1>9 DEF Win, IInv, StalePeerAwaited, Awaiting
      <3>2. r = p
        BY <1>9, <3>1, CurrentUnique DEF Win
      <3>3. plan[p].ord \in Seq(Addr) /\ ep[p] \in End
        BY <1>0 DEF TypeOK
      <3>4. plan[p].ord[cand] \in Addr
        BY <3>1, <3>2, <3>3
      <3>. QED  BY <3>3, <3>4 DEF End
    <2>2. /\ plan' = [plan EXCEPT ![p].win = win, ![p].des = win]
          /\ lastGood' = [lastGood EXCEPT ![p] = win]
      BY <1>9 DEF Win
    <2>. HIDE DEF win
    <2>3. [plan[p] EXCEPT !.win = win, !.des = win] \in Plan
      BY <1>0, <2>1 DEF TypeOK, Plan
    <2>4. plan' \in [Name -> Plan]
      BY <1>0, <2>2, <2>3 DEF TypeOK, Plan
    <2>5. lastGood' \in [Name -> End]
      BY <1>0, <2>1, <2>2 DEF TypeOK
    <2>. QED  BY <1>0, <1>9, <2>4, <2>5 DEF Win, PassOver, TypeOK, Plan
  <1>20. ASSUME NEW p \in Name, HandshakeSeen(p) PROVE TypeOK'
    <2>1. pc' = "won"
          /\ UNCHANGED <<rosterVars, kernelVars, passVars, lastGood, routes>>
      BY <1>20 DEF HandshakeSeen
    <2>. QED  BY <1>0, <2>1 DEF TypeOK
  <1>21. CASE ApplyReads
    <2>1. pc' = "configure"
          /\ UNCHANGED <<rosterVars, kernelVars, passVars, lastGood, routes>>
      BY <1>21 DEF ApplyReads
    <2>. QED  BY <1>0, <2>1 DEF TypeOK
  <1>10. CASE RaceOver \/ RoutesSkipped
    <2>1. pc' \in {"routes", "nat"}
          /\ UNCHANGED <<rosterVars, kernelVars, passVars, lastGood, routes>>
      BY <1>10 DEF RaceOver, RoutesSkipped
    <2>. QED  BY <1>0, <2>1 DEF TypeOK
  <1>11. CASE RoutesOk \/ RoutesFail
    <2>1. Announced \subseteq Subnet
      BY <1>0 DEF Announced, Planned, TypeOK
    <2>2. kroutes' \subseteq Subnet /\ routes' \subseteq Subnet
      BY <1>0, <1>11, <2>1 DEF RoutesOk, RoutesFail, TypeOK
    <2>3. pc' = "nat" /\ UNCHANGED <<rosterVars, dev, kpeers, ep, seen, hs, owner,
                                    passVars, lastGood>>
      BY <1>11 DEF RoutesOk, RoutesFail
    <2>. QED  BY <1>0, <2>2, <2>3 DEF TypeOK
  <1>12. CASE Start
    BY <1>0, <1>12 DEF Start, TypeOK
  <1>13. CASE Crash \/ Exit
    <2>1. LoseMemory /\ (LinkDel \/ UNCHANGED kernelVars) /\ UNCHANGED rosterVars
      BY <1>13 DEF Crash, Exit
    <2>2. PassEnds
      BY <2>1 DEF LoseMemory
    <2>3. lastGood' \in [Name -> End] /\ routes' \subseteq Subnet /\ pc' = "down"
      BY <2>1 DEF LoseMemory, End
    <2>. QED  BY <1>0, <2>1, <2>2, <2>3, PassEndsType, LinkDelType DEF TypeOK, Plan
  <1>14. CASE DeviceDeleted
    BY <1>0, <1>14, LinkDelType DEF DeviceDeleted, TypeOK
  <1>15. ASSUME NEW p \in Name, NEW a \in Addr, Handshake(p, a) \/ Roam(p, a) PROVE TypeOK'
    <2>1. shook' \in BOOLEAN
      BY <1>0, <1>15 DEF Handshake, Roam, TypeOK
    <2>2. ep' \in [Name -> End]
      BY <1>0, <1>15 DEF Handshake, Roam, TypeOK, End
    <2>3. seen' \in [Name -> BOOLEAN]
      BY <1>0, <1>15 DEF Handshake, Roam, TypeOK
    <2>4. hs' \in [Name -> {"never", "live", "stale"}]
      BY <1>0, <1>15 DEF Handshake, Roam, TypeOK
    <2>5. UNCHANGED <<rosterVars, dev, kpeers, owner, kroutes, pc, plan, todo, cand,
                      lastGood, routes>>
      BY <1>15 DEF Handshake, Roam
    <2>. QED  BY <1>0, <2>1, <2>2, <2>3, <2>4, <2>5 DEF TypeOK
  <1>16. ASSUME NEW p \in Name, GoesStale(p) PROVE TypeOK'
    BY <1>0, <1>16 DEF GoesStale, TypeOK
  <1>17. ASSUME NEW p \in Peer, Publish(p) \/ Unlist(p) PROVE TypeOK'
    <2>1. pub' \in [Peer -> [dial: Dial, adv: SUBSET Subnet]] /\ listed' \subseteq Peer
      BY <1>0, <1>17 DEF Publish, Unlist, TypeOK
    <2>2. UNCHANGED <<kernelVars, daemonVars>>
      BY <1>17 DEF Publish, Unlist
    <2>. QED  BY <1>0, <2>1, <2>2 DEF TypeOK
  <1>18. CASE UNCHANGED vars
    BY <1>0, <1>18 DEF vars, TypeOK
  <1>. QED
    BY <1>1, <1>2, <1>3, <1>4, <1>5, <1>6, <1>7, <1>8, <1>9, <1>10, <1>11, <1>12, <1>13,
       <1>14, <1>15, <1>16, <1>17, <1>18, <1>19, <1>20, <1>21 DEF Next, Pass, Environment

\* What a step of the race, and what one of the environment, leaves alone.
LEMMA PlanKept ==
    ASSUME TypeOK,
           \/ SampleFresh \/ ApplyInitial
           \/ \E p \in Name : Adopt(p) \/ DialNext(p) \/ DialFails(p) \/ Win(p)
    PROVE  /\ \A p \in Name : /\ plan'[p].in = plan[p].in /\ plan'[p].ord = plan[p].ord
                              /\ plan'[p].adv = plan[p].adv
           /\ Planned' = Planned
           /\ ~SampleFresh => \A p \in Name : plan'[p].fresh = plan[p].fresh
  <1>1. /\ \A p \in Name : /\ plan'[p].in = plan[p].in /\ plan'[p].ord = plan[p].ord
                           /\ plan'[p].adv = plan[p].adv
        /\ ~SampleFresh => \A p \in Name : plan'[p].fresh = plan[p].fresh
    <2>1. CASE SampleFresh
      BY <2>1 DEF SampleFresh, TypeOK
    <2>2. CASE ApplyInitial
      BY <2>2 DEF ApplyInitial, TypeOK
    <2>3. ASSUME NEW p \in Name, Adopt(p)
          PROVE  \A q \in Name : /\ plan'[q].in = plan[q].in /\ plan'[q].ord = plan[q].ord
                                 /\ plan'[q].fresh = plan[q].fresh /\ plan'[q].adv = plan[q].adv
      <3>1. plan' = plan \/ \E a : plan' = [plan EXCEPT ![p].win = a]
        BY <2>3 DEF Adopt
      <3>2. CASE plan' = plan
        BY <3>2
      <3>3. ASSUME NEW a, plan' = [plan EXCEPT ![p].win = a]
            PROVE  \A q \in Name : /\ plan'[q].in = plan[q].in /\ plan'[q].ord = plan[q].ord
                                   /\ plan'[q].fresh = plan[q].fresh /\ plan'[q].adv = plan[q].adv
        BY <3>3 DEF TypeOK
      <3>. QED  BY <3>1, <3>2, <3>3
    <2>4. ASSUME NEW p \in Name, DialNext(p)
          PROVE  \A q \in Name : /\ plan'[q].in = plan[q].in /\ plan'[q].ord = plan[q].ord
                                 /\ plan'[q].fresh = plan[q].fresh /\ plan'[q].adv = plan[q].adv
      BY <2>4 DEF DialNext, TypeOK
    <2>6. ASSUME NEW p \in Name, DialFails(p)
          PROVE  \A q \in Name : /\ plan'[q].in = plan[q].in /\ plan'[q].ord = plan[q].ord
                                 /\ plan'[q].fresh = plan[q].fresh /\ plan'[q].adv = plan[q].adv
      BY <2>6 DEF DialFails, TypeOK
    <2>5. ASSUME NEW p \in Name, Win(p)
          PROVE  \A q \in Name : /\ plan'[q].in = plan[q].in /\ plan'[q].ord = plan[q].ord
                                 /\ plan'[q].fresh = plan[q].fresh /\ plan'[q].adv = plan[q].adv
      BY <2>5 DEF Win, TypeOK
    <2>. QED  BY <2>1, <2>2, <2>3, <2>4, <2>5, <2>6
  <1>. QED  BY <1>1 DEF Planned

\* Actions that leave plan and todo alone.
Elsewhere ==
    \/ ApplyReads \/ (\E p \in Name : HandshakeSeen(p))
    \/ RaceOver \/ RoutesSkipped \/ RoutesOk \/ RoutesFail \/ Start
    \/ DeviceDeleted \/ UNCHANGED vars
    \/ \E p \in Name : GoesStale(p) \/ (\E a \in Addr : Handshake(p, a) \/ Roam(p, a))
    \/ \E p \in Peer : Publish(p) \/ Unlist(p)

\* They keep the peers of a live interface, and none starts waiting for a dial.
LEMMA ElsewhereKeeps ==
    ASSUME Elsewhere
    PROVE  /\ plan' = plan /\ todo' = todo /\ Planned' = Planned
           /\ pc' = "wait" => pc = "wait"
           /\ Awaiting' => Awaiting
           /\ Racing' => Racing
           /\ dev' = "up" /\ Racing' => dev = "up" /\ kpeers' = kpeers /\ owner' = owner
  <1>. USE DEF Awaiting
  <1>1. CASE RaceOver \/ RoutesSkipped
    BY <1>1 DEF RaceOver, RoutesSkipped, Planned, Racing
  <1>9. CASE ApplyReads \/ \E p \in Name : HandshakeSeen(p)
    BY <1>9 DEF ApplyReads, HandshakeSeen, Planned, Racing
  <1>2. CASE RoutesOk \/ RoutesFail
    BY <1>2 DEF RoutesOk, RoutesFail, Planned, Racing
  <1>3. CASE Start
    BY <1>3 DEF Start, Planned, Racing
  <1>4. CASE DeviceDeleted
    BY <1>4 DEF DeviceDeleted, LinkDel, Planned, Racing
  <1>5. CASE UNCHANGED vars
    BY <1>5 DEF vars, Planned, Racing
  <1>6. ASSUME NEW p \in Name, GoesStale(p) \/ (\E a \in Addr : Handshake(p, a) \/ Roam(p, a))
        PROVE  UNCHANGED <<plan, todo, pc, dev, kpeers, owner>>
    BY <1>6 DEF GoesStale, Handshake, Roam
  <1>7. ASSUME NEW p \in Peer, Publish(p) \/ Unlist(p)
        PROVE  UNCHANGED <<plan, todo, pc, dev, kpeers, owner>>
    BY <1>7 DEF Publish, Unlist
  <1>8. UNCHANGED <<plan, todo, pc, dev, kpeers, owner>> =>
           /\ plan' = plan /\ todo' = todo /\ Planned' = Planned
           /\ pc' = "wait" => pc = "wait"
           /\ Awaiting' => Awaiting
           /\ Racing' => Racing
           /\ dev' = "up" /\ Racing' => dev = "up" /\ kpeers' = kpeers /\ owner' = owner
    BY DEF Planned, Racing
  <1>. QED  BY <1>1, <1>2, <1>3, <1>4, <1>5, <1>6, <1>7, <1>8, <1>9 DEF Elsewhere

\* Next, split the way the conjuncts of IInv need it.
LEMMA NextCases ==
    ASSUME [Next]_vars
    PROVE  \/ BuildPlans \/ SampleFresh \/ ApplyInitial \/ ApplyGone \/ ApplyFails \/ SyncNat
           \/ Crash \/ Exit
           \/ \E p \in Name : Adopt(p) \/ DialNext(p) \/ DialFails(p) \/ Win(p)
           \/ \E p \in Name : NothingToDial(p) \/ TimesOut(p)
           \/ Elsewhere
  BY DEF Next, Pass, Environment, Elsewhere

LEMMA ConvergedStep == IInv /\ [Next]_vars => Converged'
  <1>. SUFFICES ASSUME IInv, [Next]_vars PROVE Converged'
    OBVIOUS
  <1>0. TypeOK /\ Converged
    BY DEF IInv
  <1>1. CASE BuildPlans \/ SampleFresh \/ ApplyGone \/ ApplyFails \/ SyncNat \/ Crash \/ Exit
    BY <1>1 DEF BuildPlans, SampleFresh, ApplyGone, ApplyFails, SyncNat, Crash, Exit, LoseMemory, Converged
  <1>2. CASE ApplyInitial
    BY <1>0, <1>2, PlanKept DEF ApplyInitial, Configure, Converged
  <1>3. ASSUME NEW p \in Name, Adopt(p) \/ DialNext(p) \/ DialFails(p) \/ Win(p)
        PROVE  Converged'
    <2>1. Planned' = Planned
      BY <1>0, <1>3, PlanKept
    <2>2. CASE DialNext(p)
      BY <2>1, <2>2 DEF DialNext, Configure, Converged
    <2>3. CASE Adopt(p) \/ DialFails(p) \/ Win(p)
      BY <1>0, <2>1, <2>3 DEF Adopt, DialFails, Win, Converged
    <2>. QED  BY <1>3, <2>2, <2>3
  <1>4. ASSUME NEW p \in Name, NothingToDial(p) \/ TimesOut(p) PROVE Converged'
    <2>1. plan' = plan /\ kpeers' = kpeers /\ dev' = dev /\ pc \in {"race", "wait", "won"}
      BY <1>4 DEF NothingToDial, TimesOut
    <2>. QED  BY <1>0, <2>1 DEF Converged, Planned
  <1>5. CASE Elsewhere
    BY <1>0, <1>5, ElsewhereKeeps DEF Converged, Racing
  <1>. QED  BY <1>1, <1>2, <1>3, <1>4, <1>5, NextCases

LEMMA OnlyPeersDialedStep == IInv /\ [Next]_vars => OnlyPeersDialed'
  <1>. SUFFICES ASSUME IInv, [Next]_vars PROVE OnlyPeersDialed'
    OBVIOUS
  <1>0. TypeOK /\ OnlyPeersDialed
    BY DEF IInv
  <1>1. CASE BuildPlans
    <2>1. PICK view \in SUBSET listed, spk \in SUBSET Spoke :
             plan' = [p \in Name |-> PlanFor(p, view, spk)]
      BY <1>1 DEF BuildPlans
    <2>. QED  BY <1>0, <2>1, PlanForType DEF OnlyPeersDialed
  <1>2. CASE ApplyGone \/ ApplyFails \/ SyncNat \/ Crash \/ Exit
    <2>1. PassEnds
      BY <1>2 DEF ApplyGone, ApplyFails, SyncNat, Crash, Exit, LoseMemory
    <2>. QED  BY <2>1, PassEndsType DEF OnlyPeersDialed
  <1>3. CASE SampleFresh \/ ApplyInitial \/ 
              \E p \in Name : Adopt(p) \/ DialNext(p) \/ DialFails(p) \/ Win(p)
    BY <1>0, <1>3, PlanKept DEF OnlyPeersDialed
  <1>4. ASSUME NEW p \in Name, NothingToDial(p) \/ TimesOut(p)
        PROVE  OnlyPeersDialed'
    BY <1>0, <1>4 DEF NothingToDial, TimesOut, OnlyPeersDialed
  <1>5. CASE Elsewhere
    BY <1>0, <1>5, ElsewhereKeeps DEF OnlyPeersDialed
  <1>. QED  BY <1>1, <1>2, <1>3, <1>4, <1>5, NextCases

\* A dial goes to a peer, and a win is credited to one, that was not fresh.
LEMMA NotFresh ==
    ASSUME IInv, NEW p \in Name, DialNext(p) \/ DialFails(p) \/ Win(p)
    PROVE  p \in Peer /\ ~plan[p].fresh
  <1>0. TypeOK /\ OnlyPeersDialed /\ StalePeerAwaited
    BY DEF IInv
  <1>1. CASE DialNext(p) \/ DialFails(p)
    <2>1. plan[p].ord # <<>>
      BY <1>0, <1>1 DEF DialNext, DialFails, TypeOK
    <2>. QED  BY <1>0, <1>1, <2>1 DEF DialNext, DialFails, OnlyPeersDialed
  <1>2. CASE Win(p)
    <2>1. PICK r \in Peer : Current(r) /\ ~plan[r].fresh
      BY <1>0, <1>2 DEF Win, StalePeerAwaited, Awaiting
    <2>2. p = r
      BY <1>2, <2>1, CurrentUnique DEF Win
    <2>. QED  BY <2>1, <2>2
  <1>. QED  BY <1>1, <1>2

LEMMA FreshStep == IInv /\ [Next]_vars => FreshHasNoEndpoint'
  <1>. SUFFICES ASSUME IInv, [Next]_vars PROVE FreshHasNoEndpoint'
    OBVIOUS
  <1>0. TypeOK /\ FreshHasNoEndpoint
    BY DEF IInv
  <1>1. CASE BuildPlans \/ SampleFresh \/ ApplyGone \/ ApplyFails \/ SyncNat \/ Crash \/ Exit
    BY <1>1 DEF BuildPlans, SampleFresh, ApplyGone, ApplyFails, SyncNat, Crash, Exit, LoseMemory,
                FreshHasNoEndpoint, Racing
  <1>2. CASE ApplyInitial
    <2>1. \A p \in Name : plan'[p].fresh = plan[p].fresh
      BY <1>0, <1>2, PlanKept DEF ApplyInitial, SampleFresh
    <2>2. \A p \in Name : plan'[p].des = InitialDesire(p)
      BY <1>0, <1>2 DEF ApplyInitial, TypeOK
    <2>. QED  BY <1>0, <2>1, <2>2, InitialDesireType DEF FreshHasNoEndpoint
  <1>3. ASSUME NEW p \in Name, DialNext(p) \/ DialFails(p) \/ Win(p)
        PROVE  FreshHasNoEndpoint'
    <2>1. ~plan[p].fresh /\ pc \in {"race", "wait", "won"}
      BY <1>3, NotFresh DEF DialNext, DialFails, Win
    <2>2. \A q \in Name : plan'[q].fresh = plan[q].fresh
      BY <1>0, <1>3, PlanKept DEF DialNext, DialFails, Win, SampleFresh
    <2>3. \A q \in Name \ {p} : plan'[q].des = plan[q].des
      BY <1>0, <1>3 DEF DialNext, DialFails, Win, TypeOK
    <2>. QED  BY <1>0, <2>1, <2>2, <2>3 DEF FreshHasNoEndpoint, Racing
  <1>4. ASSUME NEW p \in Name, Adopt(p) PROVE FreshHasNoEndpoint'
    <2>1. \A q \in Name : plan'[q].fresh = plan[q].fresh /\ plan'[q].des = plan[q].des
      <3>1. plan' = plan \/ plan' = [plan EXCEPT ![p].win = ep[p]]
        BY <1>4 DEF Adopt
      <3>2. CASE plan' = [plan EXCEPT ![p].win = ep[p]]
        BY <1>0, <3>2 DEF TypeOK
      <3>. QED  BY <3>1, <3>2
    <2>. QED  BY <1>0, <1>4, <2>1 DEF Adopt, FreshHasNoEndpoint, Racing
  <1>5. ASSUME NEW p \in Name, NothingToDial(p) \/ TimesOut(p)
        PROVE  FreshHasNoEndpoint'
    <2>1. plan' = plan /\ pc \in {"race", "wait", "won"}
      BY <1>5 DEF NothingToDial, TimesOut
    <2>. QED  BY <1>0, <2>1 DEF FreshHasNoEndpoint, Racing
  <1>6. CASE Elsewhere
    BY <1>0, <1>6, ElsewhereKeeps DEF FreshHasNoEndpoint
  <1>. QED  BY <1>1, <1>2, <1>3, <1>4, <1>5, <1>6, NextCases

LEMMA AwaitedStep ==
    IInv /\ [Next]_vars => StalePeerAwaited' /\ HeardWhenShook' /\ WonWasShook'
  <1>. DEFINE Goal == StalePeerAwaited' /\ HeardWhenShook' /\ WonWasShook'
  <1>. SUFFICES ASSUME IInv, [Next]_vars PROVE Goal
    OBVIOUS
  <1>0. TypeOK /\ StalePeerAwaited /\ HeardWhenShook /\ WonWasShook
    BY DEF IInv
  <1>1. ASSUME ~Awaiting' PROVE Goal
    BY <1>1 DEF StalePeerAwaited, HeardWhenShook, WonWasShook, Awaiting
  <1>2. ASSUME NEW p \in Name, DialNext(p) PROVE Goal
    <2>1. p \in Peer /\ ~plan[p].fresh
      BY <1>2, NotFresh
    <2>2. plan'[p].fresh = plan[p].fresh /\ plan'[p].ord = plan[p].ord
      BY <1>0, <1>2 DEF DialNext, TypeOK
    <2>3. Current(p)'
      BY <1>2 DEF DialNext, Current
    <2>4. cand' \in 1 .. Len(plan[p].ord)
      BY <1>0, <1>2 DEF DialNext, TypeOK
    <2>5. pc' = "wait" /\ shook' = FALSE
      BY <1>2 DEF DialNext
    <2>. QED
      BY <2>1, <2>2, <2>3, <2>4, <2>5 DEF StalePeerAwaited, HeardWhenShook, WonWasShook
  <1>3. ASSUME Awaiting, Awaiting', Elsewhere PROVE Goal
    <2>1. plan' = plan /\ todo' = todo
      BY <1>3, ElsewhereKeeps
    <2>2. \A q \in Name : Current(q)' = Current(q)
      BY <2>1 DEF Current
    <2>3. cand' = cand
      BY <1>3 DEF Elsewhere, ApplyReads, HandshakeSeen, RaceOver, RoutesSkipped, RoutesOk,
                  RoutesFail, Start, DeviceDeleted, vars, GoesStale, Handshake, Roam, Publish,
                  Unlist
    <2>4. StalePeerAwaited'
      BY <1>0, <1>3, <2>1, <2>2, <2>3 DEF StalePeerAwaited, Name
    <2>5. CASE DeviceDeleted
      BY <2>4, <2>5 DEF DeviceDeleted, LinkDel, HeardWhenShook, WonWasShook
    <2>6. ASSUME NEW p \in Name, HandshakeSeen(p) PROVE Goal
      BY <1>0, <1>3, <2>2, <2>4, <2>6 DEF HandshakeSeen, HeardWhenShook, WonWasShook
    <2>7. CASE UNCHANGED <<shook, seen, ep, pc, dev>>
      BY <1>0, <1>3, <2>2, <2>4, <2>7 DEF HeardWhenShook, WonWasShook
    <2>8. ASSUME NEW p \in Name, NEW a \in Addr, Handshake(p, a) \/ Roam(p, a)
          PROVE  Goal
      <3>0. UNCHANGED <<pc, dev>> /\ (shook => shook')
        <4>1. CASE Handshake(p, a)
          BY <4>1 DEF Handshake
        <4>2. CASE Roam(p, a)
          BY <4>2 DEF Roam
        <4>. QED  BY <2>8, <4>1, <4>2
      <3>. SUFFICES ASSUME shook', NEW q \in Name, Current(q) PROVE seen'[q] /\ ep'[q] \in Addr
        BY <1>0, <2>2, <2>4, <3>0 DEF HeardWhenShook, WonWasShook
      <3>1. CASE q = p
        BY <1>0, <2>8, <3>1 DEF Handshake, Roam, TypeOK
      <3>2. CASE q # p
        <4>1. seen'[q] = seen[q] /\ ep'[q] = ep[q]
          BY <1>0, <2>8, <3>2 DEF Handshake, Roam, TypeOK
        <4>2. ~Current(p)
          <5>1. PICK r \in Peer : Current(r)
            BY <1>0, <1>3 DEF StalePeerAwaited
          <5>. QED  BY <3>2, <5>1, CurrentUnique
        <4>3. shook
          BY <2>8, <4>2 DEF Handshake, Roam
        <4>. QED  BY <1>0, <1>3, <4>1, <4>3 DEF HeardWhenShook
      <3>. QED  BY <3>1, <3>2
    <2>9. \/ DeviceDeleted
          \/ \E p \in Name : HandshakeSeen(p)
          \/ UNCHANGED <<shook, seen, ep, pc, dev>>
          \/ \E p \in Name, a \in Addr : Handshake(p, a) \/ Roam(p, a)
      BY <1>3 DEF Awaiting, Elsewhere, ApplyReads, RaceOver, RoutesSkipped, RoutesOk,
                  RoutesFail, Start, vars, GoesStale, Publish, Unlist
    <2>. QED  BY <2>5, <2>6, <2>7, <2>8, <2>9
  <1>4. \/ ~Awaiting'
        \/ \E p \in Name : DialNext(p)
        \/ Awaiting /\ Elsewhere
    BY NextCases, ElsewhereKeeps
       DEF BuildPlans, SampleFresh, ApplyInitial, ApplyGone, ApplyFails, SyncNat, Crash, Exit,
           LoseMemory, Adopt, Win, NothingToDial, DialFails, TimesOut, PassOver, Awaiting
  <1>. QED  BY <1>1, <1>2, <1>3, <1>4

-----------------------------------------------------------------------------
(* Theorems.                                                               *)

LEMMA Invariance == Spec => []IInv
  <1>1. IInv /\ [Next]_vars => IInv'
    BY TypeStep, ConvergedStep, OnlyPeersDialedStep, FreshStep, AwaitedStep DEF IInv
  <1>. QED  BY <1>1, InitIInv, PTL DEF Spec

(***************************************************************************)
(* Type correctness of a pass and its device.                              *)
(***************************************************************************)
THEOREM TickTypeOK == Spec => []TypeOK
  <1>1. IInv => TypeOK
    BY DEF IInv
  <1>. QED  BY <1>1, Invariance, PTL

(***************************************************************************)
(* From the first Apply of a pass to its end a live interface has exactly  *)
(* the planned peers.                                                      *)
(***************************************************************************)
THEOREM DeviceConverges == Spec => []Converged
  <1>1. IInv => Converged
    BY DEF IInv
  <1>. QED  BY <1>1, Invariance, PTL

(***************************************************************************)
(* No Apply of a pass moves the endpoint of a session that the pass        *)
(* sampled as live.                                                        *)
(***************************************************************************)
THEOREM FreshUntouched == Spec => SampledFreshUntouched
  <1>1. IInv /\ [Next]_vars =>
           [Pass => \A p \in kpeers' : plan[p].fresh => ep'[p] = ep[p]]_vars
    <2>. SUFFICES ASSUME IInv, Pass, NEW p \in kpeers', plan[p].fresh, IInv'
                  PROVE  ep'[p] = ep[p]
      BY TypeStep, ConvergedStep, OnlyPeersDialedStep, FreshStep, AwaitedStep DEF IInv
    <2>0. TypeOK /\ FreshHasNoEndpoint /\ p \in Name
      BY DEF IInv, TypeOK
    <2>1. CASE ApplyInitial
      <3>1. \A q \in Name : InitialDesire(q) \in End
        BY <2>0, InitialDesireType
      <3>2. Configure(Planned, [q \in Name |-> InitialDesire(q)]) /\ Planned \in SUBSET Name
        BY <2>1 DEF ApplyInitial, Planned
      <3>3. InitialDesire(p) = NoAddr
        BY <2>0, InitialDesireType
      <3>4. p \in Planned
        BY <3>2 DEF Configure
      <3>. QED  BY <2>0, <3>3, <3>4, <3>2 DEF Configure
    <2>2. ASSUME NEW q \in Name, DialNext(q) PROVE ep'[p] = ep[p]
      <3>1. q # p
        BY <2>2, NotFresh
      <3>2. plan'[p].des = NoAddr
        BY <2>0, <2>2, <3>1 DEF DialNext, TypeOK, FreshHasNoEndpoint, Racing
      <3>3. Configure(Planned, [r \in Name |-> plan'[r].des])
        BY <2>2 DEF DialNext
      <3>. QED  BY <2>0, <3>2, <3>3 DEF Configure
    <2>3. ASSUME NEW q \in Name, Adopt(q) \/ NothingToDial(q) \/ DialFails(q)
                               \/ HandshakeSeen(q) \/ Win(q) \/ TimesOut(q)
          PROVE  ep' = ep
      BY <2>3 DEF Adopt, NothingToDial, DialFails, HandshakeSeen, Win, TimesOut
    <2>4. CASE \/ BuildPlans \/ SampleFresh \/ ApplyReads \/ ApplyGone \/ ApplyFails
               \/ RaceOver \/ RoutesSkipped \/ RoutesOk \/ RoutesFail \/ SyncNat
      BY <2>4 DEF BuildPlans, SampleFresh, ApplyReads, ApplyGone, ApplyFails, RaceOver,
                  RoutesSkipped, RoutesOk, RoutesFail, SyncNat
    <2>. QED  BY <2>1, <2>2, <2>3, <2>4 DEF Pass
  <1>. QED  BY <1>1, Invariance, PTL DEF Spec, SampledFreshUntouched

(***************************************************************************)
(* While there is an interface a win is credited to an endpoint the peer's *)
(* own traffic came from, also if the peer roams or handshakes again       *)
(* between the poll and the read (daemon.go:277-293).                      *)
(***************************************************************************)
THEOREM WinProven == Spec => WinIsProven
  <1>1. ASSUME IInv, NEW p \in Name, Win(p), dev = "up"
        PROVE  seen[p] /\ lastGood'[p] = ep[p]
    <2>1. TypeOK /\ pc = "won" /\ Current(p) /\ shook
      BY <1>1 DEF IInv, WonWasShook, Win
    <2>2. seen[p] /\ ep[p] \in Addr
      BY <1>1, <2>1 DEF IInv, HeardWhenShook, Awaiting
    <2>3. lastGood' = [lastGood EXCEPT ![p] = ep[p]]
      BY <1>1, <2>2, TickAssumption DEF Win
    <2>. QED  BY <2>1, <2>2, <2>3 DEF TypeOK
  <1>2. IInv /\ [Next]_vars =>
           [\A p \in Name : Win(p) /\ dev = "up" => seen[p] /\ lastGood'[p] = ep[p]]_vars
    BY <1>1
  <1>. QED  BY <1>2, Invariance, PTL DEF Spec, WinIsProven

-----------------------------------------------------------------------------
(* Announced subnets.                                                      *)

\* From the first Apply to the end of a pass a live interface hands every
\* announced subnet to a peer that announces it.
OwnersAnnounce ==
    Racing /\ dev = "up" => \A s \in Announced : owner[s] \in Planned /\ s \in plan[owner[s]].adv

\* Among several names one is the last that Apply comes to.
LEMMA LastExists ==
    ASSUME NEW S \in SUBSET Name, S # {}
    PROVE  \E p \in S : \A q \in S : Pos(q) <= Pos(p)
  <1>1. Len(Order) \in Nat /\ \A p \in S : Pos(p) \in 1 .. Len(Order) + 1
    <2>1. Len(Order) \in Nat
      BY TickAssumption
    <2>2. ASSUME NEW p \in S PROVE Pos(p) \in 1 .. Len(Order) + 1
      <3>1. CASE p \in Peer
        BY <2>1, <3>1, PosPeer
      <3>2. CASE p \notin Peer
        BY <2>1, <3>2 DEF Pos
      <3>. QED  BY <3>1, <3>2
    <2>. QED  BY <2>1, <2>2
  <1>. DEFINE behind(p) == Len(Order) + 1 - Pos(p)
              D == {behind(p) : p \in S}
              R == OpToRel(<, Nat)
  <1>2. D \subseteq Nat /\ D # {}
    BY <1>1
  <1>3. PICK d \in D : \A e \in D : ~(<<e, d>> \in R)
    <2>. HIDE DEF D, R
    <2>1. IsWellFoundedOn(R, Nat)
      BY NatLessThanWellFounded DEF R
    <2>. QED  BY <1>2, <2>1, WFMin
  <1>4. PICK p \in S : d = behind(p)
    BY <1>3
  <1>5. ASSUME NEW q \in S PROVE Pos(q) <= Pos(p)
    <2>1. behind(q) \in Nat /\ behind(p) \in Nat /\ ~(behind(q) < behind(p))
      BY <1>2, <1>3, <1>4 DEF OpToRel
    <2>2. Pos(p) \in 1 .. Len(Order) + 1 /\ Pos(q) \in 1 .. Len(Order) + 1
      BY <1>1
    <2>. QED  BY <1>1, <2>1, <2>2
  <1>. QED  BY <1>5

\* Apply hands an announced subnet to a wanted peer that announces it.
LEMMA OwnerAfterAnnounces ==
    ASSUME NEW want \in SUBSET Name, NEW s \in Subnet, \E p \in want : s \in plan[p].adv
    PROVE  OwnerAfter(s, want) \in want /\ s \in plan[OwnerAfter(s, want)].adv
  <1>. DEFINE claims == {p \in want : s \in plan[p].adv}
              last == {p \in claims : \A q \in claims : Pos(q) <= Pos(p)}
  <1>1. \E p \in claims : \A q \in claims : Pos(q) <= Pos(p)
    <2>1. claims \in SUBSET Name /\ claims # {}
      OBVIOUS
    <2>. HIDE DEF claims
    <2>. QED  BY <2>1, LastExists
  <1>2. OwnerAfter(s, want) \in last
    BY <1>1 DEF OwnerAfter
  <1>. QED  BY <1>2

LEMMA OwnersStep == IInv /\ OwnersAnnounce /\ [Next]_vars => OwnersAnnounce'
  <1>. SUFFICES ASSUME IInv, OwnersAnnounce, [Next]_vars PROVE OwnersAnnounce'
    OBVIOUS
  <1>0. TypeOK
    BY DEF IInv
  <1>1. CASE BuildPlans \/ SampleFresh \/ ApplyGone \/ ApplyFails \/ SyncNat \/ Crash \/ Exit
    BY <1>1 DEF BuildPlans, SampleFresh, ApplyGone, ApplyFails, SyncNat, Crash, Exit, LoseMemory,
                OwnersAnnounce, Racing
  <1>2. ASSUME Planned' = Planned, \A p \in Name : plan'[p].adv = plan[p].adv,
               owner' = [s \in Subnet |-> OwnerAfter(s, Planned)]
        PROVE  OwnersAnnounce'
    <2>. SUFFICES ASSUME NEW s \in Announced'
                  PROVE  owner'[s] \in Planned' /\ s \in plan'[owner'[s]].adv
      BY DEF OwnersAnnounce
    <2>1. Planned \in SUBSET Name
      BY DEF Planned
    <2>2. PICK p \in Planned : s \in plan[p].adv
      BY <1>2, <2>1 DEF Announced
    <2>3. s \in Subnet
      BY <1>0, <2>1, <2>2 DEF TypeOK
    <2>4. OwnerAfter(s, Planned) \in Planned /\ s \in plan[OwnerAfter(s, Planned)].adv
      BY <2>1, <2>2, <2>3, OwnerAfterAnnounces
    <2>. QED  BY <1>2, <2>1, <2>3, <2>4
  <1>3. ASSUME Planned' = Planned, \A p \in Name : plan'[p].adv = plan[p].adv,
               owner' = owner, dev' = dev, Racing
        PROVE  OwnersAnnounce'
    <2>. SUFFICES ASSUME dev' = "up", NEW s \in Announced'
                  PROVE  owner'[s] \in Planned' /\ s \in plan'[owner'[s]].adv
      BY DEF OwnersAnnounce
    <2>1. Planned \subseteq Name
      BY DEF Planned
    <2>2. s \in Announced
      BY <1>3, <2>1 DEF Announced
    <2>3. owner[s] \in Planned /\ s \in plan[owner[s]].adv
      BY <1>3, <2>2 DEF OwnersAnnounce
    <2>. QED  BY <1>3, <2>1, <2>3
  <1>4. CASE ApplyInitial
    <2>1. Planned' = Planned /\ \A p \in Name : plan'[p].adv = plan[p].adv
      BY <1>0, <1>4, PlanKept
    <2>. QED  BY <1>2, <1>4, <2>1 DEF ApplyInitial, Configure
  <1>5. ASSUME NEW p \in Name, DialNext(p) PROVE OwnersAnnounce'
    <2>1. Planned' = Planned /\ \A q \in Name : plan'[q].adv = plan[q].adv
      BY <1>0, <1>5, PlanKept
    <2>. QED  BY <1>2, <1>5, <2>1 DEF DialNext, Configure
  <1>6. ASSUME NEW p \in Name, Adopt(p) \/ DialFails(p) \/ Win(p) PROVE OwnersAnnounce'
    <2>1. Planned' = Planned /\ \A q \in Name : plan'[q].adv = plan[q].adv
      BY <1>0, <1>6, PlanKept
    <2>2. owner' = owner /\ dev' = dev /\ Racing
      BY <1>6 DEF Adopt, DialFails, Win, Racing
    <2>. QED  BY <1>3, <2>1, <2>2
  <1>7. ASSUME NEW p \in Name, NothingToDial(p) \/ TimesOut(p) PROVE OwnersAnnounce'
    <2>1. plan' = plan /\ owner' = owner /\ dev' = dev /\ Racing
      BY <1>7 DEF NothingToDial, TimesOut, Racing
    <2>. QED  BY <1>3, <2>1 DEF Planned
  <1>8. CASE Elsewhere
    <2>1. /\ plan' = plan /\ Planned' = Planned
          /\ dev' = "up" /\ Racing' => dev = "up" /\ Racing /\ owner' = owner
      BY <1>8, ElsewhereKeeps
    <2>2. Announced' = Announced
      BY <2>1 DEF Announced
    <2>. QED  BY <2>1, <2>2 DEF OwnersAnnounce
  <1>. QED  BY <1>1, <1>4, <1>5, <1>6, <1>7, <1>8, NextCases

(***************************************************************************)
(* Whatever peers announce and withdraw, and however many announce the     *)
(* same subnet: when ApplyRoutes succeeds each announced subnet is routed  *)
(* and belongs to a planned peer that announces it, since every Apply of   *)
(* the pass gives it to the last of those (daemon.go:302-310).             *)
(***************************************************************************)
THEOREM AnnouncedReached == Spec => AnnouncedIsReachable
  <1>1. Init => OwnersAnnounce
    BY DEF Init, OwnersAnnounce, Racing
  <1>2. ASSUME OwnersAnnounce, RoutesOk
        PROVE  \A s \in Announced : /\ s \in kroutes'
                                    /\ owner[s] \in Planned
                                    /\ s \in plan[owner[s]].adv
    BY <1>2 DEF RoutesOk, OwnersAnnounce, Racing
  <1>3. OwnersAnnounce /\ [Next]_vars
          => [RoutesOk => \A s \in Announced : /\ s \in kroutes'
                                               /\ owner[s] \in Planned
                                               /\ s \in plan[owner[s]].adv]_vars
    BY <1>2
  <1>. QED  BY <1>1, <1>3, Invariance, OwnersStep, PTL DEF Spec, AnnouncedIsReachable
=============================================================================
