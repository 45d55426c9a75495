-------------------------------- MODULE Tick --------------------------------
(***************************************************************************)
(* The device half of a reconcile pass (Daemon.Tick from buildPlans on):   *)
(* one daemon, the kernel WireGuard interface it drives, and the peers     *)
(* that handshake, roam and fall silent while the pass is running.  What   *)
(* FetchStable can return is the subject of module Roster; here a fetch    *)
(* returns any of the listed records, or fails.                            *)
(***************************************************************************)
EXTENDS Integers, Sequences, FiniteSets

CONSTANTS
    Peer,     \* names of nodes that publish records
    Spoke,    \* names of agent-less spokes this hub may have
    Order,    \* Peer as a sequence, in Names' order
    Addr,     \* endpoints
    NoAddr,   \* nil endpoint, empty Candidate
    Hidden,   \* private endpoints of another site, which orderedFor won't dial
    Dial,     \* dial orders that OrderEndpoints can give for a record
    Subnet,   \* announced subnets
    Home,     \* Home[p]: where p answers a dial when the network is calm
    Calm      \* TRUE: everyone is listed, stays at Home and answers dials

Name == Peer \cup Spoke
End == Addr \cup {NoAddr}

ASSUME TickAssumption ==
    /\ NoAddr \notin Addr
    /\ Hidden \subseteq Addr
    /\ Order \in Seq(Peer) /\ Peer = {Order[i] : i \in 1 .. Len(Order)}
    /\ \A i, j \in 1 .. Len(Order) : Order[i] = Order[j] => i = j
    /\ Dial \subseteq Seq(Addr)
    /\ Calm \in BOOLEAN
    /\ Calm => Home \in [Peer -> Addr]

VARIABLES
    \* the roster
    pub,       \* pub[p]: the dial order and announcements of p's record, if listed
    listed,    \* the peers whose record is in the DHT
    \* the kernel
    dev,       \* the interface: "up" or "gone"
    kpeers,    \* its peers
    ep, seen,  \* a peer's endpoint, and whether traffic of the peer set it
    hs,        \* age of the last handshake: "never", "live" (< StaleAfter), "stale"
    owner,     \* AllowedIPs: the peer a subnet belongs to (cryptokey routing)
    kroutes,   \* on-link routes
    \* the daemon
    pc,        \* where Tick is
    plan,      \* plan[p]: the peerPlan of p
    todo,      \* the planned peers the race has not come to the end of
    cand,      \* candidates of the current peer dialed so far
    shook,     \* the device reports a handshake later than the current dial
    lastGood,  \* Daemon.lastGood
    routes     \* LinuxDevice.routes, the routes it remembers installing

rosterVars == <<pub, listed>>
kernelVars == <<dev, kpeers, ep, seen, hs, owner, kroutes>>
passVars   == <<plan, todo, cand, shook>>
daemonVars == <<pc, passVars, lastGood, routes>>
vars == <<rosterVars, kernelVars, daemonVars>>

(***************************************************************************)
(* peerPlan.  des is desire.Endpoint, win the winner (haveWin: # NoAddr),  *)
(* adv the record's announcements.                                         *)
(***************************************************************************)
BarePlan(b) == [in |-> b, ord |-> <<>>, win |-> NoAddr, des |-> NoAddr,
                fresh |-> FALSE, adv |-> {}]
NoPlan == BarePlan(FALSE)

Planned == {p \in Name : plan[p].in}

TypeOK ==
    /\ pub \in [Peer -> [dial: Dial, adv: SUBSET Subnet]]
    /\ listed \subseteq Peer
    /\ dev \in {"up", "gone"}
    /\ kpeers \subseteq Name
    /\ ep \in [Name -> End]
    /\ seen \in [Name -> BOOLEAN]
    /\ hs \in [Name -> {"never", "live", "stale"}]
    /\ owner \in [Subnet -> Name \cup {NoAddr}]
    /\ kroutes \subseteq Subnet
    /\ pc \in {"down", "idle", "sample", "apply", "configure", "race", "wait", "won",
               "routes", "nat", "stopped"}
    /\ plan \in [Name -> [in: BOOLEAN, ord: Seq(Addr), win: End, des: End,
                          fresh: BOOLEAN, adv: SUBSET Subnet]]
    /\ todo \subseteq Name
    /\ cand \in Nat
    /\ shook \in BOOLEAN
    /\ lastGood \in [Name -> End]
    /\ routes \subseteq Subnet

Init ==
    /\ pub \in [Peer -> [dial: Dial, adv: {{}}]]
    /\ listed = IF Calm THEN Peer ELSE {}
    /\ dev = "gone"
    /\ kpeers = {}
    /\ ep = [p \in Name |-> NoAddr]
    /\ seen = [p \in Name |-> FALSE]
    /\ hs = [p \in Name |-> "never"]
    /\ owner = [s \in Subnet |-> NoAddr]
    /\ kroutes = {}
    /\ pc = "down"
    /\ plan = [p \in Name |-> NoPlan]
    /\ todo = {}
    /\ cand = 0
    /\ shook = FALSE
    /\ lastGood = [p \in Name |-> NoAddr]
    /\ routes = {}

-----------------------------------------------------------------------------
(* LinuxDevice.                                                            *)

\* Names sorts the roster; spokes follow.
Pos(p) == IF p \in Peer THEN CHOOSE i \in 1 .. Len(Order) : Order[i] = p
                        ELSE Len(Order) + 1

OwnerAfterKeeps(s, want) ==
    LET claims == {p \in want : s \in plan[p].adv}
    IN  IF owner[s] \in want THEN owner[s]
        ELSE IF claims # {} THEN CHOOSE p \in claims : TRUE ELSE NoAddr

\* The kernel gives a subnet to the last peer configured with it.
OwnerAfter(s, want) ==
    LET claims == {p \in want : s \in plan[p].adv}
        last   == {p \in claims : \A q \in claims : Pos(q) <= Pos(p)}
    IN  IF last # {} THEN CHOOSE p \in last : TRUE
        ELSE IF owner[s] \in want THEN owner[s] ELSE NoAddr

ConfigureKeeping(want, des) ==
    /\ kpeers' = kpeers \cup want
    /\ hs' = hs
    /\ ep' = [p \in Name |-> IF p \in want /\ des[p] # NoAddr THEN des[p] ELSE ep[p]]
    /\ seen' = [p \in Name |-> seen[p] /\ ~(p \in want /\ des[p] # NoAddr)]
    /\ owner' = [s \in Subnet |-> OwnerAfter(s, kpeers \cup want)]
    /\ UNCHANGED <<dev, kroutes>>

(***************************************************************************)
(* Apply on a live interface: peers not wanted are removed, the others     *)
(* added or updated in place; a nil endpoint leaves the kernel's alone;    *)
(* AllowedIPs are only ever added (ReplaceAllowedIPs is not set).          *)
(***************************************************************************)
Configure(want, des) ==
    /\ kpeers' = want
    /\ hs' = [p \in Name |-> IF p \in want THEN hs[p] ELSE "never"]
    /\ ep' = [p \in Name |-> IF p \notin want THEN NoAddr
                             ELSE IF des[p] # NoAddr THEN des[p] ELSE ep[p]]
    /\ seen' = [p \in Name |-> p \in want /\ des[p] = NoAddr /\ seen[p]]
    /\ owner' = [s \in Subnet |-> OwnerAfter(s, want)]
    /\ UNCHANGED <<dev, kroutes>>

\* The link is deleted, and with it everything configured on it.
LinkDel ==
    /\ dev' = "gone"
    /\ kpeers' = {}
    /\ ep' = [p \in Name |-> NoAddr]
    /\ seen' = [p \in Name |-> FALSE]
    /\ hs' = [p \in Name |-> "never"]
    /\ owner' = [s \in Subnet |-> NoAddr]
    /\ kroutes' = {}

-----------------------------------------------------------------------------

\* Tick returns: its locals are gone.
PassEnds ==
    /\ plan' = [p \in Name |-> NoPlan]
    /\ todo' = {}
    /\ cand' = 0
    /\ shook' = FALSE

(* buildPlans and the first Apply.                                         *)

\* The endpoint the kernel tracks goes first unless it is already advertised.
OrderedFor(p) ==
    IF ep[p] \in Hidden \cup {NoAddr} \cup {pub[p].dial[i] : i \in DOMAIN pub[p].dial}
    THEN pub[p].dial
    ELSE <<ep[p]>> \o pub[p].dial

PlanFor(p, view, spk) ==
    IF p \in view THEN [in |-> TRUE, ord |-> OrderedFor(p), win |-> lastGood[p],
                       des |-> NoAddr, fresh |-> FALSE, adv |-> pub[p].adv]
                  ELSE BarePlan(p \in spk)

(***************************************************************************)
(* reloadSpokes, then a roster fetch that may miss some of the listed      *)
(* peers.  When every read fails the pass returns before it touches the    *)
(* device, which is a stuttering step here.                                *)
(***************************************************************************)
BuildPlans ==
    /\ pc = "idle"
    /\ \E view \in SUBSET listed, spk \in SUBSET Spoke :
        /\ Calm => view = listed
        /\ plan' = [p \in Name |-> PlanFor(p, view, spk)]
    /\ pc' = "sample"
    /\ UNCHANGED <<rosterVars, kernelVars, todo, cand, shook, lastGood, routes>>

SampleFresh ==
    /\ pc = "sample"
    /\ plan' = [p \in Name |-> [plan[p] EXCEPT !.fresh = plan[p].in /\ hs[p] = "live"]]
    /\ pc' = "apply"
    /\ UNCHANGED <<rosterVars, kernelVars, todo, cand, shook, lastGood, routes>>

\* pickInitial: the last winner, else the first candidate.
PickInitial(p) ==
    IF plan[p].win # NoAddr THEN plan[p].win
    ELSE IF plan[p].ord # <<>> THEN plan[p].ord[1] ELSE NoAddr

\* Tick asks for nil when the session was live as it was sampled.
InitialDesire(p) ==
    IF plan[p].fresh THEN NoAddr ELSE PickInitial(p)

\* Apply reads the device; without one it fails with ErrDeviceGone.
ApplyReads ==
    /\ pc = "apply"
    /\ dev = "up"
    /\ pc' = "configure"
    /\ UNCHANGED <<rosterVars, kernelVars, passVars, lastGood, routes>>

ApplyInitial ==
    /\ pc = "configure"
    /\ dev = "up"
    /\ plan' = [p \in Name |-> [plan[p] EXCEPT !.des = InitialDesire(p)]]
    /\ Configure(Planned, [p \in Name |-> InitialDesire(p)])
    /\ todo' = Planned
    /\ pc' = "race"
    /\ UNCHANGED <<rosterVars, cand, shook, lastGood, routes>>

ApplyGoneRetries ==
    /\ pc = "apply"
    /\ dev = "gone"
    /\ pc' = "idle"
    /\ PassEnds
    /\ UNCHANGED <<rosterVars, kernelVars, lastGood, routes>>

\* ConfigureDevice fails, at the latest when the link has gone since the read:
\* no ErrDeviceGone, so Tick fails and Run waits for its ticker.
ApplyFails ==
    /\ pc = "configure"
    /\ ~Calm
    /\ pc' = "idle"
    /\ PassEnds
    /\ UNCHANGED <<rosterVars, kernelVars, lastGood, routes>>

\* ErrDeviceGone: Tick fails and Run returns.
ApplyGone ==
    /\ pc = "apply"
    /\ dev = "gone"
    /\ pc' = "stopped"
    /\ PassEnds
    /\ UNCHANGED <<rosterVars, kernelVars, lastGood, routes>>

-----------------------------------------------------------------------------
(* The race over candidate endpoints, one planned peer after the other.    *)

Current(p) == p \in todo /\ \A q \in todo : Pos(p) <= Pos(q)

PassOverBeforeFirst(p) == todo' = todo \ {p} /\ cand' = -1 /\ pc' = "race"

\* The loop is done with p.
PassOver(p) == todo' = todo \ {p} /\ cand' = 0 /\ pc' = "race"

\* A session that was live when sampled: adopt its endpoint if none is recorded.
Adopt(p) ==
    /\ pc = "race" /\ Current(p)
    /\ plan[p].fresh
    /\ LET adopted == IF plan[p].win = NoAddr THEN ep[p] ELSE NoAddr
       IN  IF adopted = NoAddr THEN UNCHANGED <<plan, lastGood>>
           ELSE /\ plan' = [plan EXCEPT ![p].win = adopted]
                /\ lastGood' = [lastGood EXCEPT ![p] = adopted]
    /\ PassOver(p)
    /\ UNCHANGED <<rosterVars, kernelVars, shook, routes>>

NothingToDial(p) ==
    /\ pc = "race" /\ Current(p)
    /\ ~plan[p].fresh /\ plan[p].ord = <<>>
    /\ PassOver(p)
    /\ UNCHANGED <<rosterVars, kernelVars, plan, shook, lastGood, routes>>

\* Apply(stateWith(...)) re-asserts every plan's recorded endpoint, then probe.
DialNext(p) ==
    /\ pc = "race" /\ Current(p)
    /\ ~plan[p].fresh /\ cand < Len(plan[p].ord)
    /\ dev = "up"
    /\ plan' = [plan EXCEPT ![p].des = plan[p].ord[cand + 1]]
    /\ Configure(Planned, [q \in Name |-> plan'[q].des])
    /\ cand' = cand + 1
    /\ shook' = FALSE
    /\ pc' = "wait"
    /\ UNCHANGED <<rosterVars, todo, lastGood, routes>>

\* Apply fails, always if there is no link: break, and the peer counts as exhausted.
DialFails(p) ==
    /\ pc = "race" /\ Current(p)
    /\ ~plan[p].fresh /\ cand < Len(plan[p].ord)
    /\ ~Calm
    /\ plan' = [plan EXCEPT ![p].des = plan[p].ord[cand + 1]]
    /\ lastGood' = [lastGood EXCEPT ![p] = NoAddr]
    /\ PassOver(p)
    /\ UNCHANGED <<rosterVars, kernelVars, shook, routes>>

\* tryConnect: a poll sees a handshake later than the dial.
HandshakeSeen(p) ==
    /\ pc = "wait" /\ Current(p) /\ shook
    /\ pc' = "won"
    /\ UNCHANGED <<rosterVars, kernelVars, passVars, lastGood, routes>>

WinDialed(p) ==
    /\ pc = "won" /\ Current(p)
    /\ lastGood' = [lastGood EXCEPT ![p] = plan[p].ord[cand]]
    /\ PassOver(p)
    /\ UNCHANGED <<rosterVars, kernelVars, plan, shook, routes>>

\* Credit the endpoint the kernel tracks by now, the dialed one if it tracks none.
Win(p) ==
    /\ pc = "won" /\ Current(p)
    /\ LET win == IF ep[p] # NoAddr THEN ep[p] ELSE plan[p].ord[cand]
       IN  /\ plan' = [plan EXCEPT ![p].win = win, ![p].des = win]
           /\ lastGood' = [lastGood EXCEPT ![p] = win]
    /\ PassOver(p)
    /\ UNCHANGED <<rosterVars, kernelVars, shook, routes>>

\* raceWait passes without a poll that sees a handshake.
TimesOut(p) ==
    /\ pc = "wait" /\ Current(p)
    /\ ~(Calm /\ ep[p] = Home[p])
    /\ \/ /\ cand < Len(plan[p].ord)
          /\ pc' = "race"
          /\ UNCHANGED <<todo, cand, lastGood>>
       \/ /\ cand = Len(plan[p].ord)
          /\ lastGood' = [lastGood EXCEPT ![p] = NoAddr]
          /\ PassOver(p)
    /\ UNCHANGED <<rosterVars, kernelVars, plan, shook, routes>>

RaceOver ==
    /\ pc = "race" /\ todo = {}
    /\ pc' = "routes"
    /\ UNCHANGED <<rosterVars, kernelVars, passVars, lastGood, routes>>

-----------------------------------------------------------------------------
(* Routes for announced subnets, then the router's part of the pass.       *)

Announced == UNION {plan[p].adv : p \in Planned}

\* ApplyRoutes is called only when something is announced.
RoutesSkipped ==
    /\ pc = "routes" /\ Announced = {}
    /\ pc' = "nat"
    /\ UNCHANGED <<rosterVars, kernelVars, passVars, lastGood, routes>>

RoutesOk ==
    /\ pc = "routes" /\ Announced # {} /\ dev = "up"
    /\ kroutes' = Announced \cup (kroutes \ routes)
    /\ routes' = Announced
    /\ pc' = "nat"
    /\ UNCHANGED <<rosterVars, dev, kpeers, ep, seen, hs, owner, passVars, lastGood>>

\* An add or, once all are added, a delete fails: ld.routes keeps its value.
RoutesFail ==
    /\ pc = "routes" /\ Announced # {}
    /\ \/ dev = "gone" /\ UNCHANGED kroutes
       \/ dev = "up" /\ \E done \in SUBSET Announced : kroutes' = kroutes \cup done
       \/ dev = "up" /\ \E done \in SUBSET (routes \ Announced) :
                           kroutes' = (kroutes \cup Announced) \ done
    /\ pc' = "nat"
    /\ UNCHANGED <<rosterVars, dev, kpeers, ep, seen, hs, owner, passVars, lastGood, routes>>

\* syncNat: forwarding, masquerade and port rules are asserted; Tick returns.
SyncNat ==
    /\ pc = "nat"
    /\ pc' = "idle"
    /\ PassEnds
    /\ UNCHANGED <<rosterVars, kernelVars, lastGood, routes>>

-----------------------------------------------------------------------------
(* The process.                                                            *)

\* NewDaemon and Setup: the interface is created if it is missing.
Start ==
    /\ pc = "down"
    /\ pc' = "idle"
    /\ dev' = "up"
    /\ UNCHANGED <<rosterVars, kpeers, ep, seen, hs, owner, kroutes, passVars, lastGood,
                   routes>>

LoseMemory ==
    /\ pc' = "down"
    /\ PassEnds
    /\ lastGood' = [p \in Name |-> NoAddr]
    /\ routes' = {}

\* Killed: the interface stays as it is.
Crash ==
    /\ pc \notin {"down", "stopped"}
    /\ ~Calm
    /\ LoseMemory
    /\ UNCHANGED <<rosterVars, kernelVars>>

\* Run returned: main deletes the interface and exits.
Exit ==
    /\ pc = "stopped"
    /\ LinkDel
    /\ LoseMemory
    /\ UNCHANGED rosterVars

-----------------------------------------------------------------------------
(* Everybody else: meshd -stop or an operator, the peers, the roster.      *)

DeviceDeleted ==
    /\ dev = "up" /\ ~Calm
    /\ LinkDel
    /\ shook' = FALSE
    /\ UNCHANGED <<rosterVars, pc, plan, todo, cand, lastGood, routes>>

\* A handshake completes, dialed by either side; the kernel tracks its source.
Handshake(p, a) ==
    /\ p \in kpeers
    /\ Calm => a = Home[p] /\ ep[p] = a
    /\ ep' = [ep EXCEPT ![p] = a]
    /\ seen' = [seen EXCEPT ![p] = TRUE]
    /\ hs' = [hs EXCEPT ![p] = "live"]
    /\ shook' = (shook \/ (pc = "wait" /\ Current(p)))
    /\ UNCHANGED <<rosterVars, dev, kpeers, owner, kroutes, pc, plan, todo, cand,
                   lastGood, routes>>

\* Authenticated traffic of a live session arrives from another address.
Roam(p, a) ==
    /\ p \in kpeers /\ hs[p] = "live"
    /\ ~Calm
    /\ ep' = [ep EXCEPT ![p] = a]
    /\ seen' = [seen EXCEPT ![p] = TRUE]
    /\ UNCHANGED <<rosterVars, dev, kpeers, hs, owner, kroutes, daemonVars>>

\* StaleAfter passes without a handshake.
GoesStale(p) ==
    /\ hs[p] = "live"
    /\ hs' = [hs EXCEPT ![p] = "stale"]
    /\ UNCHANGED <<rosterVars, dev, kpeers, ep, seen, owner, kroutes, daemonVars>>

Publish(p) ==
    /\ ~Calm
    /\ listed' = listed \cup {p}
    /\ \E r \in [dial: Dial, adv: SUBSET Subnet] : pub' = [pub EXCEPT ![p] = r]
    /\ UNCHANGED <<kernelVars, daemonVars>>

Unlist(p) ==
    /\ ~Calm
    /\ listed' = listed \ {p}
    /\ UNCHANGED <<pub, kernelVars, daemonVars>>

-----------------------------------------------------------------------------

\* The steps of a pass.
Pass ==
    \/ BuildPlans \/ SampleFresh \/ ApplyReads \/ ApplyInitial \/ ApplyFails \/ ApplyGone
    \/ \E p \in Name : Adopt(p) \/ NothingToDial(p) \/ DialNext(p) \/ DialFails(p)
                       \/ HandshakeSeen(p) \/ Win(p) \/ TimesOut(p)
    \/ RaceOver \/ RoutesSkipped \/ RoutesOk \/ RoutesFail \/ SyncNat

Environment ==
    \/ DeviceDeleted
    \/ \E p \in Name, a \in Addr : Handshake(p, a) \/ Roam(p, a)
    \/ \E p \in Name : GoesStale(p)
    \/ \E p \in Peer : Publish(p) \/ Unlist(p)

Next == Pass \/ Start \/ Crash \/ Exit \/ Environment

Spec == Init /\ [][Next]_vars

(***************************************************************************)
(* The goroutine keeps taking steps (its calls return or time out and its  *)
(* ticker fires), and the daemon is started; the roster is readable again  *)
(* and again, so BuildPlans cannot be put off for ever by failed fetches.  *)
(***************************************************************************)
FairSpec == Spec /\ WF_vars(Pass) /\ WF_vars(Start) /\ WF_vars(Exit)

-----------------------------------------------------------------------------
(* Properties.                                                             *)

(***************************************************************************)
(* A peer whose session was live when the pass sampled it keeps the        *)
(* endpoint the kernel tracks through every Apply of that pass, however    *)
(* many other peers are raced meanwhile (daemon.go:230-236).               *)
(***************************************************************************)
SampledFreshUntouched ==
    [][Pass => \A p \in kpeers' : plan[p].fresh => ep'[p] = ep[p]]_vars

(***************************************************************************)
(* While there is an interface, the endpoint credited with a win is one    *)
(* the peer's own authenticated traffic came from, not merely the one that *)
(* was dialed, whatever happens between the poll that saw a handshake and  *)
(* the read of the endpoint (daemon.go:277-293).                           *)
(***************************************************************************)
WinIsProven ==
    [][\A p \in Name : Win(p) /\ dev = "up" => seen[p] /\ lastGood'[p] = ep[p]]_vars

(***************************************************************************)
(* From the first Apply of a pass to its end the interface has exactly the *)
(* planned peers, unless it was deleted (device_linux.go:90).              *)
(***************************************************************************)
Converged ==
    pc \in {"race", "wait", "won", "routes", "nat"} /\ dev = "up" => kpeers = Planned

(***************************************************************************)
(* When ApplyRoutes succeeds, every subnet a planned peer announces is     *)
(* routed into the interface and handed by it to a peer that announces it  *)
(* (daemon.go:302-310, device_linux.go:139-167).                           *)
(***************************************************************************)
AnnouncedIsReachable ==
    [][RoutesOk => \A s \in Announced : /\ s \in kroutes'
                                        /\ owner[s] \in Planned
                                        /\ s \in plan[owner[s]].adv]_vars

(***************************************************************************)
(* Once the interface has been deleted under it the daemon comes to a stop *)
(* (device.go:11-15).                                                      *)
(***************************************************************************)
GoneStops == (dev = "gone" /\ pc # "down") ~> pc \in {"stopped", "down"}

(***************************************************************************)
(* A peer that stays where its record says it is, on a calm network, is    *)
(* connected again and again, whatever winner is on record from before and *)
(* whatever the order of candidates (daemon.go:244-300).                   *)
(***************************************************************************)
Reconnects == \A p \in Peer : []<>(hs[p] = "live")
=============================================================================
