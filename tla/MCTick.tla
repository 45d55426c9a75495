------------------------------- MODULE MCTick -------------------------------
(* Instances of Tick: which peers, endpoints, dial orders and subnets.     *)
EXTENDS Tick, Endpoints

CONSTANTS p1, p2, s1, a1, a2, b1, c1, c2, k1

Order1 == <<p1>>
Order2 == <<p1, p2>>

\* Dial orders of the records that peers publish.
OneEach == {<<a1>>}
NoEndpoint == {<<>>}

HomeA1 == [p \in Peer |-> a1]

(***************************************************************************)
(* Two sites.  p1 is on our LAN, behind the same gateway, and answers at   *)
(* its LAN address a1.  p2 is elsewhere and answers at its public address  *)
(* c1; b1 is private to its site.  a2 and c2 are what STUN told them: the  *)
(* gateway's or their own public host, with the port of the socket that    *)
(* asked, where nobody listens.  STUN may fail, here or at the peer.       *)
(***************************************************************************)
Hosts == [a \in {a1, a2, b1, c1, c2} |->
              CASE a = a1 -> "lan" [] a = a2 -> "gateway" [] a = b1 -> "theirLan"
                [] OTHER -> "public"]
Private == {"lan", "theirLan"}

\* Two servers are asked, each of which may not answer.
Reflexives(a) == {GatherSRFLX(answers) : answers \in [1 .. 2 -> {NoAnswer, a}]}
Mine == Reflexives(a2)
Candidates(p) ==
    IF p = p1 THEN {<<Cand("host", a1)>> \o r : r \in Reflexives(a2)}
    ELSE {<<Cand("host", b1), Cand("host", c1)>> \o r : r \in Reflexives(c2)}
DialsOf(p) == {AddrsOf(OrderEndpoints(m, r)) : m \in Mine, r \in Candidates(p)}

TwoSites == UNION {DialsOf(p) : p \in {p1, p2}}
HomeOf == [p \in Peer |-> IF p = p1 THEN a1 ELSE c1]

\* STUN answers otherwise than in the last pass, at p or here.
Regather(p) ==
    /\ \E d \in DialsOf(p) : pub' = [pub EXCEPT ![p].dial = d]
    /\ UNCHANGED <<listed, kernelVars, daemonVars>>

\* The daemon has been up, and reached its peers at an address they have left since.
Moved ==
    \E old \in {b1, c2} :
        /\ pc = "idle" /\ dev = "up" /\ kpeers = Peer
        /\ ep = [q \in Peer |-> old] /\ lastGood = ep
        /\ seen = [q \in Peer |-> TRUE]
        /\ hs = [q \in Peer |-> "stale"]

\* Either the daemon is still to start, or its winners are out of date.
SitesInit ==
    /\ pub \in [Peer -> [dial: Dial, adv: {{}}]]
    /\ \A p \in Peer : pub[p].dial \in DialsOf(p)
    /\ listed = Peer /\ owner = <<>> /\ kroutes = {} /\ routes = {}
    /\ plan = [p \in Name |-> NoPlan] /\ todo = {} /\ cand = 0 /\ shook = FALSE
    /\ \/ Init
       \/ Moved
SitesNext == Next \/ \E p \in Peer : Regather(p)

\* As FairSpec, and a dial that reaches its peer is answered.
SitesSpec ==
    /\ SitesInit /\ [][SitesNext]_vars
    /\ WF_vars(Pass) /\ WF_vars(Start) /\ \A p \in Peer : WF_vars(Handshake(p, Home[p]))
=============================================================================
