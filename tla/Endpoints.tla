------------------------------ MODULE Endpoints ------------------------------
(***************************************************************************)
(* What a node tells of its reflexive addresses (stun.go), and which of a  *)
(* peer's candidates are dialed, in which order (peers.go).                *)
(* A candidate has a type and an address.  What an address looks like      *)
(* matters only through its host part and through whether that is in a     *)
(* private or CGNAT range.                                                 *)
(***************************************************************************)
EXTENDS Sequences
LOCAL INSTANCE SequencesExt

CONSTANTS
    NoAnswer,   \* a STUN query that failed or timed out
    HostOnly,   \* HostOnly[a]: the host of address a
    PrivateIP   \* hosts in RFC1918 and CGNAT ranges (isPrivateIP)

Cand(type, addr) == [type |-> type, addr |-> addr]

Reflexive(c) == c.type = "srflx"

(***************************************************************************)
(* GatherSRFLX: the answers of the servers, in their order and v4 before   *)
(* v6 for each, without failures and without repeated addresses.           *)
(***************************************************************************)
GatherSRFLX(answers) ==
    FoldLeft(LAMBDA out, a : IF a = NoAnswer \/ \E i \in DOMAIN out : out[i].addr = a
                             THEN out ELSE Append(out, Cand("srflx", a)),
             <<>>, answers)

isPrivateCandidate(c) == HostOnly[c.addr] \in PrivateIP

\* The host of the first reflexive candidate, as a set that may be empty.
srflxIP(cands) ==
    LET refl == SelectSeq(cands, Reflexive)
    IN  IF refl = <<>> THEN {} ELSE {HostOnly[refl[1].addr]}

sameNAT(mine, theirs) ==
    IF {} \in {srflxIP(mine), srflxIP(theirs)} THEN "unknown"
    ELSE IF srflxIP(mine) = srflxIP(theirs) THEN "shared" ELSE "different"

\* A plausible slip: private hosts are dropped unless the NAT is known to be shared.
OrderEndpointsDropsUnknown(mine, theirs) ==
    LET mode  == sameNAT(mine, theirs)
        Dropped(c) == mode # "shared" /\ c.type = "host" /\ isPrivateCandidate(c)
        hosts == SelectSeq(theirs, LAMBDA c : ~Reflexive(c) /\ ~Dropped(c))
        refl  == SelectSeq(theirs, Reflexive)
    IN  IF mode = "different" THEN refl \o hosts ELSE hosts \o refl

(***************************************************************************)
(* OrderEndpoints.  The scores take two values, one for reflexive          *)
(* candidates and one for the rest, so the stable sort puts one group      *)
(* before the other and keeps each in the record's order.                  *)
(***************************************************************************)
OrderEndpoints(mine, theirs) ==
    LET mode  == sameNAT(mine, theirs)
        Dropped(c) == mode = "different" /\ c.type = "host" /\ isPrivateCandidate(c)
        hosts == SelectSeq(theirs, LAMBDA c : ~Reflexive(c) /\ ~Dropped(c))
        refl  == SelectSeq(theirs, Reflexive)
    IN  IF mode = "different" THEN refl \o hosts ELSE hosts \o refl

\* The addresses of a dial order.
AddrsOf(cands) == [i \in DOMAIN cands |-> cands[i].addr]
=============================================================================
