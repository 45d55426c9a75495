------------------------------- MODULE Router -------------------------------
(***************************************************************************)
(* The host state a daemon manages beside its interface (linuxRouter, and  *)
(* the daemon's syncNat that drives it): the accepts for the transport     *)
(* port, the masquerade rules, the tagged accepts in foreign drop-policy   *)
(* chains and ip_forward.  One step is one iptables, nft or sysctl         *)
(* command, so that `meshd -stop`, other tools on the host and a kill may  *)
(* come between any two of them.                                           *)
(***************************************************************************)
EXTENDS Integers, FiniteSets

CONSTANTS
    Fam,         \* "v4" and, when ip6tables is there, "v6"
    Spoke,       \* spokes; each stands for its masquerade rule as well
    Subnet,      \* subnets that may be announced, likewise
    InChain,     \* foreign input-hook chains with a drop policy
    FwdChain,    \* foreign forward-hook chains with a drop policy
    SelfHeal,    \* firewall_selfheal
    ReadOnly,    \* /proc/sys is mounted read-only
    OperatorOpens,  \* the operator may have the same accept for the port
    OthersForward,  \* other software may turn forwarding on
    MaxCrashes, MaxFails, MaxWipes   \* bounds on kills, failed commands, wipes

Key == Spoke \cup Subnet
Chain == InChain \cup FwdChain

ASSUME RouterAssumption ==
    /\ "v4" \in Fam /\ Fam \subseteq {"v4", "v6"}
    /\ Spoke \cap Subnet = {}
    /\ InChain \cap FwdChain = {} /\ "replaced" \notin Chain
    /\ {SelfHeal, ReadOnly, OperatorOpens, OthersForward} \subseteq BOOLEAN
    /\ {MaxCrashes, MaxFails, MaxWipes} \subseteq Nat

VARIABLES
    \* the host
    port,      \* port[f]: INPUT accepts for the listen port
    nat,       \* nat[k]: copies of the masquerade rule of k
    tag,       \* chains that hold our tagged accepts
    fwd,       \* ip_forward is 1
    base,      \* ip_forward would be 1 without meshd
    oper,      \* families in which the operator has an accept for the port
    dev,       \* the interface exists
    \* the daemon
    pc,        \* where it is
    todo,      \* what its current loop has still to visit
    chains,    \* the chains a self-heal has still to visit, or Close has listed
    added, announceNAT, taggedChains, fwdSet, priorFwd,  \* linuxRouter
    spokes, spokeSrc, fwdWarned, announce,               \* Daemon, Config
    \* meshd -stop, and the environment's budget
    stop,
    found,     \* the chains in which -stop has listed tagged rules
    killed,    \* a daemon has died without Close since -stop last began
    aborted,   \* a batch of deletes was refused as a listed rule had gone
    crashes, fails, wipes

host   == <<port, nat, tag, fwd, base, oper, dev>>
router == <<added, announceNAT, taggedChains, fwdSet, priorFwd>>
daemon == <<spokes, spokeSrc, fwdWarned, announce>>
flow   == <<pc, todo, chains>>
budget == <<crashes, fails, wipes>>
stopper == <<stop, found, killed, aborted>>
vars == <<host, flow, router, daemon, stopper, budget>>

TypeOK ==
    /\ port \in [Fam -> 0 .. 2 + MaxFails]
    /\ nat \in [Key -> 0 .. 1 + MaxCrashes + MaxFails]
    /\ tag \subseteq Chain
    /\ {fwd, base, dev} \subseteq BOOLEAN
    /\ oper \subseteq Fam
    /\ pc \in {"down", "open", "openInsert", "heal", "setupFwd", "setupHeal", "idle", "fwd", "fwdHeal",
               "announce", "ensure", "ensureInsert", "srcDel", "srcAdd", "close",
               "closePort", "closeTags", "closeBatch", "closeFwd"}
    /\ todo \subseteq Fam \cup Key
    /\ chains \subseteq Chain
    /\ added \subseteq Spoke /\ announceNAT \subseteq announce
    /\ taggedChains \subseteq Chain
    /\ {fwdSet, priorFwd, fwdWarned} \subseteq BOOLEAN
    /\ spokes \subseteq Spoke /\ spokeSrc \subseteq Spoke
    /\ announce \subseteq Subnet
    /\ stop \in {"none", "port", "nat", "tags", "batch", "link", "done"}
    /\ found \subseteq Chain \cup {"replaced"}
    /\ {killed, aborted} \subseteq BOOLEAN
    /\ crashes \in 0 .. MaxCrashes /\ fails \in 0 .. MaxFails /\ wipes \in 0 .. MaxWipes

Init ==
    /\ oper = {} /\ port = [f \in Fam |-> 0]
    /\ nat = [k \in Key |-> 0]
    /\ tag = {}
    /\ fwd \in BOOLEAN /\ base = fwd
    /\ dev = FALSE
    /\ pc = "down" /\ todo = {} /\ chains = {}
    /\ added = {} /\ announceNAT = {} /\ taggedChains = {}
    /\ fwdSet = FALSE /\ priorFwd = fwd
    /\ spokes = {} /\ spokeSrc = {} /\ fwdWarned = FALSE /\ announce = {}
    /\ stop = "none" /\ found = {} /\ killed = FALSE /\ aborted = FALSE
    /\ crashes = 0 /\ fails = 0 /\ wipes = 0

-----------------------------------------------------------------------------
(* Commands.                                                               *)

\* A command that is refused (xtables lock, netlink or permission error).
Refused == fails < MaxFails /\ fails' = fails + 1
Done == fails' = fails

Insert(k) == nat' = [nat EXCEPT ![k] = @ + 1]

\* iptables -D takes out one copy, and fails when there is none.
Delete(k) ==
    IF nat[k] > 0 THEN nat' = [nat EXCEPT ![k] = @ - 1] ELSE nat' = nat

\* delIPTRule: probe, then delete; a failure is only logged.
delIPTRule(f) ==
    IF port[f] > 0 THEN port' = [port EXCEPT ![f] = @ - 1] ELSE port' = port

\* Both families are served in the code's order.
First(fs) == IF "v4" \in fs THEN "v4" ELSE "v6"

\* The memory of a process: empty when it starts, gone when it ends.
Forget ==
    /\ todo' = {} /\ chains' = {}
    /\ added' = {} /\ announceNAT' = {} /\ taggedChains' = {} /\ fwdSet' = FALSE
    /\ spokes' = {} /\ spokeSrc' = {} /\ fwdWarned' = FALSE

-----------------------------------------------------------------------------
(* NewLinuxRouter, and the daemon's Setup.                                 *)

Start ==
    /\ pc = "down"
    /\ pc' = "open" /\ todo' = Fam
    /\ priorFwd' = fwd
    /\ announce' \in SUBSET Subnet
    /\ stop' = IF stop = "done" THEN "none" ELSE stop
    /\ UNCHANGED <<host, chains, added, announceNAT, taggedChains, fwdSet, spokes, spokeSrc,
                   fwdWarned, found, killed, aborted, budget>>

\* Probes that never look at the second family.
ProbeFirstOnly ==
    /\ pc \in {"open", "ensure"} /\ todo # {}
    /\ LET f == First(todo)
       IN  \/ /\ port[f] > 0 \/ f # "v4"
              /\ todo' = todo \ {f} /\ pc' = pc /\ Done
           \/ /\ f = "v4" /\ port[f] = 0 /\ Done
              /\ pc' = IF pc = "open" THEN "openInsert" ELSE "ensureInsert"
              /\ todo' = todo
    /\ UNCHANGED <<host, chains, router, daemon, stopper, crashes, wipes>>

(***************************************************************************)
(* The -C probe of openPort and of EnsurePort.  Every error of the probe,  *)
(* a refusal included, reads as "the rule is not there".                   *)
(***************************************************************************)
ProbePort ==
    /\ pc \in {"open", "ensure"} /\ todo # {}
    /\ LET f == First(todo)
       IN  \/ /\ port[f] > 0 /\ Done
              /\ todo' = todo \ {f} /\ pc' = pc
           \/ /\ IF port[f] = 0 THEN Done ELSE Refused
              /\ pc' = IF pc = "open" THEN "openInsert" ELSE "ensureInsert"
              /\ todo' = todo
    /\ UNCHANGED <<host, chains, router, daemon, stopper, crashes, wipes>>

InsertPort ==
    /\ pc \in {"openInsert", "ensureInsert"}
    /\ LET f == First(todo)
       IN  /\ port' = [port EXCEPT ![f] = @ + 1]
           /\ todo' = todo \ {f}
    /\ pc' = IF pc = "openInsert" THEN "open" ELSE "ensure"
    /\ UNCHANGED <<nat, tag, fwd, base, oper, dev, chains, router, daemon, stopper, budget>>

\* EnsurePort logs a failed insert and goes on.
InsertRefused ==
    /\ pc = "ensureInsert" /\ Refused
    /\ todo' = todo \ {First(todo)} /\ pc' = "ensure"
    /\ UNCHANGED <<host, chains, router, daemon, stopper, crashes, wipes>>

\* openPort returns it, and main exits; so it does when Setup fails, before or
\* after it has made the interface.  Nothing is closed on this way out.
StartFails ==
    /\ \/ pc = "openInsert" /\ dev' = dev
       \/ pc = "heal" /\ chains = {} /\ dev' \in {dev, TRUE}
    /\ Refused
    /\ pc' = "down" /\ Forget /\ killed' = TRUE
    /\ UNCHANGED <<port, nat, tag, fwd, base, oper, priorFwd, announce, stop, found, aborted,
                   crashes, wipes>>

PortOpen ==
    /\ pc = "open" /\ todo = {}
    /\ pc' = "heal" /\ chains' = IF SelfHeal THEN InChain ELSE {}
    /\ UNCHANGED <<host, todo, router, daemon, stopper, budget>>

\* Self-heal that does not keep track.
HealUntracked(c) ==
    /\ Done /\ chains' = chains \ {c}
    /\ tag' = tag \cup {c}
    /\ found' = IF c \in found \ tag THEN found \cup {"replaced"} ELSE found
    /\ UNCHANGED <<port, nat, fwd, base, oper, dev, pc, todo, router, daemon, stop, killed,
                   aborted, crashes, wipes>>

(***************************************************************************)
(* One round of a self-heal: a chain that carries our tag is skipped, and  *)
(* is then not tracked either; a failed flush is logged.  The new rules    *)
(* have new handles: they are not the ones -stop may have listed there.    *)
(***************************************************************************)
HealChain(c) ==
    /\ chains' = chains \ {c}
    /\ \/ /\ c \in tag /\ Done
          /\ UNCHANGED <<tag, taggedChains, found>>
       \/ /\ c \notin tag /\ Done
          /\ tag' = tag \cup {c} /\ taggedChains' = taggedChains \cup {c}
          /\ found' = IF c \in found THEN found \cup {"replaced"} ELSE found
       \/ /\ c \notin tag /\ Refused
          /\ UNCHANGED <<tag, taggedChains, found>>
    /\ UNCHANGED <<port, nat, fwd, base, oper, dev, pc, todo, added, announceNAT,
                   fwdSet, priorFwd, daemon, stop, killed, aborted, crashes, wipes>>

InputSelfHeal == pc = "heal" /\ \E c \in chains : HealChain(c)

\* Runs once in a process: Forwarding does not come here when fwdSet.
ForwardSelfHeal == pc \in {"setupHeal", "fwdHeal"} /\ \E c \in chains : HealChain(c)

\* A node that announces asks for forwarding at once.
Setup ==
    /\ pc = "heal" /\ chains = {}
    /\ pc' = IF announce # {} THEN "setupFwd" ELSE "idle"
    /\ dev' = TRUE
    /\ UNCHANGED <<port, nat, tag, fwd, base, oper, todo, chains, router, daemon, stopper,
                   budget>>

-----------------------------------------------------------------------------
(* syncNat.                                                                *)

\* A pass that got as far as syncNat; reloadSpokes has read the spokes file.
PassBegins ==
    /\ pc = "idle" /\ dev
    /\ spokes' \in SUBSET Spoke
    /\ IF fwdWarned THEN pc' = "announce" /\ todo' = announce \ announceNAT
                    ELSE pc' = "fwd" /\ todo' = {}
    /\ UNCHANGED <<host, chains, router, spokeSrc, fwdWarned, announce, stopper, budget>>

CanForward == fwd \/ ~ReadOnly

(***************************************************************************)
(* Forwarding, when it is not set yet: asked for by Setup, by syncNat,     *)
(* once, and by AddSource.  A value that is already 1 counts as ours.      *)
(***************************************************************************)
Forwarding ==
    /\ pc \in {"setupFwd", "fwd"} \/ (pc = "srcAdd" /\ todo # {})
    /\ ~fwdSet /\ CanForward
    /\ fwd' = TRUE /\ fwdSet' = TRUE
    /\ pc' = IF pc = "setupFwd" THEN "setupHeal" ELSE "fwdHeal"
    /\ chains' = IF SelfHeal THEN FwdChain ELSE {}
    /\ UNCHANGED <<port, nat, tag, base, oper, dev, todo, added, announceNAT, taggedChains,
                   priorFwd, daemon, stopper, budget>>

(***************************************************************************)
(* Its caller goes on: after the self-heal, at once if it was set already, *)
(* and also when the write fails, of which syncNat warns before it gives   *)
(* up asking.                                                              *)
(***************************************************************************)
ForwardingReturns ==
    /\ \/ pc \in {"setupHeal", "fwdHeal"} /\ chains = {}
       \/ pc \in {"setupFwd", "fwd"} /\ (fwdSet \/ ~CanForward)
    /\ \/ /\ pc \in {"setupFwd", "setupHeal"}
          /\ pc' = "idle" /\ UNCHANGED <<todo, fwdWarned>>
       \/ /\ pc \in {"fwd", "fwdHeal"} /\ ~fwdWarned
          /\ pc' = "announce" /\ todo' = announce \ announceNAT /\ fwdWarned' = TRUE
       \/ /\ pc = "fwdHeal" /\ fwdWarned
          /\ pc' = "srcAdd" /\ UNCHANGED <<todo, fwdWarned>>
    /\ UNCHANGED <<host, chains, router, spokes, spokeSrc, announce, stopper, budget>>

(***************************************************************************)
(* AnnounceNAT.  The daemon passes the same announcements all its life, so *)
(* no key ever leaves announceNAT and only the adding half is reached.     *)
(***************************************************************************)
AnnounceNAT ==
    \E k \in todo :
        /\ pc = "announce"
        /\ todo' = todo \ {k}
        /\ \/ Done /\ Insert(k) /\ announceNAT' = announceNAT \cup {k}
           \/ Refused /\ UNCHANGED <<nat, announceNAT>>
        /\ UNCHANGED <<port, tag, fwd, base, oper, dev, pc, chains, added, taggedChains,
                       fwdSet, priorFwd, daemon, stopper, crashes, wipes>>

EnsurePort ==
    /\ pc = "announce" /\ todo = {}
    /\ pc' = "ensure" /\ todo' = Fam
    /\ UNCHANGED <<host, chains, router, daemon, stopper, budget>>

PortEnsured ==
    /\ pc = "ensure" /\ todo = {}
    /\ pc' = "srcDel" /\ todo' = spokeSrc \ spokes
    /\ UNCHANGED <<host, chains, router, daemon, stopper, budget>>

\* The name leaves spokeSrc though its rule stays.
RemoveSourceForgets ==
    \E s \in todo :
        /\ pc = "srcDel"
        /\ todo' = todo \ {s} /\ spokeSrc' = spokeSrc \ {s} /\ added' = added \ {s}
        /\ Done
        /\ UNCHANGED <<host, pc, chains, announceNAT, taggedChains, fwdSet, priorFwd,
                       spokes, fwdWarned, announce, stopper, crashes, wipes>>

(***************************************************************************)
(* RemoveSource of a departed spoke.  When the delete fails the address    *)
(* stays in added, but syncNat drops the name in any case and so never     *)
(* tries again.                                                            *)
(***************************************************************************)
RemoveSource ==
    \E s \in todo :
        /\ pc = "srcDel"
        /\ todo' = todo \ {s} /\ spokeSrc' = spokeSrc \ {s}
        /\ \/ Done /\ Delete(s) /\ added' = IF nat[s] > 0 THEN added \ {s} ELSE added
           \/ nat[s] > 0 /\ Refused /\ UNCHANGED <<nat, added>>
        /\ UNCHANGED <<port, tag, fwd, base, oper, dev, pc, chains, announceNAT, taggedChains,
                       fwdSet, priorFwd, spokes, fwdWarned, announce, stopper, crashes, wipes>>

SourcesRemoved ==
    /\ pc = "srcDel" /\ todo = {}
    /\ pc' = "srcAdd" /\ todo' = spokes \ spokeSrc
    /\ UNCHANGED <<host, chains, router, daemon, stopper, budget>>

(***************************************************************************)
(* AddSource of a new spoke, once Forwarding is settled.  An address in    *)
(* added is taken to have its rule.                                        *)
(***************************************************************************)
AddSource ==
    \E s \in todo :
        /\ pc = "srcAdd"
        /\ fwdSet \/ ~CanForward
        /\ todo' = todo \ {s}
        /\ \/ s \in added /\ Done /\ UNCHANGED <<nat, added>> /\ spokeSrc' = spokeSrc \cup {s}
           \/ /\ s \notin added /\ Done /\ Insert(s)
              /\ added' = added \cup {s} /\ spokeSrc' = spokeSrc \cup {s}
           \/ s \notin added /\ Refused /\ UNCHANGED <<nat, added, spokeSrc>>
        /\ UNCHANGED <<port, tag, fwd, base, oper, dev, pc, chains, announceNAT, taggedChains,
                       fwdSet, priorFwd, spokes, fwdWarned, announce, stopper, crashes, wipes>>

PassEnds ==
    /\ pc = "srcAdd" /\ todo = {}
    /\ pc' = "idle"
    /\ UNCHANGED <<host, todo, chains, router, daemon, stopper, budget>>

-----------------------------------------------------------------------------
(* The way down: Run has returned, and main calls the stopper.             *)

CloseBegins ==
    /\ pc' = "close" /\ todo' = announceNAT \cup added
    /\ UNCHANGED <<host, chains, router, daemon, stopper, budget>>

Signal == pc = "idle" /\ CloseBegins

DeviceGone == pc = "idle" /\ ~dev /\ CloseBegins

CloseNat ==
    \E k \in todo :
        /\ pc = "close"
        /\ todo' = todo \ {k}
        /\ \/ Done /\ Delete(k)
           \/ nat[k] > 0 /\ Refused /\ nat' = nat
        /\ UNCHANGED <<port, tag, fwd, base, oper, dev, pc, chains, router, daemon, stopper,
                       crashes, wipes>>

CloseNatDone ==
    /\ pc = "close" /\ todo = {}
    /\ pc' = "closePort" /\ todo' = Fam
    /\ added' = {} /\ announceNAT' = {}
    /\ UNCHANGED <<host, chains, taggedChains, fwdSet, priorFwd, daemon, stopper, budget>>

\* The accept goes whether this daemon inserted it or found it there.
ClosePort ==
    /\ pc = "closePort" /\ todo # {}
    /\ LET f == First(todo)
       IN  /\ todo' = todo \ {f}
           /\ \/ Done /\ delIPTRule(f)
              \/ port[f] > 0 /\ Refused /\ port' = port
    /\ UNCHANGED <<nat, tag, fwd, base, oper, dev, pc, chains, router, daemon, stopper,
                   crashes, wipes>>

ClosePortDone ==
    /\ pc = "closePort" /\ todo = {}
    /\ pc' = "closeTags"
    /\ UNCHANGED <<host, todo, chains, router, daemon, stopper, budget>>

\* The rules to delete are listed chain by chain; a failed listing is skipped.
CloseTags ==
    /\ pc = "closeTags"
    /\ \/ Done /\ chains' = tag \cap taggedChains
       \/ Refused /\ chains' \in SUBSET (tag \cap taggedChains)
    /\ pc' = "closeBatch"
    /\ UNCHANGED <<host, todo, router, daemon, stopper, crashes, wipes>>

\* The deletes are one transaction: a rule that has gone since fails them all.
CloseBatch ==
    /\ pc = "closeBatch"
    /\ \/ chains \subseteq tag /\ Done /\ tag' = tag \ chains /\ aborted' = aborted
       \/ ~(chains \subseteq tag) /\ Done /\ tag' = tag /\ aborted' = TRUE
       \/ chains # {} /\ Refused /\ tag' = tag /\ aborted' = aborted
    /\ chains' = {} /\ taggedChains' = {} /\ pc' = "closeFwd"
    /\ UNCHANGED <<port, nat, fwd, base, oper, dev, todo, added, announceNAT, fwdSet,
                   priorFwd, daemon, stop, found, killed, crashes, wipes>>

\* Forwarding is always turned off.
CloseFwdOff ==
    /\ pc = "closeFwd"
    /\ fwd' = FALSE /\ dev' = FALSE /\ pc' = "down" /\ Forget
    /\ UNCHANGED <<port, nat, tag, base, oper, priorFwd, announce, stopper, budget>>

\* The end of Close, and of the process: the interface is deleted.
CloseFwd ==
    /\ pc = "closeFwd"
    /\ fwd' = IF fwdSet /\ ~ReadOnly THEN priorFwd ELSE fwd
    /\ dev' = FALSE /\ pc' = "down" /\ Forget
    /\ UNCHANGED <<port, nat, tag, base, oper, priorFwd, announce, stopper, budget>>

-----------------------------------------------------------------------------
(* meshd -stop, a process of its own.  CleanupFirewall goes by the config  *)
(* and by the tags; the interface goes last.                               *)

StopBegins ==
    /\ stop = "none"
    /\ stop' = "port" /\ killed' = FALSE
    /\ UNCHANGED <<host, flow, router, daemon, found, aborted, budget>>

StopPort ==
    /\ stop = "port"
    /\ port' = [f \in Fam |-> IF port[f] > 0 THEN port[f] - 1 ELSE 0]
    /\ stop' = "nat"
    /\ UNCHANGED <<nat, tag, fwd, base, oper, dev, flow, router, daemon, found, killed,
                   aborted, budget>>

\* Without the sweep over the comment one copy of each rule goes that the list
\* and the announcements of the moment call for.
StopNatListed ==
    /\ stop = "nat"
    /\ \E listed \in SUBSET Spoke :
          nat' = [k \in Key |-> IF k \in listed \cup announce /\ nat[k] > 0 THEN nat[k] - 1
                                                                           ELSE nat[k]]
    /\ stop' = "tags"
    /\ UNCHANGED <<port, tag, fwd, base, oper, dev, flow, router, daemon, found, killed,
                   aborted, budget>>

\* The configured rules, then every line of iptables-save with our comment.
StopNat ==
    /\ stop = "nat"
    /\ nat' = [k \in Key |-> 0]
    /\ stop' = "tags"
    /\ UNCHANGED <<port, tag, fwd, base, oper, dev, flow, router, daemon, found, killed,
                   aborted, budget>>

StopTags ==
    /\ stop = "tags"
    /\ found' = tag
    /\ stop' = "batch"
    /\ UNCHANGED <<host, flow, router, daemon, killed, aborted, budget>>

\* One transaction here too; its error is ignored.
StopBatch ==
    /\ stop = "batch"
    /\ \/ found \subseteq tag /\ tag' = tag \ found /\ aborted' = aborted
       \/ ~(found \subseteq tag) /\ tag' = tag /\ aborted' = TRUE
    /\ found' = {} /\ stop' = "link"
    /\ UNCHANGED <<port, nat, fwd, base, oper, dev, flow, router, daemon, killed, budget>>

StopLink ==
    /\ stop = "link"
    /\ dev' = FALSE
    /\ stop' = "done"
    /\ UNCHANGED <<port, nat, tag, fwd, base, oper, flow, router, daemon, found, killed,
                   aborted, budget>>

-----------------------------------------------------------------------------
(* The environment.                                                        *)

\* SIGKILL, a panic, the OOM killer: what is in the host stays there.
Crash ==
    /\ pc # "down" /\ crashes < MaxCrashes
    /\ crashes' = crashes + 1
    /\ pc' = "down" /\ Forget /\ killed' = TRUE
    /\ UNCHANGED <<host, priorFwd, announce, stop, found, aborted, fails, wipes>>

\* A firewall manager reloads its own idea of the rules.
Wipe ==
    /\ wipes < MaxWipes /\ wipes' = wipes + 1
    /\ \/ /\ \E f \in Fam : port' = [port EXCEPT ![f] = 0] /\ oper' = oper \ {f}
          /\ UNCHANGED <<nat, tag>>
       \/ nat' = [k \in Key |-> 0] /\ UNCHANGED <<port, oper, tag>>
       \/ tag' \in SUBSET tag /\ UNCHANGED <<port, oper, nat>>
    /\ UNCHANGED <<fwd, base, dev, flow, router, daemon, stopper, crashes, fails>>

OperatorAccepts ==
    /\ OperatorOpens
    /\ \E f \in Fam \ oper :
          /\ oper' = oper \cup {f}
          /\ port' = [port EXCEPT ![f] = @ + 1]
    /\ UNCHANGED <<nat, tag, fwd, base, dev, flow, router, daemon, stopper, budget>>

OtherForwards ==
    /\ OthersForward /\ ~base
    /\ base' = TRUE /\ fwd' = TRUE
    /\ UNCHANGED <<port, nat, tag, oper, dev, flow, router, daemon, stopper, budget>>

DaemonStep ==
    \/ ProbePort \/ InsertPort \/ InsertRefused \/ PortOpen \/ InputSelfHeal \/ Setup
    \/ ForwardSelfHeal
    \/ PassBegins \/ Forwarding \/ ForwardingReturns \/ AnnounceNAT
    \/ EnsurePort \/ PortEnsured \/ RemoveSource \/ SourcesRemoved \/ AddSource \/ PassEnds
    \/ DeviceGone \/ CloseNat \/ CloseNatDone \/ ClosePort \/ ClosePortDone \/ CloseTags
    \/ CloseBatch \/ CloseFwd

StopStep == StopPort \/ StopNat \/ StopTags \/ StopBatch \/ StopLink

Next ==
    \/ Start \/ StartFails \/ DaemonStep \/ Signal
    \/ StopBegins \/ StopStep
    \/ Crash \/ Wipe \/ OperatorAccepts \/ OtherForwards

Spec == Init /\ [][Next]_vars

\* The daemon's goroutine runs, and polls.
FairSpec == Spec /\ WF_vars(DaemonStep)

-----------------------------------------------------------------------------
(* Properties.                                                             *)

\* No rule is left but the operator's own accepts.
NoRules == /\ \A f \in Fam : port[f] <= (IF f \in oper THEN 1 ELSE 0)
           /\ \A k \in Key : nat[k] = 0
           /\ tag = {}

(***************************************************************************)
(* linuxRouter: "Everything added is tracked and removed on Close": when   *)
(* Close ends, no accept, masquerade or tagged rule of ours is left,       *)
(* whatever -stop and other tools removed in the meantime, unless that     *)
(* made a batch of nft deletes fail (router.go:39, 795-845).               *)
(***************************************************************************)
CloseLeavesNothing == [][CloseFwd /\ ~aborted => NoRules']_vars

(***************************************************************************)
(* syncNat between two passes: a masquerade rule in the kernel is tracked  *)
(* by the daemon that would have to remove it, exists once, and is there   *)
(* for a spoke in the list it last read or for an announced subnet.        *)
(***************************************************************************)
NatInStep ==
    pc = "idle" =>
        \A k \in Key : nat[k] > 0 => /\ nat[k] = 1
                                      /\ k \in (spokes \cap added) \cup announceNAT

(***************************************************************************)
(* Close: ip_forward is again what it would be had meshd never run.        *)
(***************************************************************************)
ForwardingRestored == [][CloseFwd => fwd' = base]_vars

(***************************************************************************)
(* CleanupFirewall "removes every firewall trace of a meshd run": once     *)
(* -stop is through and the daemon has gone, by Close or before -stop      *)
(* began, no rule is left, also none of a daemon that was killed earlier   *)
(* or that was in the middle of a pass during the sweep, unless a command  *)
(* was refused or a batch of deletes met a rule that had gone              *)
(* (router.go:571-675).                                                    *)
(***************************************************************************)
StopLeavesNothing ==
    stop = "done" /\ pc = "down" /\ ~killed /\ fails = 0 /\ ~aborted => NoRules

(***************************************************************************)
(* RemoveSource and AnnounceNAT under refused commands, a wipe, a kill and *)
(* -stop: until Close is through its rules the process forgets a           *)
(* masquerade rule only with the delete that takes a copy of it out, so    *)
(* one whose delete was refused, which syncNat does not repeat, is left to *)
(* Close and not to nobody.                                                *)
(***************************************************************************)
RefusedStaysTracked ==
    [][\A k \in added \cup announceNAT :
            nat'[k] < nat[k] \/ nat'[k] = 0 \/ k \in added' \cup announceNAT'
                            \/ pc' \in {"closePort", "down"}]_vars

(***************************************************************************)
(* EnsurePort: an accept that a firewall manager wiped comes back, in both *)
(* families, unless the daemon stops.                                      *)
(***************************************************************************)
PortReopens ==
    \A f \in Fam : pc = "idle" /\ port[f] = 0 ~> port[f] > 0 \/ pc = "down"
=============================================================================
