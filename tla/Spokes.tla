------------------------------- MODULE Spokes -------------------------------
(***************************************************************************)
(* The persisted spoke list of a hub.  `meshd export` and `meshd remove`   *)
(* are separate processes that load, change and save the file; the daemon  *)
(* reloads it at the start of every pass and saves its own copy at the end *)
(* of one that evicted somebody.  Nobody takes a lock, and every writer    *)
(* goes through the same temporary file.                                   *)
(*                                                                         *)
(* A file holds lines; names are taken to be of one length, so that a      *)
(* write at offset 0 replaces the lines it covers.  A rename takes the     *)
(* file along under everybody who has it open.                             *)
(***************************************************************************)
EXTENDS Integers, Sequences, FiniteSets, Functions

CONSTANTS
    Spoke,    \* spoke names, as numbers in sort order
    Cli,      \* export and remove processes that may run at the same time
    Daemon,   \* the daemon, as a writer of the file
    Missing,  \* no file of that name
    Nobody    \* no writer

ASSUME SpokesAssumption ==
    /\ Spoke \subseteq Nat /\ Spoke # {} /\ IsFiniteSet(Spoke)
    /\ Daemon \notin Cli /\ Nobody \notin Cli \cup {Daemon}
    /\ Missing \notin Seq(Spoke)

Writer == Cli \cup {Daemon}

VARIABLES
    file,     \* the lines under the list's path
    temp,     \* the lines under path + ".tmp"
    pc,       \* pc[w]: where writer w is
    op,       \* op[w]: what w was asked: the kind and the name
    set,      \* set[w]: the set w loaded and changed; the daemon's dm.spokes
    fd,       \* fd[w]: what the file that w has open is by now
    kpeers,   \* the spokes that are WireGuard peers, and have a NAT rule
    hs,       \* age of a spoke's last handshake
    revoked,  \* history: names reported as removed and not exported since
    disputed, \* history: of those, the ones that others were saving about
    behind,   \* history: the list has changed since the running pass loaded it
    alone,    \* history: the writer who has been saving undisturbed since its load
    quiet     \* history: who was silent when the pass that is saving looked

fileVars == <<file, temp>>
hubVars  == <<kpeers, hs>>
removals == <<revoked, disputed>>
saveVars == <<behind, alone, quiet>>
vars == <<fileVars, pc, op, set, fd, hubVars, removals, saveVars>>

Sorted(S) ==
    CHOOSE s \in [1 .. Cardinality(S) -> S] :
        \A i, j \in DOMAIN s : i < j => s[i] < s[j]

\* LoadSpokes: a missing file is the empty set.
Loaded == IF file = Missing THEN {} ELSE Range(file)

File == Seq(Spoke) \cup {Missing}

TypeOK ==
    /\ file \in File /\ temp \in File
    /\ pc \in [Writer -> {"down", "idle", "load", "plan", "tick", "open", "write",
                         "rename"}]
    /\ op \in [Writer -> [kind: {"export", "remove", "none"}, name: Spoke]]
    /\ set \in [Writer -> SUBSET Spoke]
    /\ fd \in [Writer -> {"none", "temp", "list", "unlinked"}]
    /\ kpeers \subseteq Spoke
    /\ hs \in [Spoke -> {"never", "live", "silent"}]
    /\ revoked \subseteq Spoke /\ disputed \subseteq Spoke
    /\ behind \in BOOLEAN
    /\ alone \in Writer \cup {Nobody}
    /\ quiet \subseteq Spoke

NoOp == [kind |-> "none", name |-> CHOOSE n \in Spoke : TRUE]

Init ==
    /\ \E S \in SUBSET Spoke : file \in {Sorted(S)} \cup {f \in {Missing} : S = {}}
    /\ temp = Missing
    /\ pc = [w \in Writer |-> IF w = Daemon THEN "down" ELSE "idle"]
    /\ op = [w \in Writer |-> NoOp]
    /\ set = [w \in Writer |-> {}]
    /\ fd = [w \in Writer |-> "none"]
    /\ kpeers = {}
    /\ hs = [n \in Spoke |-> "never"]
    /\ revoked = {} /\ disputed = {}
    /\ behind = FALSE
    /\ alone = Nobody
    /\ quiet = {}

-----------------------------------------------------------------------------
(* AddSpoke and RemoveSpoke, run by the command line.                      *)

Saving(w) == pc[w] \in {"open", "write", "rename"}

Undisturbed(w) == \A v \in Writer \ {w} : ~Saving(v)

\* Somebody is saving who met another on the way.
Overlap == \E w \in Writer : Saving(w) /\ alone # w

Ask(c, kind, n) ==
    /\ pc[c] = "idle"
    /\ op' = [op EXCEPT ![c] = [kind |-> kind, name |-> n]]
    /\ revoked' = IF kind = "export" THEN revoked \ {n} ELSE revoked
    /\ disputed' = disputed \cap revoked'
    /\ pc' = [pc EXCEPT ![c] = "load"]
    /\ UNCHANGED <<fileVars, set, fd, hubVars, saveVars>>

\* No other command has been asked to export what c removes.
NobodyExports(c) ==
    \A v \in Writer \ {c} : op[v] # [kind |-> "export", name |-> op[c].name]

EndSave(w) ==
    /\ alone' = IF alone = w THEN Nobody ELSE alone
    /\ quiet' = IF w = Daemon THEN {} ELSE quiet

\* The call returns nil.
Succeed(c, undisturbed) ==
    /\ pc' = [pc EXCEPT ![c] = "idle"]
    /\ op' = [op EXCEPT ![c] = NoOp]
    /\ set' = [set EXCEPT ![c] = IF c = Daemon THEN @ ELSE {}]
    /\ \/ op[c].kind # "remove" /\ UNCHANGED removals
       \/ /\ op[c].kind = "remove"
          /\ revoked' = revoked \cup {op[c].name}
          /\ disputed' = IF undisturbed /\ NobodyExports(c) THEN disputed \ {op[c].name}
                         ELSE disputed \cup {op[c].name}

\* The call returns an error, or the command is killed.
GiveUp(w) ==
    /\ pc[w] \in {"load", "open", "write", "rename"}
    /\ pc' = [pc EXCEPT ![w] = "idle"]
    /\ op' = [op EXCEPT ![w] = NoOp]
    /\ set' = [set EXCEPT ![w] = IF w = Daemon THEN @ ELSE {}]
    /\ fd' = [fd EXCEPT ![w] = "none"]
    /\ behind' = (w # Daemon /\ behind)
    /\ EndSave(w)
    /\ UNCHANGED <<fileVars, hubVars, removals>>

Changed(c) ==
    IF op[c].kind = "export" THEN Loaded \cup {op[c].name} ELSE Loaded \ {op[c].name}

LoadAndChange(c) ==
    /\ pc[c] = "load"
    /\ \/ /\ Changed(c) = Loaded
          /\ Succeed(c, Undisturbed(c))
          /\ UNCHANGED alone
       \/ /\ Changed(c) # Loaded
          /\ set' = [set EXCEPT ![c] = Changed(c)]
          /\ alone' = IF Undisturbed(c) THEN c ELSE Nobody
          /\ pc' = [pc EXCEPT ![c] = "open"]
          /\ UNCHANGED <<op, removals>>
    /\ UNCHANGED <<fileVars, fd, hubVars, behind, quiet>>

-----------------------------------------------------------------------------
(* SaveSpokes: WriteFile of the temporary (open with O_TRUNC, write), then *)
(* Rename over the path.                                                   *)

InPass == pc[Daemon] \notin {"down", "idle"}

OpenPath(w) ==
    /\ pc[w] = "open"
    /\ file' = <<>>
    /\ fd' = [fd EXCEPT ![w] = "list"]
    /\ pc' = [pc EXCEPT ![w] = "write"]
    /\ UNCHANGED <<temp, op, set, hubVars, removals, saveVars>>

OpenTmp(w) ==
    /\ pc[w] = "open"
    /\ temp' = <<>>
    /\ fd' = [fd EXCEPT ![w] = "temp"]
    /\ pc' = [pc EXCEPT ![w] = "write"]
    /\ UNCHANGED <<file, op, set, hubVars, removals, saveVars>>

WriteWithHeader(w) ==
    /\ pc[w] = "write"
    /\ temp' = <<0>> \o Sorted(set[w])
    /\ fd' = [fd EXCEPT ![w] = "none"]
    /\ pc' = [pc EXCEPT ![w] = "rename"]
    /\ UNCHANGED <<file, op, set, hubVars, removals, saveVars>>

\* new written from the start of a file that holds old.
Over(new, old) == new \o SubSeq(old, Len(new) + 1, Len(old))

\* The file may have become the list since it was opened as the temporary, or
\* have no name left: what is written is then lost.
Write(w) ==
    /\ pc[w] = "write"
    /\ temp' = IF fd[w] = "temp" THEN Over(Sorted(set[w]), temp) ELSE temp
    /\ file' = IF fd[w] = "list" THEN Over(Sorted(set[w]), file) ELSE file
    /\ fd' = [fd EXCEPT ![w] = "none"]
    /\ pc' = [pc EXCEPT ![w] = "rename"]
    /\ behind' = (behind \/ (InPass /\ fd[w] = "list"))
    /\ UNCHANGED <<op, set, hubVars, removals, alone, quiet>>

\* What an open file is once the temporary has taken the place of the list.
Renamed(f) == CASE f = "temp" -> "list" [] f = "list" -> "unlinked" [] OTHER -> f

\* Without a temporary (somebody else renamed it) Rename errs: GiveUp.
Rename(w) ==
    /\ pc[w] = "rename"
    /\ temp # Missing
    /\ file' = temp
    /\ temp' = Missing
    /\ fd' = [v \in Writer |-> Renamed(fd[v])]
    /\ behind' = (w # Daemon /\ InPass)
    /\ Succeed(w, alone = w)
    /\ EndSave(w)
    /\ UNCHANGED hubVars

-----------------------------------------------------------------------------
(* The daemon.                                                             *)

\* NewDaemon goes on with an empty set if the file cannot be read.
Start ==
    /\ pc[Daemon] = "down"
    /\ pc' = [pc EXCEPT ![Daemon] = "idle"]
    /\ \E read \in {Loaded, {}} : set' = [set EXCEPT ![Daemon] = read]
    /\ UNCHANGED <<fileVars, op, fd, hubVars, removals, saveVars>>

\* Killed; the interface, its peers and their handshakes stay.
Crash ==
    /\ pc[Daemon] # "down"
    /\ pc' = [pc EXCEPT ![Daemon] = "down"]
    /\ set' = [set EXCEPT ![Daemon] = {}]
    /\ fd' = [fd EXCEPT ![Daemon] = "none"]
    /\ behind' = FALSE
    /\ EndSave(Daemon)
    /\ UNCHANGED <<fileVars, op, hubVars, removals>>

ReloadMerges ==
    /\ pc[Daemon] = "idle"
    /\ set' = [set EXCEPT ![Daemon] = @ \cup Loaded]
    /\ behind' = FALSE
    /\ pc' = [pc EXCEPT ![Daemon] = "plan"]
    /\ UNCHANGED <<fileVars, op, fd, hubVars, removals, alone, quiet>>

\* reloadSpokes, at the start of a pass.
Reload ==
    /\ pc[Daemon] = "idle"
    /\ set' = [set EXCEPT ![Daemon] = Loaded]
    /\ behind' = FALSE
    /\ pc' = [pc EXCEPT ![Daemon] = "plan"]
    /\ UNCHANGED <<fileVars, op, fd, hubVars, removals, alone, quiet>>

\* The file cannot be read: the pass goes on with the set of the last one.
ReloadFails ==
    /\ pc[Daemon] = "idle"
    /\ behind' = TRUE
    /\ pc' = [pc EXCEPT ![Daemon] = "plan"]
    /\ UNCHANGED <<fileVars, op, set, fd, hubVars, removals, alone, quiet>>

\* Apply and syncNat bring peers and NAT rules into step with the set.
Apply ==
    /\ pc[Daemon] = "plan"
    /\ kpeers' = set[Daemon]
    /\ hs' = [n \in Spoke |-> IF n \in set[Daemon] THEN hs[n] ELSE "never"]
    /\ pc' = [pc EXCEPT ![Daemon] = "tick"]
    /\ UNCHANGED <<fileVars, op, set, fd, removals, saveVars>>

\* The fetch or Apply fails, and Tick returns.
PassFails ==
    /\ pc[Daemon] = "plan"
    /\ pc' = [pc EXCEPT ![Daemon] = "idle"]
    /\ behind' = FALSE
    /\ UNCHANGED <<fileVars, op, set, fd, hubVars, removals, alone, quiet>>

NotHeard == {n \in set[Daemon] : hs[n] # "live"}

Silent == {n \in set[Daemon] : hs[n] = "silent"}

EvictUnsaved ==
    /\ pc[Daemon] = "tick"
    /\ set' = [set EXCEPT ![Daemon] = @ \ Silent]
    /\ pc' = [pc EXCEPT ![Daemon] = "idle"]
    /\ UNCHANGED <<fileVars, op, fd, hubVars, removals, saveVars>>

(***************************************************************************)
(* evictStaleSpokes, at the end of the pass; the save only if somebody     *)
(* went.  A save of what was loaded before the list changed disputes every *)
(* removal it may undo.                                                    *)
(***************************************************************************)
Evict ==
    /\ pc[Daemon] = "tick"
    /\ set' = [set EXCEPT ![Daemon] = @ \ Silent]
    /\ \/ /\ Silent = {}
          /\ pc' = [pc EXCEPT ![Daemon] = "idle"]
          /\ behind' = FALSE
          /\ UNCHANGED <<disputed, alone, quiet>>
       \/ /\ Silent # {}
          /\ pc' = [pc EXCEPT ![Daemon] = "open"]
          /\ alone' = IF Undisturbed(Daemon) THEN Daemon ELSE Nobody
          /\ quiet' = {n \in Spoke : hs[n] = "silent"}
          /\ disputed' = IF behind THEN disputed \cup (revoked \cap set[Daemon]) ELSE disputed
          /\ UNCHANGED behind
    /\ UNCHANGED <<fileVars, op, fd, hubVars, revoked>>

-----------------------------------------------------------------------------
(* The phones.                                                             *)

Connects(n) ==
    /\ n \in kpeers
    /\ hs' = [hs EXCEPT ![n] = "live"]
    /\ UNCHANGED <<fileVars, pc, op, set, fd, kpeers, removals, saveVars>>

GoesSilent(n) ==
    /\ hs[n] = "live"
    /\ hs' = [hs EXCEPT ![n] = "silent"]
    /\ UNCHANGED <<fileVars, pc, op, set, fd, kpeers, removals, saveVars>>

-----------------------------------------------------------------------------

Command(c) ==
    \/ \E n \in Spoke, kind \in {"export", "remove"} : Ask(c, kind, n)
    \/ LoadAndChange(c)

SaveStep(w) == OpenTmp(w) \/ Write(w) \/ Rename(w)

Next ==
    \/ \E c \in Cli : Command(c)
    \/ \E w \in Writer : SaveStep(w) \/ GiveUp(w)
    \/ Start \/ Crash \/ Reload \/ ReloadFails \/ Apply \/ PassFails \/ Evict
    \/ \E n \in Spoke : Connects(n) \/ GoesSilent(n)

Spec == Init /\ [][Next]_vars

\* The daemon is started, its ticker fires, and a save it began comes to an end.
Works == Start \/ Reload \/ Apply \/ Evict \/ SaveStep(Daemon) \/ GiveUp(Daemon)

\* Commands, kills, and calls that fail though there is a file to rename.
Trouble ==
    \/ \E c \in Cli : Command(c)
    \/ Crash \/ ReloadFails \/ PassFails
    \/ GiveUp(Daemon) /\ ~(pc[Daemon] = "rename" /\ temp = Missing)

(***************************************************************************)
(* The daemon keeps working (Restart=always brings it back), and what      *)
(* disturbs it, however often that was, is over in the end.                *)
(***************************************************************************)
FairSpec == Spec /\ WF_vars(Works) /\ <>[][~Trouble]_vars

-----------------------------------------------------------------------------
(* Properties.                                                             *)

(***************************************************************************)
(* What a reader sees of the list changes only to something that, as a     *)
(* whole, was handed to SaveSpokes: it is never empty or mixed while it is *)
(* being replaced, after a crash in the middle, or when it is replaced by  *)
(* an outdated one, unless two saves overlapped: "atomically"              *)
(* (spokes.go:35).                                                         *)
(***************************************************************************)
SavesAreAtomic ==
    [][Loaded' # Loaded /\ ~Overlap => \E w \in Writer : Saving(w) /\ Loaded' = set[w]]_vars

(***************************************************************************)
(* A spoke whose removal was reported as done comes back into no pass that *)
(* reads the list, beside any number of commands and a daemon that evicts, *)
(* with temporaries left behind and shared, unless it was exported again,  *)
(* somebody else was saving at the same time, or the daemon saved a list   *)
(* it had read before (main.go:361, daemon.go:319-329, spokes.go:76-88).   *)
(***************************************************************************)
RemovalSticks == [][Reload => set'[Daemon] \cap revoked \subseteq disputed]_vars

(***************************************************************************)
(* "this hub will drop its peer + NAT on the next tick" (main.go:361), of  *)
(* every removal that was reported as done.                                *)
(***************************************************************************)
EveryRemovalSticks == [][Reload => set'[Daemon] \cap revoked = {}]_vars

(***************************************************************************)
(* Seen through LoadSpokes, the load-change-save sequences of commands and *)
(* of a daemon that evicts implement a list that changes by one operation  *)
(* at a time, unless saves overlap or the daemon saves what it read before *)
(* others changed the list (spokes.go:35-88, daemon.go:331-354).           *)
(***************************************************************************)
List == INSTANCE SpokeSet WITH list <- Loaded, silent <- quiet,
                               contended <- Overlap \/ (Saving(Daemon) /\ behind)
IsAList == List!Spec

(***************************************************************************)
(* A pass takes off the list just the spokes that had connected and were   *)
(* silent when it looked: nobody who never connected or is live, whatever  *)
(* failed saves left behind and whoever connects before the rename.  This  *)
(* is unless the list could not be read, or others changed it or were      *)
(* saving it, since the pass read it (daemon.go:331-354).                  *)
(***************************************************************************)
OnlySilentEvicted ==
    [][Rename(Daemon) /\ alone = Daemon /\ ~behind => Loaded \ Loaded' = Loaded \cap quiet]_vars

(***************************************************************************)
(* A spoke that stays silent is off the list in the end, whatever crashes, *)
(* failed loads and saves, and commands before left behind                 *)
(* (daemon.go:331-354).                                                    *)
(***************************************************************************)
SilentIsEvicted ==
    \A n \in Spoke : []<>(hs[n] # "silent" \/ n \notin Loaded)
=============================================================================
