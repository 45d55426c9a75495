# A TLA+ model of RouteWire

RouteWire's daemon `meshd` builds a WireGuard mesh without a coordination
server. Every node derives its keys and its overlay address from a shared PSK
and its own name, publishes a sealed and signed record under one DHT key, reads
everybody else's, and configures a kernel WireGuard interface from them. Hubs
also serve *spokes*, WireGuard clients without an agent such as phones, and
manage the host's firewall for them.

This directory holds TLA+ modules for the parts of `meshd` with state and
concurrency, the configurations that TLC checks, and theorems that TLAPS proves.
`PROJECT.json` maps every definition to the lines it models.

## 1. The system

### Parts, state and operations

| Part | Code | State | Operations |
|---|---|---|---|
| Roster | `mesh/roster.go`, `mesh/record.go`, `engine/store.go`, `engine/opendhtstore.go` | values under the DHT key; `Daemon.seq`; `FetchStable`'s merged view | stamp, put-confirm-get, partial GET, fold, merge over attempts, `-peek` |
| Reconcile pass | `mesh/daemon.go` (`Tick`, `Run`), `mesh/device_linux.go` | plans, `lastGood`, the kernel's peers, endpoints, handshakes, AllowedIPs, routes | `buildPlans`, `Apply`, the race over candidates, `ApplyRoutes` |
| Spoke list | `mesh/spokes.go`, `daemon.go` (`reloadSpokes`, `evictStaleSpokes`), `main.go` | the file, its temporary, `dm.spokes` | `export`, `remove`, reload, evict, save |
| Host firewall | `mesh/router.go`, `daemon.go` (`syncNat`) | INPUT accepts, masquerade rules, tagged nft rules, `ip_forward`; `added`, `announceNAT`, `taggedChains`, `spokeSrc` | open, self-heal, forward, add/remove, `Close`, `CleanupFirewall` |
| Process life | `cmd/meshd/main.go`, `service.go` | how far `main` is, its two goroutines, its context; the unit or script, its pid file | start, fail to start, signal, stopper, `-stop`; install, start, stop, restart, uninstall, reboot |
| Endpoint candidates | `mesh/peers.go`, `stun.go`, `local.go` | none | gather, score, order |
| Configuration | `config/*.go`, `main.go` | the file `init` writes | merge defaults, file, environment, flags; `init` |
| Cryptography | `mesh/crypto.go`, `engine/crypto.go`, `engine/identity.go` | none | derive, seal, sign, verify |
| Rooms | `engine/engine.go`, `envelope.go`, `window.go` | values under a room's key with their TTL; `seen`, `window`, `contactSeen`, `seq` | `Send`, `Reconcile`, `Run` (a library; `meshd` does not use it) |

### How they interact

`main` starts `Daemon.Run` on one goroutine and calls the first `Tick` itself,
under its own 30 s deadline; the two share the `Daemon` without a lock. A `Tick`
stamps and publishes a record, fetches the others, plans, applies, races
candidate endpoints for the peers without a live session, sets routes, runs
`syncNat` and evicts silent spokes. Meanwhile the kernel completes handshakes
and roams endpoints; `meshd export`, `meshd remove` and `meshd -stop` run as
processes of their own on the same files, firewall and interface; firewall
managers and the operator change rules; and the daemon may be killed and started
again with what the last one left in the host.

### What is hard about it, and what makes each part correct

* **Roster.** Reads are partial, unordered and fail; puts that fail may have
  happened; both loops have deadlines. Correct: the view is the newest of what
  was read, a new record beats the node's stale ones, no pass is held for ever.
* **Reconcile pass.** A pass takes seconds, and the kernel state it sampled
  changes under it. Correct: the interface has exactly the planned peers, a live
  session is not disturbed, a win is credited to where the peer really is,
  announced subnets are reachable, a peer that answers is reached, and the daemon
  yields when its interface is deleted.
* **Spoke list.** Three kinds of writers, no lock, one temporary file. Correct:
  saves are atomic, a removal sticks, only silent spokes are evicted, and they are.
* **Host firewall.** Every command can fail, be interrupted or be undone by
  others. Correct: nothing is left behind, NAT follows the list, the port stays
  open.
* **Process life.** Two goroutines end at different times, an old and a new process
  overlap, `-stop` works against a daemon that is alive, starts fail half way.
  Correct: what ended gracefully left nothing, one daemon at a time means to own the
  interface, an active unit comes back.
* **Endpoint candidates.** What STUN says changes from pass to pass on either side.
  Correct: the address a peer answers at is always tried in the end.
* **Rooms.** The store forgets, reads miss, members leave. Correct: the window
  survives as long as anybody is there, and everybody gets each message once.
* **Configuration.** Four layers. Correct: the highest one that sets a field wins, and
  a daemon started from `init`'s file is the one `init` described.

`PROJECT.json` lists the hazards at their lines with the properties that cover them.

## 2. Modules

| Module | What it is |
|---|---|
| `Roster` | stamping, publishing and fetching; `MCRoster` instantiates it |
| `RosterProofs` | theorems about `Roster` |
| `Tick` | a pass from `buildPlans` to its end, with the kernel device and the peers; `MCTick` instantiates it |
| `TickProofs` | theorems about `Tick` |
| `Endpoints` | reflexive candidates and the dial order, as operators; `MCTick` composes them with `Tick` |
| `SpokeSet` | abstract specification of the spoke list: one change at a time |
| `Spokes` | the list as a file, with its writers; implements `SpokeSet` |
| `SpokesProofs` | theorems about `Spokes`, the refinement included |
| `Router` | the host firewall and forwarding, `syncNat`, `Close` and `-stop`; instantiated by its cfgs directly |
| `RouterProofs` | theorems about `Router` |
| `Life` | processes of `meshd` under a service manager; instantiated by its cfgs directly |
| `LifeProofs` | theorems about `Life` |
| `Room` | a chat room over a store with a TTL; `MCRoom` instantiates it |
| `RoomProofs` | theorems about `Room` |
| `Config` | the layers of the configuration and `init`, as operators, with theorems about them |

In each module a few definitions stand just before another one and differ from it
in one place (`MergeOverwrites` before `Merge`, `PickInitial` beside
`InitialDesire`). They are mutants: the property they are listed with in
`PROJECT.json` fails when they take that definition's place. `PickInitial` is also
a definition of the code in its own right.

### Roster

A goroutine is a pair of a node and a kind: `"main"` (the first `Tick`), `"run"`
(`Run`'s ticker) or `"peek"`. `pc` says where it is: `idle`, `inc` (between the load
and the store of `Daemon.seq`: `nextSeq` has no lock, so these are two steps),
`put`, `confirm`, `fetch`, `pause`, `view`. `dht` holds every value ever put; a GET
returns *any subset* of it, which stands for expiry, eventual consistency and
vantage alike. A value is a name, a sequence number, a timestamp and whether it
verifies (`genuine`, which stands for `Open`, `DecodeRecord` and `VerifyBinding`).
Records hold nothing else, since nothing here depends on it. `Accepts` is `Fetch`'s
filter, `NewestOf` its fold, `Merge` the merge of `FetchStable`. The clock counts
nanoseconds, of which `Sec` make a second; `NextSeq` may not overtake the clock,
which says that a pass takes at least one nanosecond. `ContextDone` may come at any
time. A process may exit or be killed at any step, and its node starts again with
`seq` read from the clock. `stale` remembers what earlier processes of a node had
stamped, whether it was put, is still on its way or was lost with them.

### Tick

One daemon and its interface. `pub` and `listed` are what other nodes have in the
roster; a fetch returns any subset of the listed records (module `Roster` says which). A
fetch that fails ends the pass before it touches anything, which is a stuttering step.
Endpoints are opaque; `Dial` is the set of dial orders that a record may have. The
kernel has peers, an endpoint per peer (`ep`; `seen` says whether the peer's own traffic
set it), the age of the last handshake (`never`, `live` for younger than `StaleAfter`,
`stale`), the owner of each subnet by AllowedIPs, and routes. `Configure` is what
`LinuxDevice.Apply` does to it. The first `Apply` is two steps: `ApplyReads` reads the
device, then `ApplyInitial` configures it, or `ApplyFails`, which is no `ErrDeviceGone`
even when the interface has gone since, so that the daemon polls on. A dial that
succeeds is four: `DialNext` applies the state with the candidate, the wait is `pc =
"wait"`, `HandshakeSeen` is the poll that ends it, and `Win` reads the endpoint;
otherwise `DialFails` or `TimesOut`. Handshakes, roams, sessions going stale, deletions
of the interface, publications, kills and restarts come between any two steps. `Calm` is
a network in which every peer is listed, stays at `Home` and answers a dial there before
the wait of 2.5 s is over.

### Endpoints

`GatherSRFLX` folds the servers' answers into candidates; `sameNAT` compares the hosts
of the first reflexive candidate on both sides; `OrderEndpoints` drops private hosts
of another site and puts one group before the other. `MCTick` derives the dial orders
of two sites from them: a peer on our LAN behind our gateway, and one elsewhere that
has a public address beside a private one. Reflexive addresses carry the port of the
STUN socket (`stun.go:82`), where nobody listens, so they never help. `Regather` lets
STUN answer differently at any time, here or there.

### Spokes and SpokeSet

`file` and `temp` are the lines under the list's name and under that of its temporary, or
`Missing`. A writer (a command, or the daemon) opens the temporary with truncation,
writes at offset 0 and renames. A rename takes the file along under everybody who has it
open: `fd` says whether what a writer has open is by now the temporary, the list or a file
without a name. Names are taken to be of one length, so that a write replaces whole lines.
Any step may fail, and a command may be killed at any step (`GiveUp`); so may the daemon
(`Crash`). A daemon that cannot read the file at its start begins with an empty set
(`Start`), one that cannot read it later goes on with the set of the pass before
(`ReloadFails`), and a pass may end before it has applied anything (`PassFails`).

Five histories say what the environment did. `revoked` has the names whose removal was
reported as done, `disputed` those of them about which somebody else was saving or
exporting at the same time, or which the daemon may have put back with a list read
earlier. `behind`: the list has changed since the running pass read it, or that pass
could not read it. `alone` is the writer that has been saving with nobody else saving
since its load; `quiet` is who was silent when the pass that is saving looked.

`Loaded` is what `LoadSpokes` reads. The refinement maps `SpokeSet`'s `list` to it, its
`silent` to `quiet`, and its `contended` to a save that overlapped with another or is one
of a daemon that is behind. While the list is contended `SpokeSet` promises nothing.

### Router

One step is one `iptables`, `nft` or sysctl command. The host has counts of equal
rules (`iptables -I` adds a copy, `-D` takes one away), the chains that hold our
tagged accepts, `ip_forward`, and the interface. `oper` remembers accepts that are
the operator's, `base` what forwarding would be without `meshd`. The daemon's memory
is `linuxRouter`'s and `syncNat`'s. `Refused` is a command that fails.
`CleanupFirewall` is a process of its own, with a step per kind of rule. Tagged rules are
listed in one step and deleted in another, by one nft transaction (`CloseTags` and
`CloseBatch`, `StopTags` and `StopBatch`); when a listed rule has gone since, or was
replaced by one of another handle, the whole batch fails, which `aborted` remembers. Scans that
only print a warning are left out. The daemon passes the announcements of its
configuration every time, so the half of `AnnounceNAT` that removes some is
unreachable and is not modelled.

### Life

A process is as far as its `main` is: `device`, `opened` (the router has opened the
port), `live` (`Setup` done, both goroutines running), `close` and `delete` (the two
halves of the stopper that touch the host). `first` and `run` are the two goroutines: a
pass is a fetch, which may fail or find no interface, and a tail, whose `EnsurePort` puts
the accept back. The host is reduced to the interface and one accept that stands for all
rules (`Router` has them one by one). `Fatal` is a start that fails; a `Setup` that fails may
have made the interface already. `Term` is SIGTERM: deadly before `NotifyContext`,
a cancelled context after. The manager is systemd, which knows its main process and has
`Restart=always`, or the sysv script with its pid file and its loop of at most ten
seconds (`SlowStops`: a pass may take longer than that). Process ids come from
`Proc`; a start for which none is free waits, so `Proc` bounds how many overlap. `rough`
remembers whether a process has died without its stopper since the last `-stop`.

### Room

A message is its sender, its sequence number and its sender's clock. `age` is the store:
it drops a value after `TTL` poll intervals without a put, whoever puts it. A loop's
`Reconcile` is a read, a commit under the lock and a put per refreshed message, with
steps of others in between. A read may miss values and return several copies of one.
`Elapse` passes when every loop has had its tick, which is the assumption that a poll
takes less than its interval. `NewRoom` takes `seq` from the clock, so a member that
comes back goes on counting above what it used.

### Config

A layer is a function on the fields of `MeshConfig`, with Go's zero value where a field is
not set. `ReadFlag` is what `flagsToMesh` makes of a flag the flag package has parsed.
`runInit` yields the file as it is read back. Nothing here has transitions, so the
module has theorems and no run.

## 3. What is checked

All runs explore the whole state space of their instance; none uses symmetry or a
state constraint.

| Run | Instance | Shows |
|---|---|---|
| `roster_pass` | a publisher that restarts, a peek on another host whose clock may be set back | `ViewIsNewestSeen`, `PassEnds` |
| `roster_restart` | one node with both goroutines, kills and restarts | `NewBeatsStale` |
| `tick_race` | two peers, two endpoints, failing Applies, kills and deletions | `Converged`, `SampledFreshUntouched`, `WinIsProven`, `GoneStops` |
| `tick_routes` | two peers, a subnet, a spoke, failing routes | `AnnouncedIsReachable` |
| `tick_calm` | two peers at two sites that stay put, STUN that comes and goes, winners recorded elsewhere; composed with `Endpoints` | `Reconnects` |
| `spokes_list` | a command beside a daemon that evicts, both failing or killed anywhere | `SavesAreAtomic`, `IsAList` (refinement of `SpokeSet`), `RemovalSticks`, `OnlySilentEvicted`, `SilentIsEvicted` |
| `spokes_resurrect` | the same | `EveryRemovalSticks` fails: the eviction saves the list read before the removal |
| `router_close` | two families, a spoke, a subnet, self-heal, `-stop`, one wipe, an operator's accept | `NatInStep`, `CloseLeavesNothing`, `ForwardingRestored` |
| `router_faults` | two families, a spoke, self-heal, one kill, one refused command, one wipe, `-stop`, other software that forwards | `StopLeavesNothing`, `RefusedStaysTracked`, `PortReopens` |
| `life_service` | two processes, either manager, with and without iptables, `-stop`, one fault | `EndsClean`, `OneOwner`, `ComesBack` |
| `life_noiptables` | one process on a host without iptables | `GracefulShutdownCleans` fails: the stopper calls `Close` on a nil router |
| `room_window` | two members, a window of two, three messages, one fault | `WindowSurvives`, `HandedOnce`, `Delivered` |

`TypeOK` is checked in one run of each component.

### Bounds, and why they are enough

* `MaxClock = 2` (`roster_pass`): a node stamps up to two records, across a restart
  or within one process, in the same second or in two, so that stale and new,
  expired and fresh values coexist; `MaxRetries = 1` and `Attempts = 2` are the
  smallest values for which both loops repeat and end (the code has 3 attempts).
  One publisher suffices for the fold, which treats names apart; `Foreign` puts a
  value under the key that claims a higher number and does not verify.
* `roster_restart`: `NewBeatsStale` relates records of one node, so one node is enough;
  `MaxClock = 3` lets both goroutines stamp in one process and one of them in the next, also
  after the one set the counter back to what the other had loaded. What a node fetches does
  not matter to it, so a fetch is one attempt.
* `tick_race`: two peers are what one peer's race needs to disturb another's
  session; two endpoints let a peer be somewhere its record does not say. A record
  has one candidate, and the endpoint the kernel tracks can come before it, so
  that the candidate loop repeats. `tick_routes` needs no endpoints: two peers that
  may both announce the one subnet are what takes it from each other.
* `Spokes`: two names make a torn or outdated list differ from every correct one, and one
  command beside the daemon makes saves overlap, share the temporary and overwrite each
  other. Commands, passes, kills and failures are not bounded.
* `Router`: `MaxCrashes`, `MaxFails` and `MaxWipes` bound the environment's
  disturbances at one each. The rules of different spokes and chains do not interact,
  so one of each is enough. `router_close` allows no kills and no refused
  commands because `CloseLeavesNothing` is false with them (section 5). `router_faults`
  announces nothing; `BooksKeepRules` (section 4) covers announced subnets as well.
* `Life`: two processes are what an overlap needs; a third would overlap with either in
  the same way. `MaxFaults = 1`: a kill, a fatal start, an abort or a reboot, once, at any
  step. Passes, signals, `-stop` and the manager's verbs are not bounded.
* `Room`: three messages for a window of two make one leave it; `TTL = 3` intervals
  and one fault let one round of refreshes go wrong without a loss, which is what the
  code's ten minutes against one minute of polling amount to, only less generously.
  `MaxTS = 1` leaves the order to sequence numbers, in which messages of different
  senders tie, the harder case.
* `tick_calm`: one peer on each side of the NAT; two STUN servers, so that answers repeat.
  It starts afresh, or with stale sessions and winners recorded at addresses the peers have
  left.
* `CHECK_DEADLOCK FALSE` is used for `Roster` only, where everything stops when the
  clock reaches `MaxClock`.

### Fairness

* `Roster!FairSpec`: weak fairness for the steps of each goroutine's pass. Its
  calls return or time out (HTTP client timeout, contexts, `time.After`).
* `Tick!FairSpec`: weak fairness of `Pass`, of `Exit` (`main` runs the stopper once
  `Run` has returned) and of `Start` (the unit has `Restart=always`). Weak fairness
  of `Pass` includes that the roster can be read again and again.
  `MCTick!SitesSpec` has weak fairness of `Pass` and `Start`, and of the handshake of a
  peer that is dialed where it is: WireGuard retries a handshake until it is
  answered. STUN owes nothing.
* `Spokes!FairSpec`: weak fairness of the daemon's work (`Works`): the unit starts it, its
  ticker fires, a save it began ends one way or the other. Commands, kills and failing
  calls (`Trouble`) may come as often as they like, but not for ever: a disk that never
  takes a save keeps a silent spoke listed, and so may commands that always come in between.
* `Router!FairSpec`: weak fairness of the daemon's steps, so that it polls. Nothing
  is assumed of signals, kills, `-stop` or other tools.
* `Life!FairSpec`: weak fairness of each goroutine's steps and of the manager's; strong
  fairness of `RunReturns` (`select` picks among ready cases at random, so a cancelled
  context is not passed over each time) and of `RunGone` (not every fetch fails). Nothing
  is assumed of the operator or of faults.
* `Room!FairSpec`: weak fairness of each loop's steps and of time. Members need not send,
  join or leave.

## 4. What is proved

TLAPS proves these for every value of the constants that meets the named
assumption of the module (`RosterAssumption`, `TickAssumption`, `SpokesAssumption`,
`RouterAssumption`, `LifeAssumption`, `RoomAssumption`): any number of nodes, peers,
spokes, subnets, commands, overlapping processes, members and messages, and any
bounds on faults. A theorem with a further hypothesis names it in the last column.

| Theorem | States | If |
|---|---|---|
| `RosterTypeOK` | type correctness | |
| `ViewIsNewest` | `Spec => []ViewIsNewestSeen` | |
| `RestartBeatsStale` | `Spec => NewBeatsStale` | |
| `TickTypeOK` | type correctness | |
| `DeviceConverges` | `Spec => []Converged` | |
| `FreshUntouched` | `Spec => SampledFreshUntouched` | |
| `WinProven` | `Spec => WinIsProven` | |
| `AnnouncedReached` | `Spec => AnnouncedIsReachable` | |
| `SpokesTypeOK` | type correctness | |
| `ListIsWhole` | `Spec => SavesAreAtomic` | |
| `RemovedStaysOut` | `Spec => RemovalSticks` | |
| `NeverConnectedStays` | `Spec => OnlySilentEvicted` | |
| `ImplementsList` | `Spec => IsAList`: `Spokes` implements `SpokeSet` | |
| `RouterTypeOK` | type correctness, with the number of copies of each rule | |
| `StopSweepsAll` | `Spec => []StopLeavesNothing` | |
| `BooksKeepRules` | `Spec => RefusedStaysTracked` | |
| `CloseRemovesAll` | `Spec => CloseLeavesNothing` | `NoFaults` |
| `NatFollowsList` | `Spec => []NatInStep` | `NoFaults` |
| `CloseRestoresForwarding` | `Spec => ForwardingRestored` | `Undisturbed` |
| `LifeTypeOK` | type correctness | |
| `GracefulEndsClean` | `Spec => []EndsClean` | |
| `SingleOwner` | `Spec => []OneOwner` | |
| `RoomTypeOK` | type correctness, and windows of at most `windowN` | |
| `NothingHandedTwice` | `Spec => HandedOnce` | `OneLoop` |
| `WindowOutlivesTTL` | `Spec => []WindowSurvives` | `anyMember`, `Polled`, `Patient` |
| `Precedence` | every field has the value of the highest layer that sets it | no flag reads as zero |
| `StartsAsInitWrote` | resolving the file of `init` without environment and flags gives back that file, also under other defaults | these set no further field |
| `InitReportsIdentity` | `init` reports the identity of the node started from its file | the PSK is given |
| `GeneratedSecretMisreported` | it reports another one | the PSK is generated, `Derive` is injective in it |

The hypotheses are conditions on the constants; every one of them holds in the
passing run that checks the same property:

* `NoFaults`: no kill and no refused command (`MaxCrashes = 0`, `MaxFails = 0`). Needed:
  section 5 has both.
* `Undisturbed`: no kill, and no other software turns forwarding on. Refused commands
  are allowed.
* `OneLoop`: one `Run` for each Room. Needed: section 5.
* `Polled`: every Room has a loop. `Patient`: the TTL is at least two intervals longer
  than polls, reads and puts go wrong (`MaxFaults + 2 <= TTL`). The code has ten minutes
  against one minute. It is sufficient; whether one interval less would do is open.

### Roster

`ViewIsNewestSeen` is inductive given types; its step needs that `Merge` of a
correct view with a correct fold of a further read is a correct view of both, and
that what `Fetch` accepts is what ought to count, which is stated independently
(`Counts`). Expiry is judged at each read, so nothing that was accepted earlier is
judged again.

`NewBeatsStale` needs `SeqInv`, for a node whose clock does not go back: nothing it ever
stamped is above its clock, so a process that starts reads a number at or above everything
of the processes before it; and while it runs neither its counter nor what a goroutine has
loaded of it falls below that, although the two goroutines may set the counter back to what
one of them loaded. What a clock that goes back does is in section 5.

### Tick

The inductive invariant `IInv` adds to types and `Converged`: only peers
of the roster are ever dialed; a plan that was fresh when sampled carries no
endpoint from the first `Apply` on (why no later `Apply` of the pass moves it); and
while a dial is awaited its peer is not fresh and, once a handshake was reported,
has an endpoint it was heard from (`HeardWhenShook`); and a handshake that the poll has
seen is forgotten before the endpoint is read only together with the interface
(`WonWasShook`). The last two are why a win on a live interface is proven. They hold in
spite of deletions because these also clear the handshake time that the wait looks at.

`AnnouncedIsReachable` needs `OwnersAnnounce`: from the first `Apply` of a pass on,
a live interface hands each announced subnet to a planned peer that announces it. Several
peers may announce one subnet; each `Apply` gives it to the last of them, which
exists (`LastExists`), and so every later dial of the pass gives it to the same one.

### Spokes

Every theorem is for any number of commands beside a daemon that evicts, with saves that
overlap. Types need `OpenExists`: a file that somebody has open under a name is there.

`AInv` is about the writer who has been saving alone. It is the only one saving
(`AloneIsAlone`), its temporary is empty when it writes and whole when it renames
(`AloneFile`), and what it saves is the present list with one change: a command's, or, unless
the daemon is behind, the present list less the silent (`AloneSet`). `RenameLoads` then says
what its rename does as `LoadSpokes` sees it, and `ListChanges` that nothing else
changes the list while no saves overlap. Atomicity, the exactness of evictions and the
refinement follow step by step: a rename is an export, a removal or an eviction of
`SpokeSet`, everything else leaves the list alone, kills included.

`NoSure` is about the removals that nobody disputed (`Sure`). Such a name is not on the list,
not in what anybody is saving, not in the temporary while anybody may rename it, and not in
an export under way; so no order of overlapping writes and renames brings it back.

The file is the sorted list of a set of names, which the model defines by what it is and
not by an algorithm. That such a list exists for each finite set (`SortedExists`) and
reads back as the set (`SortedReadsBack`) are facts about data; they are proved by
taking a smallest counterexample instead of by an induction theorem.

### Router

`IInv` bounds the copies of each rule. An accept exists at most once besides the operator's
and once more for each refused command, because both inserts come after a probe that found
none (`PortBound`). A masquerade rule exists at most once if the daemon tracks it
and once more for each kill and each refused command (`NatBound`). `Loops` and `Memory`
say what each of the loops has left to do and what a starting or closing process remembers.

`CInv` is the same without slack, while nothing was refused and either nothing was
killed or `-stop` has swept that kind of rule since (`Clean`): at most the accept that
this process will delete (`PortClean`), at most the masquerade rules on its books
(`NatClean`), unless a batch was aborted only tagged chains that it knows or, until its
own batch, that `-stop` has listed (`TagClean`, which also says that `Close` has listed
all it knows), and, with no kill at all, rules only of spokes that `syncNat` counts as
served (`SourceServed`). Since `-stop` sweeps one kind after another beside a running
daemon, each part has its own point from which it holds. `StopLeavesNothing`,
`CloseLeavesNothing` and `NatInStep` read off `CInv`, as a process that has gone holds
nothing. The number of disturbances is arbitrary, where the runs have one each.

`FwdInv`: a process knows the value to restore, and unless it has turned forwarding on
the value is the one there would be without it.

### Life

`OneOwner` needs that a process not told to stop is the manager's main process
(`UntoldIsMain`), and that the manager waits only when all are told (`WaitedIsTold`).
`EndsClean` needs an owner for what is in the host (`LinkHasOwner`, `AcceptHasOwner`): a
process that is still to run its stopper, a `-stop` still to delete the interface, or
one that died roughly, in the middle of `Setup` for instance. That the last goroutine of
a process ends before its stopper runs (`GoroutinesLive`) is why no pass puts the accept
back after `Close`.

### Room

`HandedOnce`: between read and commit what a loop holds as new is what its Room has not
seen (`NewIsUnseen`), which only another loop of the same Room could spoil.
`WindowSurvives`: `AgePaid` is an accounting of faults. A message in the window is stored,
is at most one interval older than there were faults, and not even that unless every
loop that has polled in this interval is still to put it. An interval ends when every loop
has polled, so each one either refreshes the window or cost a fault, and with `Patient`
no age reaches the TTL. `windowN`, members, sends and comings and goings are arbitrary.

### Config

These need no invariant. `Precedence` compares `ResolveMesh`, which
treats the environment and the flags in its own way, with an independent definition of
the topmost layer. `StartsAsInitWrote` rests on `DefaultsStay`: resolving never
unsets a field that the defaults set, so a field that is zero in the file was zero in
the defaults.

### What only TLC checks

The liveness properties, since fairness and `ENABLED` are out of the prover's reach:
`PassEnds`, `GoneStops`, `Reconnects`, `SilentIsEvicted`, `PortReopens`, `ComesBack`,
`Delivered`. What `Endpoints` computes is checked through `Reconnects` on two sites;
its folds over sequences would need induction over data. Every other property of a
passing run is a theorem above.

## 5. Statements the code does not meet

Two are runs (`spokes_resurrect`, `life_noiptables`), with the quoted lines under
`findings` in `PROJECT.json`. The others below came up in the same way: TLC refutes
the formula, added to its module, on an instance as small as the ones above.

* `daemon.go:168` "a monotonically increasing sequence number": the first `Tick` and
  `Run`'s `Tick` share `Daemon.seq` without a lock, and both can stamp the same
  number. With the goroutines `"main"` and `"run"` of one node:
  `[][\A p \in Proc : Beats(p, {r \in dht : r.genuine /\ r.name = p[1]})]_vars`
* `device_linux.go:92` "a transient roster gap must not destroy live sessions": `Apply`
  removes every peer that is not in the desired set, also when a context that ended
  early gave an empty view (`roster.go:102`).
  `[][Pass => \A p \in kpeers \cap listed : hs[p] = "live" => p \in kpeers']_vars`
* `router.go:39` "Everything added is tracked and removed on Close": after a kill the
  next process inserts masquerade rules again without a probe and skips tagged chains
  without tracking them. `CloseLeavesNothing`, with `MaxCrashes = 1`.
* `router.go:798` "All deletes here are idempotent: a rule that is already gone is
  already-clean, not an error": the tagged rules go in one transaction, which fails as a
  whole when one of them was removed after it was listed, and `Close` forgets the chains.
  `[][CloseFwd => NoRules']_vars`. The batch of `-stop` fails in the same way
  (`router.go:571` "removes every firewall trace"): `StopLeavesNothing` without `~aborted`,
  on the instance of `router_close`.
* `router.go:58` "restores forwarding": with a kill before, `Close` restores the 1 that the
  killed daemon wrote; with other software that has come to forward, its own 0.
  `ForwardingRestored`, with `MaxCrashes = 1` or `OthersForward`.
* `daemon.go:283`, the endpoint a win is credited to: when the interface is deleted between
  the poll and the read, `Endpoint` is nil and the dialed candidate is recorded, proven or
  not. The daemon then stops and forgets it. `[][\A p \in Name : Win(p) => seen[p]]_vars`
* `service.go:105`, the script's wait: when it gives up, the old process is still to run
  its stopper, which deletes the interface of the new one. With `sysvinit` and
  `SlowStops`:
  `[][\A p \in Proc : Delete(p) => \A q \in Proc \ {p} : st[q] # "live"]_vars`
* `daemon.go:157` "Stop means stop": under systemd the unit starts the daemon again,
  which is what `ComesBack` shows.
* `peers.go:13` "same reflexive IP": `srflxIP` takes the first one. If one side learns only
  its IPv4 and the other only its IPv6 address, two nodes on one LAN are judged to be at
  different sites, and their private addresses are dropped. `Reconnects`, with
  `Mine` and `Candidates(p1)` from `GatherSRFLX(<<x, y>>)`, `x` and `y` of two families.
* `stun.go:12` "deduped by IP": by address, and every query has a port of its own.
* `main.go:528` "the identity this node will have": not when `init` generates the PSK;
  theorem `GeneratedSecretMisreported`.
* `main.go:49` `-stun` "(empty disables)" and `mesh_config.go:42` "defaults < file < env <
  flags": a flag that reads as zero (`-stun ""`, `-port 0`, `-dry-run=false`) leaves the
  lower layer in force, which is the hypothesis of `Precedence`; and `-psk ""` shuts out
  `MESH_PSK` as well.
* `engine.go:112` "newly-seen contacts": a sender with two messages in one poll is
  announced twice.
  `[][\A l \in Loop : Commit(l) => \A m, x \in top[l] : m.from = x.from /\ m.from \notin contactSeen[RoomOf[l]] => m = x]_vars`
* `engine.go:111`, dedup under concurrent calls of `Reconcile`: it reads `seen` before its
  commit, so both hand the message over. `HandedOnce`, with two loops on one Room.
* `daemon.go:170` "records published after a restart always beat stale values":
  not after a reboot with an earlier clock. `NewBeatsStale` without its exception for
  `StepsBack`, with `StepsBack = Node`.
* `daemon.go:231` "A live session owns its endpoint": one that comes alive after the
  sample is moved back by the next dial of another peer.
  `[][\A p \in Peer : DialNext(p) => \A q \in kpeers' \ {p} : hs[q] = "live" => ep'[q] = ep[q]]_vars`
* `device.go:36` `Endpoint` is "the one WireGuard has roamed to from the peer's own
  authenticated traffic": it may be the daemon's own last guess, which `orderedFor`
  then puts first.
  `[][BuildPlans => \A p \in Peer : plan'[p].ord \notin {pub[p].dial, <<>>} => seen[p]]_vars`
* `device_linux.go:139` "removing ones no longer announced": not the last one, since
  `ApplyRoutes` is not called for an empty list, and not those of an earlier process.
  `[][RoutesSkipped \/ RoutesOk => kroutes' \subseteq Announced]_vars`
* `device.go:17` "complete intended WireGuard peer state": AllowedIPs are only ever
  added, so a withdrawn subnet is still handed to the peer.
  `pc = "race" => \A s \in Subnet : owner[s] \in Planned => s \in plan[owner[s]].adv`
* `daemon.go:155-158` "yield instead of error-looping or re-asserting firewall state":
  a pass whose interface is deleted after its first `Apply` still runs `syncNat`.
  `[][SyncNat => dev = "up"]_vars`
* `spokes.go:35` "atomically": not of saves that overlap, which share the temporary; one
  renames the file the other has truncated. `SavesAreAtomic` without `~Overlap`.
* `daemon.go:332` "A spoke that never connected is left alone": the eviction saves the set
  read at the start of the pass, and so drops a spoke exported since.
  `[][Rename(Daemon) => \A n \in Loaded \ Loaded' : hs[n] # "never"]_vars`
* `main.go:361` "this hub will drop its peer + NAT on the next tick": not if the next pass
  cannot read the list (`daemon.go:324`); it keeps the removed spoke.
  `[][ReloadFails => set[Daemon] \cap revoked \subseteq disputed]_vars`
* `daemon.go:363` "keeps masquerade rules in step": a wiped rule is not put back
  while its spoke stays listed, and one refused delete leaves the rule of a
  departed spoke until `Close`. With a wipe, under `FairSpec`:
  `\A s \in Spoke : pc = "idle" /\ stop = "none" /\ s \in spokes /\ nat[s] = 0 ~> nat[s] > 0 \/ s \notin spokes \/ pc = "down" \/ stop # "none"`
* `router.go:380` "Forwarding is only requested when the node serves spokes or
  announced subnets": the first pass of every daemon requests it.
* `README.md:196` "restore prior firewall state on clean shutdown": `Close` deletes
  the port accept even if the operator had put it there.

## 6. Not modelled

* Cryptography: its result is `genuine` in `Roster` and `Derive` in `Config`. Collisions
  of overlay addresses, which the code accepts for home-scale meshes (`crypto.go:117`).
* Text formats: records, exported client files, YAML. The parsing of arguments.
* The wire exchange with STUN servers and the enumeration of local addresses.
* The OpenDHT proxy's HTTP beyond what a GET or a PUT can result in (`Roster`).
* Overflow of `seq`: 64 bits of nanoseconds last until the year 2554.
* Two passes of one process side by side in `Tick` and `Router` (only in `Roster`, and in
  `Life` without their detail).
* `noopRouter`; dry runs.
* The warnings for blocked ports, Docker rules and the like: they read and print.
* `FakeDevice` and other test doubles; `keydump`.

## 7. Plan

Done: `Roster`, `Tick` with `Endpoints`, `Spokes`, `Router`, `Life`, `Room`, `Config`, and
proofs of every safety property and of the refinement.

1. Proofs about the operators of `Endpoints`.
2. `ReliableStore`: an abstract "published or reported as not" and its refinement.
3. Compositions: `Spokes` with `Router` (a removal reaches NAT), `Life` with `Router`
   (overlapping processes rule by rule).
