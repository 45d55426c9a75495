-------------------------------- MODULE Life --------------------------------
(***************************************************************************)
(* The life of meshd on one host: processes from main to the stopper, each *)
(* with the two goroutines that run Tick; the service manager that starts  *)
(* and stops them (the systemd unit or the sysv script of service.go); and *)
(* `meshd -stop`.  The host is the interface and one rule, the accept for  *)
(* the transport port, which stands for all that module Router knows.  A   *)
(* pass is module Tick's, cut down to when it looks at the interface and   *)
(* when it puts rules in place.                                            *)
(***************************************************************************)
EXTENDS Integers, FiniteSets

CONSTANTS
    Proc,       \* process ids; as many daemons may overlap
    NoProc,     \* no process
    Iptables,   \* whether hosts have iptables: a set of Booleans
    Manager,    \* service managers: a subset of {"systemd", "sysvinit"}
    SlowStops,  \* the ten seconds of the sysv script may be too few
    MaxFaults   \* bound on kills, aborts, fatal errors and reboots

ASSUME LifeAssumption ==
    /\ NoProc \notin Proc
    /\ Iptables \subseteq BOOLEAN /\ Iptables # {}
    /\ Manager \subseteq {"systemd", "sysvinit"}
    /\ SlowStops \in BOOLEAN
    /\ MaxFaults \in Nat

VARIABLES
    \* the host
    iptables,   \* it has iptables
    link,       \* the interface exists
    accept,     \* a rule of ours exists
    \* processes
    st,         \* st[p]: "none", or how far main has come
    first,      \* first[p]: main's own Tick
    run,        \* run[p]: the goroutine of Run
    told,       \* told[p]: the signal context is cancelled
    \* the service manager
    mgr,        \* which one has meshd installed, "none" before
    want,       \* the service is meant to be up
    job,        \* what the manager or its script is doing
    then,       \* what a stop is followed by
    pid,        \* the main process, or the pid file
    \* meshd -stop, faults
    stop,       \* "link" between its two halves
    rough,      \* a process has died without its stopper since -stop began
    faults

host    == <<link, accept>>
procs   == <<st, first, run, told>>
service == <<mgr, want, job, then, pid>>
rest    == <<stop, rough, faults>>
vars    == <<iptables, host, procs, service, rest>>

TypeOK ==
    /\ {iptables, link, accept, want, rough} \subseteq BOOLEAN
    /\ accept => iptables
    /\ st \in [Proc -> {"none", "device", "opened", "live", "close", "delete"}]
    /\ first \in [Proc -> {"none", "fetch", "tail", "done"}]
    /\ run \in [Proc -> {"none", "rest", "fetch", "tail", "done"}]
    /\ told \in [Proc -> BOOLEAN]
    /\ \A p \in Proc : st[p] = "live" <=> "none" \notin {first[p], run[p]}
    /\ mgr \in {"none"} \cup Manager
    /\ job \in {"idle", "start", "wait"}
    /\ then \in {"rest", "start", "remove"}
    /\ pid \in Proc \cup {NoProc}
    /\ stop \in {"none", "link"}
    /\ faults \in 0 .. MaxFaults

Init ==
    /\ iptables \in Iptables
    /\ link = FALSE /\ accept = FALSE
    /\ st = [p \in Proc |-> "none"]
    /\ first = [p \in Proc |-> "none"] /\ run = [p \in Proc |-> "none"]
    /\ told = [p \in Proc |-> FALSE]
    /\ mgr = "none" /\ want = FALSE
    /\ job = "idle" /\ then = "rest" /\ pid = NoProc
    /\ stop = "none" /\ rough = FALSE /\ faults = 0

Alive(p) == p \in Proc /\ st[p] # "none"

\* p exits; its goroutines and its context go with it.
Gone(p) ==
    /\ st' = [st EXCEPT ![p] = "none"]
    /\ first' = [first EXCEPT ![p] = "none"] /\ run' = [run EXCEPT ![p] = "none"]
    /\ told' = [told EXCEPT ![p] = FALSE]

\* p exits without having run its stopper.
Dies(p) == Gone(p) /\ rough' = TRUE

-----------------------------------------------------------------------------
(* main.                                                                   *)

OpenAlways(p) ==
    /\ st[p] = "device"
    /\ st' = [st EXCEPT ![p] = "opened"]
    /\ accept' = TRUE
    /\ UNCHANGED <<iptables, link, first, run, told, service, rest>>

\* NewLinuxDevice and NewLinuxRouter, which opens the port.
OpenRouter(p) ==
    /\ st[p] = "device"
    /\ st' = [st EXCEPT ![p] = "opened"]
    /\ accept' = iptables
    /\ UNCHANGED <<iptables, link, first, run, told, service, rest>>

\* NotifyContext and Setup; then Run on a goroutine of its own and the first Tick.
Setup(p) ==
    /\ st[p] = "opened"
    /\ st' = [st EXCEPT ![p] = "live"]
    /\ link' = TRUE
    /\ first' = [first EXCEPT ![p] = "fetch"] /\ run' = [run EXCEPT ![p] = "rest"]
    /\ UNCHANGED <<iptables, accept, told, service, rest>>

\* fatalf: a device, router, key or Setup error.  What was opened stays open, and
\* the interface stays when Setup failed after it had been made.
Fatal(p) ==
    /\ \/ st[p] = "device" /\ accept' \in {accept, iptables} /\ link' = link
       \/ st[p] = "opened" /\ accept' = accept /\ link' \in {link, TRUE}
    /\ faults < MaxFaults /\ faults' = faults + 1
    /\ Dies(p)
    /\ UNCHANGED <<iptables, service, stop>>

StopAtOnce(p) ==
    /\ st[p] = "live" /\ run[p] = "done"
    /\ st' = [st EXCEPT ![p] = "close"]
    /\ run' = [run EXCEPT ![p] = "none"]
    /\ UNCHANGED <<iptables, host, first, told, service, rest>>

\* The first Tick has returned and done is closed: the stopper begins.
Stopper(p) ==
    /\ st[p] = "live" /\ first[p] = "done" /\ run[p] = "done"
    /\ st' = [st EXCEPT ![p] = "close"]
    /\ first' = [first EXCEPT ![p] = "none"] /\ run' = [run EXCEPT ![p] = "none"]
    /\ UNCHANGED <<iptables, host, told, service, rest>>

CloseRouter(p) ==
    /\ st[p] = "close" /\ iptables
    /\ st' = [st EXCEPT ![p] = "delete"]
    /\ accept' = FALSE
    /\ UNCHANGED <<iptables, link, first, run, told, service, rest>>

\* Without iptables main has set rtr to nil, and the call panics.
ClosePanics(p) ==
    /\ st[p] = "close" /\ ~iptables
    /\ Dies(p)
    /\ UNCHANGED <<iptables, host, service, stop, faults>>

Delete(p) ==
    /\ st[p] = "delete"
    /\ link' = FALSE
    /\ Gone(p)
    /\ UNCHANGED <<iptables, accept, service, rest>>

-----------------------------------------------------------------------------
(* Passes: main's own, under a deadline no signal ends, and those of Run.  *)

\* First Tick of main: the fetch fails or Apply finds no interface; it is only logged.
FirstFails(p) ==
    /\ first[p] = "fetch"
    /\ first' = [first EXCEPT ![p] = "done"]
    /\ UNCHANGED <<iptables, host, st, run, told, service, rest>>

FirstApplies(p) ==
    /\ first[p] = "fetch" /\ link
    /\ first' = [first EXCEPT ![p] = "tail"]
    /\ UNCHANGED <<iptables, host, st, run, told, service, rest>>

\* The race, routes and syncNat, whose EnsurePort puts the accept back.
FirstEnds(p) ==
    /\ first[p] = "tail"
    /\ first' = [first EXCEPT ![p] = "done"]
    /\ accept' = iptables
    /\ UNCHANGED <<iptables, link, st, run, told, service, rest>>

\* The ticker fires; select may prefer it to a context that is done.
RunTicks(p) ==
    /\ run[p] = "rest"
    /\ run' = [run EXCEPT ![p] = "fetch"]
    /\ UNCHANGED <<iptables, host, st, first, told, service, rest>>

RunReturns(p) ==
    /\ run[p] = "rest" /\ told[p]
    /\ run' = [run EXCEPT ![p] = "done"]
    /\ UNCHANGED <<iptables, host, st, first, told, service, rest>>

RunFails(p) ==
    /\ run[p] = "fetch"
    /\ run' = [run EXCEPT ![p] = "rest"]
    /\ UNCHANGED <<iptables, host, st, first, told, service, rest>>

RunApplies(p) ==
    /\ run[p] = "fetch" /\ link
    /\ run' = [run EXCEPT ![p] = "tail"]
    /\ UNCHANGED <<iptables, host, st, first, told, service, rest>>

RunGoneRetries(p) ==
    /\ run[p] = "fetch" /\ ~link
    /\ run' = [run EXCEPT ![p] = "rest"]
    /\ UNCHANGED <<iptables, host, st, first, told, service, rest>>

\* Apply reports ErrDeviceGone, and Run returns.
RunGone(p) ==
    /\ run[p] = "fetch" /\ ~link
    /\ run' = [run EXCEPT ![p] = "done"]
    /\ UNCHANGED <<iptables, host, st, first, told, service, rest>>

RunEnds(p) ==
    /\ run[p] = "tail"
    /\ run' = [run EXCEPT ![p] = "rest"]
    /\ accept' = iptables
    /\ UNCHANGED <<iptables, link, st, first, told, service, rest>>

\* Both passes write lastGood and spokeSrc: the runtime may end the process.
Abort(p) ==
    /\ first[p] = "tail" /\ run[p] = "tail" /\ faults < MaxFaults
    /\ faults' = faults + 1
    /\ Dies(p)
    /\ UNCHANGED <<iptables, host, service, stop>>

-----------------------------------------------------------------------------
(* The service manager.                                                    *)

\* is_running, and systemd's view of the main process.
Running == Alive(pid)

\* SIGTERM: caught once NotifyContext was called, deadly before.
Term(p) ==
    IF st[p] \in {"device", "opened"} THEN Dies(p)
    ELSE /\ told' = [told EXCEPT ![p] = TRUE]
         /\ UNCHANGED <<st, first, run, rough>>

\* installService: write the unit or script, enable it for boot, start it.
Install(m) ==
    /\ mgr = "none" /\ job = "idle"
    /\ mgr' = m /\ want' = TRUE /\ job' = "start"
    /\ UNCHANGED <<iptables, host, procs, then, pid, rest>>

\* systemctl start, or the script's start.
StartVerb ==
    /\ mgr # "none" /\ job = "idle"
    /\ want' = TRUE /\ job' = "start"
    /\ UNCHANGED <<iptables, host, procs, mgr, then, pid, rest>>

\* Ids carry no meaning, so any free one will do; Proc bounds how many overlap.
Spawn ==
    LET free == {p \in Proc : ~Alive(p)}
        p    == CHOOSE q \in free : TRUE
    IN  free # {} /\ st' = [st EXCEPT ![p] = "device"] /\ pid' = p

LaunchUnchecked ==
    /\ job = "start"
    /\ job' = "idle"
    /\ Spawn
    /\ UNCHANGED <<iptables, host, first, run, told, mgr, want, then, rest>>

\* Start a process, unless one is running.
Launch ==
    /\ job = "start"
    /\ job' = "idle"
    /\ \/ Running /\ UNCHANGED <<st, pid>>
       \/ ~Running /\ Spawn
    /\ UNCHANGED <<iptables, host, first, run, told, mgr, want, then, rest>>

\* Restart=always: the main process has gone, whatever its exit code.
Restart ==
    /\ mgr = "systemd" /\ want /\ job = "idle" /\ ~Running
    /\ job' = "start"
    /\ UNCHANGED <<iptables, host, procs, mgr, want, then, pid, rest>>

\* A stop, a restart, or uninstallService, which stops first.
StopVerb(next) ==
    /\ mgr # "none" /\ job = "idle"
    /\ job' = "wait" /\ then' = next
    /\ want' = (next = "start")
    /\ IF Running THEN Term(pid) ELSE UNCHANGED <<procs, rough>>
    /\ UNCHANGED <<iptables, host, mgr, pid, stop, faults>>

\* uninstallService removes the unit or script once the stop has returned.
ManagerAfter == IF then = "remove" THEN "none" ELSE mgr

(***************************************************************************)
(* The process is gone; or the script has counted to 20 and goes on.       *)
(* systemd kills a process that takes too long, which Kill stands for.     *)
(***************************************************************************)
WaitOver ==
    /\ job = "wait"
    /\ ~Running \/ (mgr = "sysvinit" /\ SlowStops)
    /\ pid' = NoProc
    /\ job' = IF then = "start" THEN "start" ELSE "idle"
    /\ mgr' = ManagerAfter
    /\ then' = "rest"
    /\ UNCHANGED <<iptables, host, procs, want, rest>>

-----------------------------------------------------------------------------
(* meshd -stop, kills and reboots.                                         *)

\* CleanupFirewall, then stopInterface.
StopSweeps ==
    /\ stop = "none"
    /\ stop' = "link"
    /\ accept' = FALSE
    /\ rough' = FALSE
    /\ UNCHANGED <<iptables, link, procs, service, faults>>

StopDeletes ==
    /\ stop = "link"
    /\ stop' = "none"
    /\ link' = FALSE
    /\ UNCHANGED <<iptables, accept, procs, service, rough, faults>>

Kill(p) ==
    /\ Alive(p) /\ faults < MaxFaults
    /\ faults' = faults + 1
    /\ Dies(p)
    /\ UNCHANGED <<iptables, host, service, stop>>

(***************************************************************************)
(* Interface, rules, processes and /run are gone.  The unit is enabled and *)
(* comes up; the script may be, if enableSysVBoot succeeded.               *)
(***************************************************************************)
Reboot ==
    /\ faults < MaxFaults
    /\ faults' = faults + 1
    /\ link' = FALSE /\ accept' = FALSE
    /\ st' = [p \in Proc |-> "none"]
    /\ first' = [p \in Proc |-> "none"] /\ run' = [p \in Proc |-> "none"]
    /\ told' = [p \in Proc |-> FALSE]
    /\ want' \in CASE mgr = "none"     -> {FALSE}
                   [] mgr = "systemd"  -> {TRUE}
                   [] mgr = "sysvinit" -> BOOLEAN
    /\ job' = IF want' THEN "start" ELSE "idle"
    /\ pid' = NoProc /\ then' = "rest"
    /\ stop' = "none" /\ rough' = FALSE
    /\ UNCHANGED <<iptables, mgr>>

-----------------------------------------------------------------------------

\* What a process does of its own.
Step(p) ==
    \/ OpenRouter(p) \/ Setup(p) \/ Stopper(p)
    \/ CloseRouter(p) \/ ClosePanics(p) \/ Delete(p)
    \/ FirstFails(p) \/ FirstApplies(p) \/ FirstEnds(p)
    \/ RunTicks(p) \/ RunReturns(p) \/ RunFails(p)
    \/ RunApplies(p) \/ RunGone(p) \/ RunEnds(p)

Service == Launch \/ Restart \/ WaitOver

Operator ==
    \/ \E m \in Manager : Install(m)
    \/ StartVerb
    \/ \E next \in {"rest", "start", "remove"} : StopVerb(next)
    \/ StopSweeps \/ StopDeletes

Fault == Reboot \/ \E p \in Proc : Fatal(p) \/ Abort(p) \/ Kill(p)

Next == (\E p \in Proc : Step(p)) \/ Service \/ Operator \/ Fault

Spec == Init /\ [][Next]_vars

(***************************************************************************)
(* Every goroutine goes on, and the manager does its work.  A pass that    *)
(* fetches again and again does not fail each time, and select does not    *)
(* prefer the ticker to a cancelled context each time.                     *)
(***************************************************************************)
FairSpec ==
    /\ Spec /\ WF_vars(Service)
    /\ \A p \in Proc :
        /\ WF_vars(OpenRouter(p) \/ Setup(p) \/ Stopper(p))
        /\ WF_vars(CloseRouter(p) \/ ClosePanics(p) \/ Delete(p))
        /\ WF_vars(FirstFails(p) \/ FirstApplies(p)) /\ WF_vars(FirstEnds(p))
        /\ WF_vars(RunTicks(p)) /\ WF_vars(RunEnds(p))
        /\ SF_vars(RunReturns(p)) /\ SF_vars(RunGone(p))

-----------------------------------------------------------------------------
(* Properties.                                                             *)

(***************************************************************************)
(* Stopper and -stop: when no process is left and each one since the last  *)
(* -stop ended through its stopper, neither the interface nor a rule is    *)
(* left, whatever the order in which daemons overlapped and -stop ran, and *)
(* although passes put rules in place at any time (main.go:249-257,        *)
(* README.md:71-72).                                                       *)
(***************************************************************************)
EndsClean ==
    (\A p \in Proc : ~Alive(p)) /\ stop = "none" /\ ~rough => ~link /\ ~accept

(***************************************************************************)
(* The pid file and is_running, or systemd's main process: no second       *)
(* daemon is started beside one that has not been told to stop, so two of  *)
(* them never both mean to own the interface (service.go:83-98).           *)
(***************************************************************************)
OneOwner ==
    \A p, q \in Proc : Alive(p) /\ Alive(q) /\ ~told[p] /\ ~told[q] => p = q

(***************************************************************************)
(* Restart=always: while the unit stays active the node comes back with   *)
(* its interface after a kill, an abort of the runtime, a fatal error, a   *)
(* reboot, a panic, and also after -stop, which takes the interface from a *)
(* live daemon and leaves it to the daemon to notice (service.go:54).      *)
(***************************************************************************)
UnitActive == mgr = "systemd" /\ want /\ job # "wait"
Serving == link /\ \E p \in Proc : st[p] = "live"
ComesBack == UnitActive ~> (Serving \/ ~UnitActive)

(***************************************************************************)
(* The stopper is to "tear down iface + peers on exit" (main.go:255): a    *)
(* process that comes to its stopper leaves no interface when it ends.     *)
(***************************************************************************)
GracefulShutdownCleans ==
    [][\A p \in Proc : st[p] \in {"close", "delete"} /\ st'[p] = "none" => ~link']_vars
=============================================================================
