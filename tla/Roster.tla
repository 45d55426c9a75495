------------------------------- MODULE Roster -------------------------------
(***************************************************************************)
(* The roster half of a reconcile pass (Daemon.Tick up to buildPlans):     *)
(* a node stamps a record with the next sequence number, publishes it      *)
(* under the shared DHT key with put-confirm-get (ReliableStore.Publish),  *)
(* and folds everybody else's records out of several partial reads         *)
(* (Roster.FetchStable).  meshd runs Tick on two goroutines of a process:  *)
(* "main" runs the first one, under a 30 s deadline, while "run" is        *)
(* already driving Daemon.Run's ticker.  "peek" is the separate process of  *)
(* meshd -peek, which only fetches.                                        *)
(***************************************************************************)
EXTENDS Integers, FiniteSets

CONSTANTS
    Node,        \* node names
    Proc,        \* the goroutines explored, as pairs <<node, kind>>
    Sec,         \* clock units (nanoseconds) in a second
    MaxAge,      \* Roster.maxAge, in seconds
    MaxRetries,  \* ReliableStore.maxRetries
    Attempts,    \* FetchStable's attempts
    Foreign,     \* names that unverifiable values under the key may claim
    StepsBack,   \* nodes whose wall clock may be set back while meshd is down
    MaxClock     \* bound: the largest wall-clock value explored

ASSUME RosterAssumption ==
    /\ Proc \subseteq Node \X {"main", "run", "peek"}
    /\ Node # {} /\ Foreign \subseteq Node
    /\ Sec \in Nat \ {0}
    /\ MaxAge \in Nat
    /\ MaxRetries \in Nat
    /\ Attempts \in Nat \ {0}
    /\ StepsBack \subseteq Node
    /\ MaxClock \in Nat

Daemon(p) == p[2] # "peek"

(***************************************************************************)
(* A value under the roster key.  "genuine" is what Open, DecodeRecord and *)
(* VerifyBinding establish together: sealed with the mesh key, signed, and *)
(* bound to its name.                                                      *)
(***************************************************************************)
Record == [name: Node, seq: Nat, ts: Nat, genuine: BOOLEAN]

VARIABLES
    clock,    \* clock[n]: the wall clock of n's host
    up,       \* up[n]: meshd is running on n
    seq,      \* seq[n]: Daemon.seq
    dht,      \* the values put under the roster key (expiry: see FetchOk)
    pc,       \* pc[p]: where goroutine p is in Tick
    reg,      \* reg[p]: the value of Daemon.seq and the time that p has read
    rec,      \* rec[p]: the record p's Tick publishes
    tries,    \* tries[p]: the attempt counter of the loop p is in
    expired,  \* expired[p]: p's context is done
    lastErr,  \* lastErr[p]: FetchStable's lastErr # nil
    merged,   \* merged[p]: FetchStable's merged, as its set of records
    result,   \* result[p]: what p's last buildPlans returned
    seen,     \* history: what p's reads of this pass brought that counts
    stale     \* stale[n], history: what processes of n that have ended had stamped

nodeVars  == <<clock, up, seq, stale>>
tickVars  == <<reg, rec>>
fetchVars == <<lastErr, merged, result, seen>>
vars == <<clock, up, seq, dht, pc, reg, rec, tries, expired,
          lastErr, merged, result, seen, stale>>

NoRecord == [name |-> CHOOSE n \in Node : TRUE, seq |-> 0, ts |-> 0,
             genuine |-> FALSE]

PCs == {"off", "idle", "inc", "put", "confirm", "fetch", "pause", "view", "done"}

TypeOK ==
    /\ clock \in [Node -> Nat]
    /\ up \in [Node -> BOOLEAN]
    /\ seq \in [Node -> Nat]
    /\ dht \subseteq Record
    /\ pc \in [Proc -> PCs]
    /\ reg \in [Proc -> [seq: Nat, ts: Nat]]
    /\ rec \in [Proc -> Record]
    /\ tries \in [Proc -> Nat]
    /\ expired \in [Proc -> BOOLEAN]
    /\ lastErr \in [Proc -> BOOLEAN]
    /\ merged \in [Proc -> SUBSET Record]
    /\ result \in [Proc -> {"none", "ok", "err"}]
    /\ seen \in [Proc -> SUBSET Record]
    /\ stale \in [Node -> SUBSET Record]

NoReg == [seq |-> 0, ts |-> 0]

Init ==
    /\ clock = [n \in Node |-> 0]
    /\ up = [n \in Node |-> FALSE]
    /\ seq = [n \in Node |-> 0]
    /\ dht = {}
    /\ pc = [p \in Proc |-> "off"]
    /\ reg = [p \in Proc |-> NoReg]
    /\ rec = [p \in Proc |-> NoRecord]
    /\ tries = [p \in Proc |-> 0]
    /\ expired = [p \in Proc |-> FALSE]
    /\ lastErr = [p \in Proc |-> FALSE]
    /\ merged = [p \in Proc |-> {}]
    /\ result = [p \in Proc |-> "none"]
    /\ seen = [p \in Proc |-> {}]
    /\ stale = [n \in Node |-> {}]

-----------------------------------------------------------------------------
(* The process: NewDaemon, main's two goroutines, exit, and being killed.  *)

Threads(n) == {p \in Proc : p[1] = n /\ Daemon(p)}

StartFrom(n, s) ==
    /\ ~up[n] /\ Threads(n) # {}
    /\ up' = [up EXCEPT ![n] = TRUE]
    /\ seq' = [seq EXCEPT ![n] = s]
    /\ pc' = [p \in Proc |-> IF p \in Threads(n) THEN "idle" ELSE pc[p]]
    /\ UNCHANGED <<clock, stale, dht, tickVars, tries, expired, fetchVars>>

StartCountingFromZero(n) == StartFrom(n, 0)

\* NewDaemon: the sequence starts at the wall clock.
Start(n) == StartFrom(n, clock[n])

\* The locals of the passes of Q, which are over.
Forget(Q) ==
    /\ reg' = [p \in Proc |-> IF p \in Q THEN NoReg ELSE reg[p]]
    /\ rec' = [p \in Proc |-> IF p \in Q THEN NoRecord ELSE rec[p]]
    /\ tries' = [p \in Proc |-> IF p \in Q THEN 0 ELSE tries[p]]
    /\ lastErr' = [p \in Proc |-> p \notin Q /\ lastErr[p]]
    /\ merged' = [p \in Proc |-> IF p \in Q THEN {} ELSE merged[p]]
    /\ result' = [p \in Proc |-> IF p \in Q THEN "none" ELSE result[p]]
    /\ seen' = [p \in Proc |-> IF p \in Q THEN {} ELSE seen[p]]

\* n's values under the key, and those its process may still be putting there.
Stamped(n) ==
    {r \in dht : r.genuine /\ r.name = n} \cup ({rec[p] : p \in Threads(n)} \ {NoRecord})

Halt(n) ==
    /\ up' = [up EXCEPT ![n] = FALSE]
    /\ stale' = [stale EXCEPT ![n] = @ \cup Stamped(n)]
    /\ pc' = [p \in Proc |-> IF p \in Threads(n) THEN "off" ELSE pc[p]]
    /\ expired' = [p \in Proc |-> p \notin Threads(n) /\ expired[p]]
    /\ Forget(Threads(n))
    /\ UNCHANGED <<clock, seq, dht>>

\* main returns once Run has returned and the first Tick is over.
Exit(n) ==
    /\ up[n]
    /\ \A p \in Threads(n) : pc[p] = "done"
    /\ Halt(n)

Crash(n) == up[n] /\ Halt(n)

\* The 30 s deadline of the first Tick or of -peek passes, or SIGTERM reaches Run.
ContextDone(p) ==
    /\ pc[p] \notin {"off", "done"}
    /\ ~expired[p]
    /\ expired' = [expired EXCEPT ![p] = TRUE]
    /\ UNCHANGED <<nodeVars, dht, pc, tickVars, tries, fetchVars>>

\* Run's select takes ctx.Done between two passes.
RunReturns(p) ==
    /\ p[2] = "run"
    /\ pc[p] = "idle"
    /\ expired[p]
    /\ pc' = [pc EXCEPT ![p] = "done"]
    /\ expired' = [expired EXCEPT ![p] = FALSE]
    /\ UNCHANGED <<nodeVars, dht, tickVars, tries, fetchVars>>

-----------------------------------------------------------------------------
(* Stamping a record.  nextSeq loads and stores Daemon.seq with no lock.   *)

TickBegins(p) ==
    /\ pc[p] = "idle"
    /\ reg' = [reg EXCEPT ![p] = [seq |-> seq[p[1]], ts |-> clock[p[1]] \div Sec]]
    /\ pc' = [pc EXCEPT ![p] = "inc"]
    /\ UNCHANGED <<nodeVars, dht, rec, tries, expired, fetchVars>>

\* The guard states that a pass takes at least one clock unit (a nanosecond).
NextSeq(p) ==
    /\ pc[p] = "inc"
    /\ reg[p].seq < clock[p[1]]
    /\ seq' = [seq EXCEPT ![p[1]] = reg[p].seq + 1]
    /\ rec' = [rec EXCEPT ![p] = [name |-> p[1], seq |-> reg[p].seq + 1,
                                  ts |-> reg[p].ts, genuine |-> TRUE]]
    /\ reg' = [reg EXCEPT ![p] = NoReg]
    /\ pc' = [pc EXCEPT ![p] = "put"]
    /\ UNCHANGED <<clock, up, stale, dht, tries, expired, fetchVars>>

-----------------------------------------------------------------------------
(* ReliableStore.Publish: put, confirm by reading back, retry, give up.    *)
(* Tick logs a failed publish and carries on to the fetch either way.      *)

ToFetch(p) ==
    /\ pc' = [pc EXCEPT ![p] = "fetch"]
    /\ tries' = [tries EXCEPT ![p] = 0]
    /\ UNCHANGED fetchVars

\* runPeek: fetch without publishing, under a 30 s deadline.
PeekStarts(p) ==
    /\ p[2] = "peek"
    /\ pc[p] = "off"
    /\ ToFetch(p)
    /\ UNCHANGED <<nodeVars, dht, tickVars, expired>>

RetryForever(p) ==
    \/ expired[p] /\ ToFetch(p)
    \/ /\ ~expired[p]
       /\ pc' = [pc EXCEPT ![p] = "put"]
       /\ UNCHANGED <<tries, fetchVars>>

\* Give up after maxRetries or when the context ends the sleep.
RetryOrGiveUp(p) ==
    \/ /\ tries[p] >= MaxRetries \/ expired[p]
       /\ ToFetch(p)
    \/ /\ tries[p] < MaxRetries
       /\ ~expired[p]
       /\ tries' = [tries EXCEPT ![p] = @ + 1]
       /\ pc' = [pc EXCEPT ![p] = "put"]
       /\ UNCHANGED fetchVars

PutOk(p) ==
    /\ pc[p] = "put"
    /\ ~expired[p]
    /\ dht' = dht \cup {rec[p]}
    /\ pc' = [pc EXCEPT ![p] = "confirm"]
    /\ UNCHANGED <<nodeVars, tickVars, tries, expired, fetchVars>>

\* A put reported as failed may still have stored the value.
PutFails(p) ==
    /\ pc[p] = "put"
    /\ dht' \in {dht} \cup {d \in {dht \cup {rec[p]}} : ~expired[p]}
    /\ RetryOrGiveUp(p)
    /\ UNCHANGED <<nodeVars, tickVars, expired>>

Confirmed(p) ==
    /\ pc[p] = "confirm"
    /\ ~expired[p]
    /\ rec[p] \in dht
    /\ ToFetch(p)
    /\ UNCHANGED <<nodeVars, dht, tickVars, expired>>

\* The read back fails, or is partial and misses our value.
NotConfirmed(p) ==
    /\ pc[p] = "confirm"
    /\ RetryOrGiveUp(p)
    /\ UNCHANGED <<nodeVars, dht, tickVars, expired>>

-----------------------------------------------------------------------------
(* Roster.Fetch and Roster.FetchStable.                                    *)

\* One record per name, none of a name's values newer than the one kept.
NewestOf(M, S) ==
    /\ M \subseteq S
    /\ \A m1, m2 \in M : m1.name = m2.name => m1 = m2
    /\ \A s \in S : \E m \in M : m.name = s.name /\ m.seq >= s.seq

\* The values Fetch does not skip.  A peek's Roster has no name of its own.
Accepts(p, r) ==
    /\ r.genuine
    /\ r.ts >= (clock[p[1]] \div Sec) - MaxAge
    /\ Daemon(p) => r.name # p[1]

(***************************************************************************)
(* What ought to count, stated apart from Fetch: verified values that are  *)
(* not the reader's own and at most MaxAge seconds old on its clock.       *)
(***************************************************************************)
Counts(p, r) ==
    /\ (clock[p[1]] \div Sec) - r.ts <= MaxAge
    /\ ~(Daemon(p) /\ r.name = p[1])
    /\ r.genuine

MergeOverwrites(M, got) ==
    got \cup {m \in M : \A g \in got : g.name # m.name}

\* FetchStable's merge: a record is replaced only by one with a higher Seq.
Merge(M, got) ==
    {g \in got : \A m \in M : m.name = g.name => m.seq < g.seq}
    \cup {m \in M : \A g \in got : g.name = m.name => m.seq >= g.seq}

\* FetchStable returns.
Finish(p, outcome) ==
    /\ pc' = [pc EXCEPT ![p] = "view"]
    /\ result' = [result EXCEPT ![p] = outcome]

OutcomeTellsEmpty(M, failed) ==
    CASE M # {} -> "ok" [] M = {} /\ failed -> "err" [] M = {} /\ ~failed -> "empty"

\* An empty view is an error only if some read failed.
Outcome(M, failed) == IF M = {} /\ failed THEN "err" ELSE "ok"

AttemptEnds(p, M, failed) ==
    /\ merged' = [merged EXCEPT ![p] = M]
    /\ lastErr' = [lastErr EXCEPT ![p] = failed]
    /\ tries' = [tries EXCEPT ![p] = @ + 1]
    /\ \/ /\ tries[p] < Attempts - 1
          /\ pc' = [pc EXCEPT ![p] = "pause"]
          /\ UNCHANGED result
       \/ /\ tries[p] >= Attempts - 1
          /\ Finish(p, Outcome(M, failed))

(***************************************************************************)
(* A GET returns some of the values ever put (the others have expired, or  *)
(* this vantage does not see them), in any order: among equal Seqs the     *)
(* fold keeps any one.                                                     *)
(***************************************************************************)
FetchOk(p) ==
    /\ pc[p] = "fetch"
    /\ ~expired[p]
    /\ \E vals \in SUBSET dht :
        LET ok == {r \in vals : Accepts(p, r)}
        IN  /\ \E got \in SUBSET ok : NewestOf(got, ok)
                                   /\ AttemptEnds(p, Merge(merged[p], got), lastErr[p])
            /\ seen' = [seen EXCEPT ![p] = @ \cup {r \in vals : Counts(p, r)}]
    /\ UNCHANGED <<nodeVars, dht, tickVars, expired>>

FetchFails(p) ==
    /\ pc[p] = "fetch"
    /\ AttemptEnds(p, merged[p], TRUE)
    /\ UNCHANGED <<nodeVars, dht, tickVars, expired, seen>>

\* ctx.Err() # nil at the head of the loop.
FetchBreaks(p) ==
    /\ pc[p] = "fetch"
    /\ expired[p]
    /\ Finish(p, Outcome(merged[p], lastErr[p]))
    /\ UNCHANGED <<nodeVars, dht, tickVars, tries, expired, lastErr, merged, seen>>

PauseOver(p) ==
    /\ pc[p] = "pause"
    /\ pc' = [pc EXCEPT ![p] = "fetch"]
    /\ UNCHANGED <<nodeVars, dht, tickVars, tries, expired, fetchVars>>

\* ctx.Done during the pause: merged is returned with a nil error.
PauseCut(p) ==
    /\ pc[p] = "pause"
    /\ expired[p]
    /\ Finish(p, "ok")
    /\ UNCHANGED <<nodeVars, dht, tickVars, tries, expired, lastErr, merged, seen>>

(***************************************************************************)
(* The rest of the pass uses the view and returns: main's Tick was its     *)
(* only one, Run waits for its ticker, a peek prints and exits.            *)
(***************************************************************************)
PassReturns(p) ==
    /\ pc[p] = "view"
    /\ pc' = [pc EXCEPT ![p] = CASE p[2] = "main" -> "done"
                                [] p[2] = "run"  -> "idle"
                                [] p[2] = "peek" -> "off"]
    /\ expired' = [expired EXCEPT ![p] = p[2] = "run" /\ @]
    /\ Forget({p})
    /\ UNCHANGED <<nodeVars, dht>>

-----------------------------------------------------------------------------
(* The world: time, and values under the key that are not ours.            *)

ClockTicks(n) ==
    /\ clock[n] < MaxClock
    /\ clock' = [clock EXCEPT ![n] = @ + 1]
    /\ UNCHANGED <<up, seq, stale, dht, pc, tickVars, tries, expired, fetchVars>>

\* A host without a battery-backed clock boots with an earlier time.
ClockStepsBack(n) ==
    /\ n \in StepsBack
    /\ ~up[n]
    /\ \E c \in 0 .. clock[n] - 1 : clock' = [clock EXCEPT ![n] = c]
    /\ UNCHANGED <<up, seq, stale, dht, pc, tickVars, tries, expired, fetchVars>>

\* A leftover under the key that does not verify, whatever it claims.
ForeignValue(n) ==
    /\ n \in Foreign
    /\ dht' = dht \cup {[name |-> n, seq |-> MaxClock + 1,
                         ts |-> MaxClock \div Sec, genuine |-> FALSE]}
    /\ UNCHANGED <<nodeVars, pc, tickVars, tries, expired, fetchVars>>

NodeStep(n) ==
    Start(n) \/ Exit(n) \/ Crash(n) \/ ClockTicks(n) \/ ClockStepsBack(n)
    \/ ForeignValue(n)

\* The steps of a pass that is under way.
TickStep(p) ==
    NextSeq(p) \/ PutOk(p) \/ PutFails(p) \/ Confirmed(p) \/ NotConfirmed(p)
    \/ FetchOk(p) \/ FetchFails(p) \/ FetchBreaks(p) \/ PauseOver(p) \/ PauseCut(p)
    \/ PassReturns(p)

Next ==
    \/ \E n \in Node : NodeStep(n)
    \/ \E p \in Proc : \/ TickBegins(p) \/ TickStep(p) \/ PeekStarts(p)
                       \/ RunReturns(p) \/ ContextDone(p)

Spec == Init /\ [][Next]_vars

\* A goroutine that can take a step of its pass does: calls return or time out.
FairSpec == Spec /\ \A p \in Proc : WF_vars(TickStep(p))

-----------------------------------------------------------------------------
(* Properties.                                                             *)

(***************************************************************************)
(* Whatever subset each GET returned, in whatever order, and however the   *)
(* attempts failed or were cut short, FetchStable's view holds, for every  *)
(* node of which a usable record was read in this pass, exactly one        *)
(* record, and none read in this pass is newer (roster.go:91-94).          *)
(***************************************************************************)
ViewIsNewestSeen == \A p \in Proc : NewestOf(merged[p], seen[p])

Stamps(p) == rec'[p] \notin {rec[p], NoRecord}

Beats(p, S) == Stamps(p) => \A r \in S : r.seq < rec'[p].seq

(***************************************************************************)
(* "records published after a restart always beat stale values still       *)
(* living in the DHT from previous runs" (daemon.go:170): whatever a pass  *)
(* stamps beats all that earlier processes of its node had stamped, put or *)
(* still on its way, although both goroutines draw on one counter without  *)
(* a lock and may set it back.  The node's clock must not go back.         *)
(***************************************************************************)
NewBeatsStale ==
    [][\A p \in Proc : p[1] \notin StepsBack => Beats(p, stale[p[1]])]_vars

(***************************************************************************)
(* Every pass that stamped a record gets through publish and fetch, or its *)
(* process dies: neither retry loop can hold the daemon for ever           *)
(* (store.go:78-104, roster.go:95-125).                                    *)
(***************************************************************************)
PassEnds ==
    \A p \in Proc : pc[p] = "put" ~> pc[p] \in {"idle", "done", "off"}
=============================================================================
