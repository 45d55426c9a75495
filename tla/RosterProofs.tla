---------------------------- MODULE RosterProofs ----------------------------
(* Theorems about Roster, for every set of nodes, goroutines and bounds.   *)
EXTENDS Roster, TLAPS

LEMMA ProcNode == \A p \in Proc : p[1] \in Node
  BY RosterAssumption

LEMMA SecondsNat == \A n \in Nat : n \div Sec \in Nat
  BY RosterAssumption

LEMMA NoRecordType == NoRecord \in Record
  <1>1. (CHOOSE n \in Node : TRUE) \in Node
    BY RosterAssumption
  <1> QED  BY <1>1 DEF NoRecord, Record

\* The locals of a pass keep their types when they are dropped.
LEMMA ForgetType ==
  ASSUME TypeOK, NEW Q, Forget(Q)
  PROVE  /\ reg' \in [Proc -> [seq: Nat, ts: Nat]]
         /\ rec' \in [Proc -> Record]
         /\ tries' \in [Proc -> Nat]
         /\ lastErr' \in [Proc -> BOOLEAN]
         /\ merged' \in [Proc -> SUBSET Record]
         /\ result' \in [Proc -> {"none", "ok", "err"}]
         /\ seen' \in [Proc -> SUBSET Record]
  BY NoRecordType DEF TypeOK, Forget, NoReg

(***************************************************************************)
(* Type correctness of the publish and fetch loops.                        *)
(***************************************************************************)
THEOREM RosterTypeOK == Spec => []TypeOK
  <1>1. Init => TypeOK
    BY NoRecordType DEF Init, TypeOK, PCs, NoReg
  <1>2. TypeOK /\ [Next]_vars => TypeOK'
    <2> SUFFICES ASSUME TypeOK, [Next]_vars PROVE TypeOK'
      OBVIOUS
    <2> USE ProcNode DEF PCs
    <2>1. CASE UNCHANGED vars
      BY <2>1 DEF TypeOK, vars
    <2>2. ASSUME NEW n \in Node, Start(n) PROVE TypeOK'
      BY <2>2 DEF TypeOK, Start, StartFrom, tickVars, fetchVars
    <2>3. ASSUME NEW n \in Node, Halt(n) PROVE TypeOK'
      <3>1. Stamped(n) \subseteq Record
        BY DEF Stamped, Threads, TypeOK
      <3> QED
        BY <2>3, <3>1, ForgetType DEF TypeOK, Halt
    <2>4. ASSUME NEW n \in Node, ClockTicks(n) \/ ClockStepsBack(n) PROVE TypeOK'
      <3>1. clock' \in [Node -> Nat]
        BY <2>4 DEF TypeOK, ClockTicks, ClockStepsBack
      <3>2. UNCHANGED <<up, seq, stale, dht, pc, tickVars, tries, expired, fetchVars>>
        BY <2>4 DEF ClockTicks, ClockStepsBack
      <3> QED
        BY <3>1, <3>2 DEF TypeOK, tickVars, fetchVars
    <2>14. ASSUME NEW n \in Node, ForeignValue(n) PROVE TypeOK'
      <3>1. MaxClock \div Sec \in Nat
        BY SecondsNat, RosterAssumption
      <3>2. [name |-> n, seq |-> MaxClock + 1, ts |-> MaxClock \div Sec,
             genuine |-> FALSE] \in Record
        BY <3>1, RosterAssumption DEF Record
      <3> QED
        BY <2>14, <3>2 DEF TypeOK, ForeignValue, nodeVars, tickVars, fetchVars
    <2>5. ASSUME NEW p \in Proc, ContextDone(p) \/ RunReturns(p) \/ PeekStarts(p)
          PROVE  TypeOK'
      <3>1. CASE ContextDone(p)
        BY <3>1 DEF TypeOK, ContextDone, nodeVars, tickVars, fetchVars
      <3>2. CASE RunReturns(p)
        BY <3>2 DEF TypeOK, RunReturns, nodeVars, tickVars, fetchVars
      <3>3. CASE PeekStarts(p)
        BY <3>3 DEF TypeOK, PeekStarts, ToFetch, nodeVars, tickVars, fetchVars
      <3> QED  BY <2>5, <3>1, <3>2, <3>3
    <2>6. ASSUME NEW p \in Proc, TickBegins(p) PROVE TypeOK'
      <3>1. clock[p[1]] \div Sec \in Nat
        BY SecondsNat DEF TypeOK
      <3> QED
        BY <2>6, <3>1 DEF TypeOK, TickBegins, nodeVars, fetchVars
    <2>7. ASSUME NEW p \in Proc, NextSeq(p) PROVE TypeOK'
      <3>1. [name |-> p[1], seq |-> reg[p].seq + 1, ts |-> reg[p].ts,
             genuine |-> TRUE] \in Record
        BY DEF TypeOK, Record
      <3>2. reg[p].seq + 1 \in Nat /\ NoReg \in [seq: Nat, ts: Nat]
        BY DEF TypeOK, NoReg
      <3>3. rec' \in [Proc -> Record]
        BY <2>7, <3>1 DEF TypeOK, NextSeq
      <3>4. /\ seq' \in [Node -> Nat]
            /\ reg' \in [Proc -> [seq: Nat, ts: Nat]]
            /\ pc' \in [Proc -> PCs]
        BY <2>7, <3>2 DEF TypeOK, NextSeq
      <3> QED
        BY <2>7, <3>3, <3>4 DEF TypeOK, NextSeq, fetchVars
    <2>15. ASSUME NEW p \in Proc, RetryOrGiveUp(p)
           PROVE  /\ tries' \in [Proc -> Nat] /\ pc' \in [Proc -> PCs]
                  /\ UNCHANGED fetchVars
      <3>1. CASE ToFetch(p)
        BY <3>1 DEF TypeOK, ToFetch
      <3>2. CASE tries' = [tries EXCEPT ![p] = @ + 1]
                 /\ pc' = [pc EXCEPT ![p] = "put"] /\ UNCHANGED fetchVars
        BY <3>2 DEF TypeOK
      <3> QED  BY <2>15, <3>1, <3>2 DEF RetryOrGiveUp
    <2>16. ASSUME NEW p \in Proc, PutOk(p) PROVE TypeOK'
      BY <2>16 DEF TypeOK, PutOk, nodeVars, tickVars, fetchVars
    <2>8. ASSUME NEW p \in Proc, PutFails(p) PROVE TypeOK'
      <3>1. dht' \subseteq Record
        <4>1. rec[p] \in Record
          BY DEF TypeOK
        <4>2. dht' = dht \/ dht' = dht \cup {rec[p]}
          BY <2>8 DEF PutFails
        <4> QED  BY <4>1, <4>2 DEF TypeOK
      <3> QED
        BY <2>8, <2>15, <3>1 DEF TypeOK, PutFails, nodeVars, tickVars, fetchVars
    <2>9. ASSUME NEW p \in Proc, Confirmed(p) \/ NotConfirmed(p) PROVE TypeOK'
      <3>1. CASE Confirmed(p)
        BY <3>1 DEF TypeOK, Confirmed, ToFetch, nodeVars, tickVars, fetchVars
      <3>2. CASE NotConfirmed(p)
        BY <3>2, <2>15 DEF TypeOK, NotConfirmed, nodeVars, tickVars, fetchVars
      <3> QED  BY <2>9, <3>1, <3>2
    <2>10. ASSUME NEW p \in Proc, FetchOk(p) PROVE TypeOK'
      <3>1. PICK vals \in SUBSET dht :
              /\ \E got \in SUBSET {r \in vals : Accepts(p, r)} :
                   AttemptEnds(p, Merge(merged[p], got), lastErr[p])
              /\ seen' = [seen EXCEPT ![p] = @ \cup {r \in vals : Counts(p, r)}]
        BY <2>10 DEF FetchOk
      <3>2. PICK got \in SUBSET {r \in vals : Accepts(p, r)} :
              AttemptEnds(p, Merge(merged[p], got), lastErr[p])
        BY <3>1
      <3>3. Merge(merged[p], got) \in SUBSET Record
        BY DEF Merge, TypeOK
      <3>4. seen' \in [Proc -> SUBSET Record]
        BY <3>1 DEF TypeOK
      <3>5. tries' \in [Proc -> Nat] /\ merged' \in [Proc -> SUBSET Record]
            /\ lastErr' \in [Proc -> BOOLEAN]
        BY <3>2, <3>3 DEF TypeOK, AttemptEnds
      <3>6. pc' \in [Proc -> PCs] /\ result' \in [Proc -> {"none", "ok", "err"}]
        BY <3>2 DEF TypeOK, AttemptEnds, Finish, Outcome
      <3> QED
        BY <2>10, <3>4, <3>5, <3>6 DEF TypeOK, FetchOk, nodeVars, tickVars
    <2>11. ASSUME NEW p \in Proc, FetchFails(p) PROVE TypeOK'
      <3>1. tries' \in [Proc -> Nat] /\ merged' \in [Proc -> SUBSET Record]
            /\ lastErr' \in [Proc -> BOOLEAN]
        BY <2>11 DEF TypeOK, FetchFails, AttemptEnds
      <3>2. pc' \in [Proc -> PCs] /\ result' \in [Proc -> {"none", "ok", "err"}]
        BY <2>11 DEF TypeOK, FetchFails, AttemptEnds, Finish, Outcome
      <3> QED
        BY <2>11, <3>1, <3>2 DEF TypeOK, FetchFails, nodeVars, tickVars
    <2>12. ASSUME NEW p \in Proc, FetchBreaks(p) \/ PauseOver(p) \/ PauseCut(p)
           PROVE  TypeOK'
      BY <2>12 DEF TypeOK, FetchBreaks, PauseOver, PauseCut, Finish, Outcome, nodeVars,
                   tickVars, fetchVars
    <2>13. ASSUME NEW p \in Proc, PassReturns(p) PROVE TypeOK'
      <3>1. p[2] \in {"main", "run", "peek"}
        BY RosterAssumption
      <3> QED
        BY <2>13, <3>1, ForgetType DEF TypeOK, PassReturns, nodeVars
    <2> QED
      BY <2>1, <2>2, <2>3, <2>4, <2>5, <2>6, <2>7, <2>8, <2>9, <2>10, <2>11, <2>12, <2>13,
         <2>14, <2>16
      DEF Next, NodeStep, TickStep, Exit, Crash
  <1> QED  BY <1>1, <1>2, PTL DEF Spec

-----------------------------------------------------------------------------
(* The merge over partial reads.                                           *)

\* A record passes Fetch's filter exactly when it ought to count.
LEMMA AcceptsIffCounts ==
  ASSUME TypeOK, NEW p \in Proc, NEW r \in Record
  PROVE  Accepts(p, r) <=> Counts(p, r)
  <1>1. clock[p[1]] \div Sec \in Nat /\ r.ts \in Nat
    BY SecondsNat, ProcNode DEF TypeOK, Record
  <1> QED  BY <1>1, RosterAssumption DEF Accepts, Counts

\* Merging the newest of one read into the newest so far gives the newest of both.
LEMMA MergeNewest ==
  ASSUME NEW S \in SUBSET Record, NEW T \in SUBSET Record,
         NEW M, NEW got, NewestOf(M, S), NewestOf(got, T)
  PROVE  NewestOf(Merge(M, got), S \cup T)
  <1> DEFINE R == Merge(M, got)
  <1>0. \A r \in S \cup T : r.seq \in Nat
    BY DEF Record
  <1>1. M \subseteq S /\ got \subseteq T /\ R \subseteq S \cup T
    BY DEF NewestOf, Merge
  <1>2. \A a, b \in R : a.name = b.name => a = b
    BY <1>0, <1>1 DEF NewestOf, Merge
  <1>3. ASSUME NEW m \in M PROVE \E r \in R : r.name = m.name /\ r.seq >= m.seq
    <2>1. CASE \A g \in got : g.name = m.name => m.seq >= g.seq
      BY <2>1, <1>0, <1>1 DEF Merge
    <2>2. CASE \E g \in got : g.name = m.name /\ ~(m.seq >= g.seq)
      <3>1. PICK g \in got : g.name = m.name /\ ~(m.seq >= g.seq)
        BY <2>2
      <3>2. \A x \in M : x.name = g.name => x = m
        BY <3>1 DEF NewestOf
      <3>3. g \in R /\ g.seq >= m.seq
        BY <3>1, <3>2, <1>0, <1>1 DEF Merge
      <3> QED  BY <3>1, <3>3
    <2> QED  BY <2>1, <2>2
  <1>4. ASSUME NEW g \in got PROVE \E r \in R : r.name = g.name /\ r.seq >= g.seq
    <2>1. CASE \A m \in M : m.name = g.name => m.seq < g.seq
      BY <2>1, <1>0, <1>1 DEF Merge
    <2>2. CASE \E m \in M : m.name = g.name /\ ~(m.seq < g.seq)
      <3>1. PICK m \in M : m.name = g.name /\ ~(m.seq < g.seq)
        BY <2>2
      <3>2. \A x \in got : x.name = m.name => x = g
        BY <3>1 DEF NewestOf
      <3>3. m \in R /\ m.seq >= g.seq
        BY <3>1, <3>2, <1>0, <1>1 DEF Merge
      <3> QED  BY <3>1, <3>3
    <2> QED  BY <2>1, <2>2
  <1>5. \A s \in S \cup T : \E r \in R : r.name = s.name /\ r.seq >= s.seq
    <2> TAKE s \in S \cup T
    <2>1. PICK x \in M \cup got : x.name = s.name /\ x.seq >= s.seq
      BY DEF NewestOf
    <2>2. PICK r \in R : r.name = x.name /\ r.seq >= x.seq
      BY <1>3, <1>4
    <2> HIDE DEF R
    <2>3. r.seq >= s.seq
      BY <2>1, <2>2, <1>0, <1>1
    <2> QED  BY <2>1, <2>2, <2>3
  <1> QED  BY <1>1, <1>2, <1>5 DEF NewestOf

(***************************************************************************)
(* Whatever each GET returned and however the attempts ended, the merged   *)
(* view is the newest of everything usable that was read (roster.go:95).   *)
(***************************************************************************)
THEOREM ViewIsNewest == Spec => []ViewIsNewestSeen
  <1>1. Init => ViewIsNewestSeen
    BY DEF Init, ViewIsNewestSeen, NewestOf
  <1>2. TypeOK /\ ViewIsNewestSeen /\ [Next]_vars => ViewIsNewestSeen'
    <2> SUFFICES ASSUME TypeOK, ViewIsNewestSeen, [Next]_vars,
                        NEW q \in Proc
                 PROVE  NewestOf(merged'[q], seen'[q])
      BY DEF ViewIsNewestSeen
    <2>0. NewestOf(merged[q], seen[q])
      BY DEF ViewIsNewestSeen
    <2>1. CASE UNCHANGED <<merged, seen>>
      BY <2>0, <2>1
    <2>2. ASSUME NEW Q, Forget(Q) PROVE NewestOf(merged'[q], seen'[q])
      <3>1. CASE q \in Q
        BY <2>2, <3>1 DEF Forget, NewestOf
      <3>2. CASE q \notin Q
        BY <2>0, <2>2, <3>2 DEF Forget
      <3> QED  BY <3>1, <3>2
    <2>3. ASSUME NEW p \in Proc, FetchFails(p) PROVE UNCHANGED <<merged, seen>>
      BY <2>3 DEF FetchFails, AttemptEnds, TypeOK
    <2>4. ASSUME NEW p \in Proc, FetchOk(p) PROVE NewestOf(merged'[q], seen'[q])
      <3>1. PICK vals \in SUBSET dht :
              /\ \E got \in SUBSET {r \in vals : Accepts(p, r)} :
                   /\ NewestOf(got, {r \in vals : Accepts(p, r)})
                   /\ AttemptEnds(p, Merge(merged[p], got), lastErr[p])
              /\ seen' = [seen EXCEPT ![p] = @ \cup {r \in vals : Counts(p, r)}]
        BY <2>4 DEF FetchOk
      <3>2. PICK got \in SUBSET {r \in vals : Accepts(p, r)} :
              /\ NewestOf(got, {r \in vals : Accepts(p, r)})
              /\ AttemptEnds(p, Merge(merged[p], got), lastErr[p])
        BY <3>1
      <3>3. merged' = [merged EXCEPT ![p] = Merge(merged[p], got)]
        BY <3>2 DEF AttemptEnds
      <3>4. CASE q # p
        BY <2>0, <3>1, <3>3, <3>4 DEF TypeOK
      <3>5. CASE q = p
        <4>1. vals \subseteq Record
          BY DEF TypeOK
        <4>2. {r \in vals : Accepts(p, r)} = {r \in vals : Counts(p, r)}
          BY <4>1, AcceptsIffCounts
        <4>3. {r \in vals : Counts(p, r)} \in SUBSET Record /\ seen[p] \in SUBSET Record
          BY <4>1 DEF TypeOK
        <4>4. NewestOf(Merge(merged[p], got), seen[p] \cup {r \in vals : Counts(p, r)})
          BY <2>0, <3>2, <3>5, <4>2, <4>3, MergeNewest
        <4>5. merged'[p] = Merge(merged[p], got)
              /\ seen'[p] = seen[p] \cup {r \in vals : Counts(p, r)}
          BY <3>1, <3>3 DEF TypeOK
        <4> QED  BY <3>5, <4>4, <4>5
      <3> QED  BY <3>4, <3>5
    <2> QED
      BY <2>1, <2>2, <2>3, <2>4
      DEF Next, NodeStep, TickStep, vars, fetchVars, Start, StartFrom, Exit, Crash, Halt,
          ClockTicks, ClockStepsBack, ForeignValue, ContextDone, RunReturns, PeekStarts,
          ToFetch, TickBegins, NextSeq, PutOk, PutFails, RetryOrGiveUp, Confirmed,
          NotConfirmed, FetchBreaks, PauseOver, PauseCut, PassReturns
  <1> QED  BY <1>1, <1>2, RosterTypeOK, PTL DEF Spec

-----------------------------------------------------------------------------
(* Sequence numbers across restarts.                                       *)

(***************************************************************************)
(* The inductive strengthening of NewBeatsStale.  Two unlocked goroutines  *)
(* may set Daemon.seq back, but never to or below what a process before    *)
(* them stamped: that is bounded by the clock the new process started      *)
(* from, and every value of Daemon.seq since was counted up from there.    *)
(***************************************************************************)
Steady(n) == n \in Node \ StepsBack

SeqInv ==
    /\ \A r \in dht : r.genuine /\ Steady(r.name) => r.seq <= clock[r.name]
    /\ \A n \in Node : Steady(n) =>
         \A r \in stale[n] : r.seq <= clock[n] /\ (up[n] => r.seq <= seq[n])
    /\ \A p \in Proc : Steady(p[1]) => rec[p].seq <= clock[p[1]]
    /\ \A p \in Proc : Steady(p[1]) /\ pc[p] = "inc" =>
         \A r \in stale[p[1]] : r.seq <= reg[p].seq
    /\ \A p \in Proc : pc[p] \in {"put", "confirm"} => rec[p].name = p[1]
    /\ \A p \in Proc : pc[p] \in {"idle", "inc", "put", "confirm"} => Daemon(p)
    /\ \A p \in Proc : Daemon(p) /\ pc[p] # "off" => up[p[1]]

LEMMA SeqInvStep ==
  ASSUME TypeOK, SeqInv, [Next]_vars
  PROVE  SeqInv'
  <1> USE ProcNode DEF Steady
  <1>1. CASE UNCHANGED vars
    BY <1>1 DEF SeqInv, vars, Daemon
  <1>2. ASSUME NEW n \in Node, Start(n) PROVE SeqInv'
    <2>1. seq' = [seq EXCEPT ![n] = clock[n]] /\ ~up[n] /\ up' = [up EXCEPT ![n] = TRUE]
          /\ UNCHANGED <<clock, stale, dht, reg, rec>>
      BY <1>2 DEF Start, StartFrom, tickVars
    <2>2. \A p \in Proc : pc'[p] = IF p \in Threads(n) THEN "idle" ELSE pc[p]
      BY <1>2 DEF Start, StartFrom
    <2>3. \A m \in Node : Steady(m) =>
            \A r \in stale'[m] : r.seq <= clock'[m] /\ (up'[m] => r.seq <= seq'[m])
      BY <2>1 DEF SeqInv, TypeOK
    <2>4. \A p \in Proc : Daemon(p) /\ pc'[p] # "off" => up'[p[1]]
      <3>1. up'[n] /\ \A m \in Node : up[m] => up'[m]
        BY <2>1 DEF TypeOK
      <3>2. \A p \in Threads(n) : p[1] = n
        BY DEF Threads
      <3> QED  BY <2>2, <3>1, <3>2 DEF SeqInv
    <2> QED  BY <2>1, <2>2, <2>3, <2>4 DEF SeqInv, Daemon, Threads
  <1>3. ASSUME NEW n \in Node, Halt(n) PROVE SeqInv'
    <2>1. /\ UNCHANGED <<clock, seq, dht>> /\ up' = [up EXCEPT ![n] = FALSE]
          /\ stale' = [stale EXCEPT ![n] = @ \cup Stamped(n)]
      BY <1>3 DEF Halt
    <2>2. \A p \in Proc : pc'[p] # "off" => p \notin Threads(n) /\ pc'[p] = pc[p]
      BY <1>3 DEF Halt
    <2>3. \A p \in Proc : /\ p \notin Threads(n) => reg'[p] = reg[p] /\ rec'[p] = rec[p]
                          /\ rec'[p] \in {rec[p], NoRecord}
      BY <1>3 DEF Halt, Forget
    <2>4. Steady(n) => \A r \in Stamped(n) : r.seq <= clock[n]
      BY DEF Stamped, Threads, SeqInv
    <2>5. \A m \in Node : Steady(m) =>
            \A r \in stale'[m] : r.seq <= clock'[m] /\ (up'[m] => r.seq <= seq'[m])
      BY <2>1, <2>4 DEF SeqInv, TypeOK
    <2>6. \A p \in Proc : Steady(p[1]) => rec'[p].seq <= clock'[p[1]]
      <3>1. \A p \in Proc : clock[p[1]] \in Nat /\ NoRecord.seq = 0
        BY DEF TypeOK, NoRecord
      <3> QED  BY <2>1, <2>3, <3>1 DEF SeqInv
    <2>7. \A p \in Proc : pc'[p] \in {"inc", "put", "confirm"} =>
            /\ p[1] # n /\ pc[p] = pc'[p] /\ reg'[p] = reg[p] /\ rec'[p] = rec[p]
            /\ stale'[p[1]] = stale[p[1]]
      BY <2>1, <2>2, <2>3 DEF SeqInv, Threads, TypeOK
    <2>8. \A p \in Proc : pc'[p] \in {"idle", "inc", "put", "confirm"} => Daemon(p)
      BY <2>2 DEF SeqInv
    <2>9. \A p \in Proc : Daemon(p) /\ pc'[p] # "off" => up'[p[1]]
      BY <2>1, <2>2 DEF SeqInv, Threads, TypeOK
    <2> QED  BY <2>1, <2>5, <2>6, <2>7, <2>8, <2>9 DEF SeqInv, Daemon
  <1>4. ASSUME NEW n \in Node, ClockTicks(n) \/ ClockStepsBack(n) PROVE SeqInv'
    <2>1. UNCHANGED <<up, seq, stale, dht, pc, reg, rec>>
      BY <1>4 DEF ClockTicks, ClockStepsBack, tickVars
    <2>2. \A m \in Node : Steady(m) => clock[m] <= clock'[m]
      BY <1>4 DEF ClockTicks, ClockStepsBack, TypeOK
    <2>3. \A m \in Node : clock[m] \in Nat /\ clock'[m] \in Int
      BY <1>4 DEF ClockTicks, ClockStepsBack, TypeOK
    <2>4. \A r \in dht : r.genuine /\ Steady(r.name) => r.seq <= clock'[r.name]
      BY <2>2, <2>3 DEF SeqInv, TypeOK, Record
    <2>5. \A m \in Node : Steady(m) => \A r \in stale[m] : r.seq <= clock'[m]
      BY <2>2, <2>3 DEF SeqInv, TypeOK, Record
    <2>6. \A p \in Proc : Steady(p[1]) => rec[p].seq <= clock'[p[1]]
      BY <2>2, <2>3 DEF SeqInv, TypeOK, Record
    <2> QED  BY <2>1, <2>4, <2>5, <2>6 DEF SeqInv, Daemon
  <1>5. ASSUME NEW n \in Node, ForeignValue(n) PROVE SeqInv'
    BY <1>5 DEF SeqInv, ForeignValue, nodeVars, tickVars, Daemon
  <1>6. ASSUME NEW p \in Proc, TickBegins(p) PROVE SeqInv'
    <2>1. /\ pc[p] = "idle" /\ UNCHANGED <<clock, up, seq, stale, dht, rec>>
          /\ reg'[p].seq = seq[p[1]] /\ pc'[p] = "inc"
          /\ \A q \in Proc : q # p => reg'[q] = reg[q] /\ pc'[q] = pc[q]
      BY <1>6 DEF TickBegins, nodeVars, TypeOK
    <2>2. Daemon(p) /\ up[p[1]]
      BY <2>1 DEF SeqInv
    <2>3. Steady(p[1]) => \A r \in stale[p[1]] : r.seq <= reg'[p].seq
      BY <2>1, <2>2 DEF SeqInv
    <2> QED  BY <2>1, <2>2, <2>3 DEF SeqInv, Daemon
  <1>7. ASSUME NEW p \in Proc, NextSeq(p) PROVE SeqInv'
    <2>1. /\ pc[p] = "inc" /\ reg[p].seq < clock[p[1]] /\ Daemon(p) /\ up[p[1]]
          /\ seq' = [seq EXCEPT ![p[1]] = reg[p].seq + 1]
          /\ UNCHANGED <<clock, up, stale, dht>>
      BY <1>7 DEF NextSeq, SeqInv
    <2>2. \A q \in Proc : q # p => pc'[q] = pc[q] /\ reg'[q] = reg[q] /\ rec'[q] = rec[q]
      BY <1>7 DEF NextSeq, TypeOK
    <2>3. pc'[p] = "put" /\ rec'[p].name = p[1] /\ rec'[p].seq = reg[p].seq + 1
      BY <1>7 DEF NextSeq, TypeOK
    <2>4. reg[p].seq \in Nat /\ clock[p[1]] \in Nat
      BY DEF TypeOK
    <2>5. \A m \in Node : Steady(m) =>
            \A r \in stale[m] : r.seq <= clock[m] /\ (up[m] => r.seq <= seq'[m])
      <3>1. Steady(p[1]) => \A r \in stale[p[1]] : r.seq <= reg[p].seq + 1
        BY <2>1, <2>4 DEF SeqInv, TypeOK, Record
      <3> QED  BY <2>1, <3>1 DEF SeqInv, TypeOK
    <2>6. \A q \in Proc : Steady(q[1]) => rec'[q].seq <= clock[q[1]]
      BY <2>1, <2>2, <2>3, <2>4 DEF SeqInv
    <2> QED  BY <2>1, <2>2, <2>3, <2>5, <2>6 DEF SeqInv, Daemon
  <1>8. ASSUME NEW p \in Proc, PutOk(p) \/ PutFails(p) PROVE SeqInv'
    <2>1. pc[p] = "put" /\ rec[p].name = p[1]
      BY <1>8 DEF PutOk, PutFails, SeqInv
    <2>2. UNCHANGED <<clock, up, seq, stale, reg, rec>> /\ dht' \subseteq dht \cup {rec[p]}
      BY <1>8 DEF PutOk, PutFails, nodeVars, tickVars
    <2>3. /\ \A q \in Proc : q # p => pc'[q] = pc[q]
          /\ pc'[p] \in {"confirm", "put", "fetch"}
      BY <1>8 DEF PutOk, PutFails, RetryOrGiveUp, ToFetch, TypeOK
    <2>4. Daemon(p) /\ up[p[1]]
      BY <2>1 DEF SeqInv
    <2> QED  BY <2>1, <2>2, <2>3, <2>4 DEF SeqInv, Daemon
  <1>9. ASSUME UNCHANGED <<clock, up, seq, stale, dht, reg, rec>>, NEW p \in Proc,
               \A q \in Proc : q # p => pc'[q] = pc[q],
               \/ pc'[p] = pc[p]
               \/ /\ pc'[p] \in {"fetch", "pause", "view", "done"}
                  /\ pc[p] # "off" \/ ~Daemon(p)
               \/ pc[p] = "confirm" /\ pc'[p] = "put"
        PROVE  SeqInv'
    BY <1>9 DEF SeqInv, Daemon
  <1>10. ASSUME NEW p \in Proc,
                ContextDone(p) \/ RunReturns(p) \/ PeekStarts(p) \/ Confirmed(p)
                \/ NotConfirmed(p)
         PROVE  SeqInv'
    <2>1. UNCHANGED <<clock, up, seq, stale, dht, reg, rec>>
      BY <1>10 DEF ContextDone, RunReturns, PeekStarts, Confirmed, NotConfirmed, nodeVars,
           tickVars
    <2>2. \A q \in Proc : q # p => pc'[q] = pc[q]
      BY <1>10 DEF ContextDone, RunReturns, PeekStarts, Confirmed, NotConfirmed,
           RetryOrGiveUp, ToFetch, TypeOK
    <2>3. \/ pc'[p] = pc[p]
          \/ pc'[p] \in {"fetch", "done"} /\ (pc[p] # "off" \/ ~Daemon(p))
          \/ pc[p] = "confirm" /\ pc'[p] = "put"
      BY <1>10 DEF ContextDone, RunReturns, PeekStarts, Confirmed, NotConfirmed,
           RetryOrGiveUp, ToFetch, TypeOK, Daemon
    <2> QED  BY <1>9, <2>1, <2>2, <2>3
  <1>11. ASSUME NEW p \in Proc,
                FetchOk(p) \/ FetchFails(p) \/ FetchBreaks(p) \/ PauseOver(p) \/ PauseCut(p)
         PROVE  SeqInv'
    <2>1. UNCHANGED <<clock, up, seq, stale, dht, reg, rec>> /\ pc[p] \in {"fetch", "pause"}
      BY <1>11 DEF FetchOk, FetchFails, FetchBreaks, PauseOver, PauseCut, nodeVars, tickVars
    <2>2. \E x \in {"fetch", "pause", "view"} : pc' = [pc EXCEPT ![p] = x]
      BY <1>11 DEF FetchOk, FetchFails, FetchBreaks, PauseOver, PauseCut, AttemptEnds, Finish
    <2> QED  BY <1>9, <2>1, <2>2 DEF TypeOK
  <1>12. ASSUME NEW p \in Proc, PassReturns(p) PROVE SeqInv'
    <2>1. UNCHANGED <<clock, up, seq, stale, dht>> /\ pc[p] = "view"
      BY <1>12 DEF PassReturns, nodeVars
    <2>2. /\ \A q \in Proc : q # p => pc'[q] = pc[q] /\ reg'[q] = reg[q] /\ rec'[q] = rec[q]
          /\ rec'[p].seq = 0
      BY <1>12 DEF PassReturns, Forget, NoRecord, TypeOK
    <2>3. pc'[p] \in {"done", "off"} \/ (pc'[p] = "idle" /\ p[2] = "run")
      BY <1>12, RosterAssumption DEF PassReturns, TypeOK
    <2>4. \A q \in Proc : Steady(q[1]) => rec'[q].seq <= clock'[q[1]]
      <3>1. \A q \in Proc : clock[q[1]] \in Nat
        BY DEF TypeOK
      <3> QED  BY <2>1, <2>2, <3>1 DEF SeqInv
    <2> QED  BY <2>1, <2>2, <2>3, <2>4 DEF SeqInv, Daemon
  <1> QED
    BY <1>1, <1>2, <1>3, <1>4, <1>5, <1>6, <1>7, <1>8, <1>10, <1>11, <1>12
    DEF Next, NodeStep, TickStep, Exit, Crash

(***************************************************************************)
(* Every record a node stamps beats all that its earlier processes         *)
(* stamped, through any number of restarts and crashes and with both       *)
(* goroutines racing on the counter, if the node's clock does not go back  *)
(* (daemon.go:168-178, main.go:295-305).                                   *)
(***************************************************************************)
THEOREM RestartBeatsStale == Spec => NewBeatsStale
  <1>1. Init => SeqInv
    BY ProcNode DEF Init, SeqInv, NoRecord
  <1>2. TypeOK /\ SeqInv /\ [Next]_vars => SeqInv'
    BY SeqInvStep
  <1>3. TypeOK /\ SeqInv /\ [Next]_vars =>
          [\A p \in Proc : p[1] \notin StepsBack => Beats(p, stale[p[1]])]_vars
    <2> SUFFICES ASSUME TypeOK, SeqInv, [Next]_vars, NEW q \in Proc, q[1] \notin StepsBack,
                        Stamps(q), NEW r \in stale[q[1]]
                 PROVE  r.seq < rec'[q].seq
      BY DEF Beats
    <2>1. ASSUME NEW Q, Forget(Q) PROVE FALSE
      BY <2>1 DEF Forget, Stamps
    <2>2. ASSUME NEW p \in Proc, NextSeq(p) PROVE r.seq < rec'[q].seq
      <3>1. p = q
        BY <2>2 DEF NextSeq, TypeOK, Stamps
      <3>2. rec'[q].seq = reg[q].seq + 1 /\ pc[q] = "inc"
        BY <2>2, <3>1 DEF NextSeq, TypeOK
      <3>3. r.seq \in Nat /\ reg[q].seq \in Nat /\ r.seq <= reg[q].seq
        BY <3>2, ProcNode DEF TypeOK, Record, SeqInv, Steady
      <3> QED  BY <3>2, <3>3
    <2> QED
      BY <2>1, <2>2
      DEF Next, NodeStep, TickStep, Stamps, vars, tickVars, Start, StartFrom, Exit, Crash,
          Halt, ClockTicks, ClockStepsBack, ForeignValue, ContextDone, RunReturns, PeekStarts,
          TickBegins, PutOk, PutFails, Confirmed, NotConfirmed, FetchOk, FetchFails,
          FetchBreaks, PauseOver, PauseCut, PassReturns
  <1> QED  BY <1>1, <1>2, <1>3, RosterTypeOK, PTL DEF Spec, NewBeatsStale
=============================================================================
