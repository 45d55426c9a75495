-------------------------------- MODULE Room --------------------------------
(***************************************************************************)
(* A chat room without a server (Room of engine.go, with window.go and the *)
(* identity of envelopes): members put messages under one DHT key, poll    *)
(* it, hand new messages to their front end, and put the newest windowN    *)
(* back, since the store forgets a value that nobody refreshes.            *)
(*                                                                         *)
(* A message is its sender, its sequence number and its sender's wall      *)
(* clock.  Its text, the signature and the sealing are left out: a value   *)
(* that does not unseal is dropped on reading, and SealDeterministic gives *)
(* a refresh the bytes of the first put.                                   *)
(***************************************************************************)
EXTENDS Integers, FiniteSets

CONSTANTS
    Node,       \* members, one identity each
    Loop,       \* goroutines that call Reconcile
    RoomOf,     \* RoomOf[l]: the member whose Room loop l reconciles
    windowN, anyMember,   \* options of the Room
    TTL,        \* poll intervals after which the store drops a value
    MaxTS,      \* wall clocks
    MaxSends,   \* bound on messages
    MaxFaults   \* bound on reads that miss something, puts that fail, members that leave

ASSUME RoomAssumption ==
    /\ RoomOf \in [Loop -> Node]
    /\ windowN \in Nat \ {0} /\ anyMember \in BOOLEAN
    /\ TTL \in Nat \ {0}
    /\ {MaxTS, MaxSends, MaxFaults} \subseteq Nat

VARIABLES
    \* the store
    age,        \* age[m]: poll intervals since the last put of m
    posted,     \* every message that ever reached the store
    faults,
    \* the members
    up,         \* those whose Room is running
    seq,        \* Room.seq
    seen, window, contactSeen,   \* Room's maps and window
    got,        \* messages handed to OnMessage
    \* the loops
    pc, top, newMsg, toRefresh,  \* locals of Reconcile
    ticked      \* loops whose ticker has not fired in this interval

store   == <<age, posted>>
rooms   == <<up, seq, seen, window, contactSeen, got>>
locals  == <<pc, top, newMsg, toRefresh>>
vars    == <<store, faults, rooms, locals, ticked>>

Msg == [from: Node, seq: 1 .. MaxSends, ts: 1 .. MaxTS]
Stored == DOMAIN age

TypeOK ==
    /\ Stored \subseteq posted /\ posted \subseteq Msg
    /\ age \in [Stored -> 0 .. TTL - 1]
    /\ faults \in 0 .. MaxFaults
    /\ up \subseteq Node
    /\ seq \in [Node -> 0 .. MaxSends]
    /\ \A r \in {seen, window, got} : r \in [Node -> SUBSET posted]
    /\ contactSeen \in [Node -> SUBSET Node]
    /\ pc \in [Loop -> {"idle", "commit", "refresh"}]
    /\ \A r \in {top, newMsg, toRefresh} : r \in [Loop -> SUBSET posted]
    /\ \A l \in Loop : Cardinality(top[l]) <= windowN
    /\ \A n \in Node : window[n] \subseteq seen[n]
    /\ ticked \subseteq Loop

Init ==
    /\ age = [m \in {} |-> 0] /\ posted = {} /\ faults = 0
    /\ up = Node
    /\ seq = [n \in Node |-> 0]
    /\ seen = [n \in Node |-> {}] /\ window = [n \in Node |-> {}]
    /\ contactSeen = [n \in Node |-> {}] /\ got = [n \in Node |-> {}]
    /\ pc = [l \in Loop |-> "idle"] /\ top = [l \in Loop |-> {}]
    /\ newMsg = [l \in Loop |-> {}] /\ toRefresh = [l \in Loop |-> {}]
    /\ ticked = {}

-----------------------------------------------------------------------------
(* window.go and the store.                                                *)

\* sortWindow: by wall clock, then by sequence number.
Newer(a, b) == a.ts > b.ts \/ (a.ts = b.ts /\ a.seq > b.seq)

\* What a read returns: entries, of which a message may have several.
Entries(ms, copies) == {<<m, c>> : m \in ms, c \in copies}

dedupeByID(vals) == {<<e[1], 1>> : e \in vals}

KeepOldest(vals, n) ==
    {kept \in SUBSET vals :
        /\ Cardinality(kept) = IF Cardinality(vals) > n THEN n ELSE Cardinality(vals)
        /\ \A a \in kept, b \in vals \ kept : ~Newer(a[1], b[1])}

KeepAll(vals, n) == {vals}

\* keepTop: the n newest; among equals the map's order decides, so any.
keepTop(vals, n) ==
    {kept \in SUBSET vals :
        /\ Cardinality(kept) = IF Cardinality(vals) > n THEN n ELSE Cardinality(vals)
        /\ \A a \in kept, b \in vals \ kept : ~Newer(b[1], a[1])}

\* A put sets the value's age to 0, whether it is there or not.
Put(m) == age' = [x \in Stored \cup {m} |-> IF x = m THEN 0 ELSE age[x]]

Fault == faults < MaxFaults /\ faults' = faults + 1

-----------------------------------------------------------------------------
(* Room.                                                                   *)

\* Send: the lock makes the sequence number the sender's own; Publish may fail.
Send(n, ts) ==
    /\ n \in up /\ seq[n] < MaxSends
    /\ Cardinality(posted) < MaxSends
    /\ seq' = [seq EXCEPT ![n] = @ + 1]
    /\ LET m == [from |-> n, seq |-> seq[n] + 1, ts |-> ts]
       IN  \/ Put(m) /\ posted' = posted \cup {m} /\ UNCHANGED faults
           \/ Fault /\ UNCHANGED store
    /\ UNCHANGED <<up, seen, window, contactSeen, got, locals, ticked>>

NewByWatermark(n, ms) == {m \in ms : \A old \in seen[n] : Newer(m, old)}

\* What Reconcile takes for new: an ID it has not seen.
NewTo(n, ms) == ms \ seen[n]

\* Run's ticker and the first half of Reconcile: read, keep the newest, find the new ones.
Poll(l) ==
    /\ RoomOf[l] \in up /\ l \notin ticked /\ pc[l] = "idle"
    /\ ticked' = ticked \cup {l}
    /\ \E ms \in SUBSET Stored, copies \in {{1}, {1, 2}} :
        /\ \/ ms = Stored /\ UNCHANGED faults
           \/ ms # Stored /\ Fault
        /\ \E kept \in keepTop(dedupeByID(Entries(ms, copies)), windowN) :
            top' = [top EXCEPT ![l] = {e[1] : e \in kept}]
    /\ newMsg' = [newMsg EXCEPT ![l] = NewTo(RoomOf[l], top'[l])]
    /\ pc' = [pc EXCEPT ![l] = "commit"]
    /\ UNCHANGED <<store, rooms, toRefresh>>

\* The read fails, and Reconcile returns.
PollFails(l) ==
    /\ RoomOf[l] \in up /\ l \notin ticked /\ pc[l] = "idle"
    /\ ticked' = ticked \cup {l}
    /\ Fault
    /\ UNCHANGED <<store, rooms, locals>>

RefreshOwn(l) == {m \in top[l] : m.from = RoomOf[l]}

\* Which of the window Reconcile puts back.
Refreshed(l) == IF anyMember THEN top[l] ELSE {m \in top[l] : m.from = RoomOf[l]}

CommitForgets(l) ==
    /\ pc[l] = "commit"
    /\ LET n == RoomOf[l]
       IN  /\ seen' = [seen EXCEPT ![n] = top[l]]
           /\ window' = [window EXCEPT ![n] = top[l]]
           /\ contactSeen' = [contactSeen EXCEPT ![n] = @ \cup {m.from : m \in top[l]}]
           /\ got' = [got EXCEPT ![n] = @ \cup newMsg[l]]
    /\ toRefresh' = [toRefresh EXCEPT ![l] = Refreshed(l)]
    /\ pc' = [pc EXCEPT ![l] = "refresh"]
    /\ UNCHANGED <<store, faults, up, seq, top, newMsg, ticked>>

\* Record what was seen, then call OnContact and OnMessage.
Commit(l) ==
    /\ pc[l] = "commit"
    /\ LET n == RoomOf[l]
       IN  /\ seen' = [seen EXCEPT ![n] = @ \cup top[l]]
           /\ window' = [window EXCEPT ![n] = top[l]]
           /\ contactSeen' = [contactSeen EXCEPT ![n] = @ \cup {m.from : m \in top[l]}]
           /\ got' = [got EXCEPT ![n] = @ \cup newMsg[l]]
    /\ toRefresh' = [toRefresh EXCEPT ![l] = Refreshed(l)]
    /\ pc' = [pc EXCEPT ![l] = "refresh"]
    /\ UNCHANGED <<store, faults, up, seq, top, newMsg, ticked>>

\* Publish, best effort, one message after the other.
Refresh(l) ==
    /\ pc[l] = "refresh"
    /\ \E m \in toRefresh[l] :
        /\ \/ Put(m) /\ UNCHANGED faults
           \/ Fault /\ UNCHANGED age
        /\ toRefresh' = [toRefresh EXCEPT ![l] = @ \ {m}]
    /\ UNCHANGED <<posted, rooms, pc, top, newMsg, ticked>>

Return(l) ==
    /\ pc[l] = "refresh" /\ toRefresh[l] = {}
    /\ pc' = [pc EXCEPT ![l] = "idle"]
    /\ top' = [top EXCEPT ![l] = {}] /\ newMsg' = [newMsg EXCEPT ![l] = {}]
    /\ UNCHANGED <<store, faults, rooms, toRefresh, ticked>>

-----------------------------------------------------------------------------
(* Members come and go; the last one stays.  A Room starts empty, with a   *)
(* sequence number from the clock, above all it used before.               *)

Leave(n) ==
    /\ n \in up /\ up # {n} /\ Fault
    /\ up' = up \ {n}
    /\ seen' = [seen EXCEPT ![n] = {}] /\ window' = [window EXCEPT ![n] = {}]
    /\ contactSeen' = [contactSeen EXCEPT ![n] = {}] /\ got' = [got EXCEPT ![n] = {}]
    /\ LET own == {l \in Loop : RoomOf[l] = n}
           Drop(f) == [l \in Loop |-> IF l \in own THEN {} ELSE f[l]]
       IN  /\ pc' = [l \in Loop |-> IF l \in own THEN "idle" ELSE pc[l]]
           /\ top' = Drop(top) /\ newMsg' = Drop(newMsg) /\ toRefresh' = Drop(toRefresh)
           /\ ticked' = ticked \ own
    /\ UNCHANGED <<store, seq>>

Join(n) ==
    /\ n \notin up
    /\ up' = up \cup {n}
    /\ UNCHANGED <<store, faults, seq, seen, window, contactSeen, got, locals, ticked>>

(***************************************************************************)
(* A poll interval passes: every loop has had its tick and is through with *)
(* it.  Values that reach the store's TTL are gone.                        *)
(***************************************************************************)
Elapse ==
    /\ \A l \in Loop : RoomOf[l] \in up => l \in ticked /\ pc[l] = "idle"
    /\ ticked' = {}
    /\ age' = [m \in {x \in Stored : age[x] + 1 < TTL} |-> age[m] + 1]
    /\ UNCHANGED <<posted, faults, rooms, locals>>

Step(l) == Poll(l) \/ PollFails(l) \/ Commit(l) \/ Refresh(l) \/ Return(l)

Next ==
    \/ \E n \in Node, ts \in 1 .. MaxTS : Send(n, ts)
    \/ \E l \in Loop : Step(l)
    \/ \E n \in Node : Leave(n) \/ Join(n)
    \/ Elapse

Spec == Init /\ [][Next]_vars

\* Tickers fire, calls return or time out, time passes.
FairSpec == Spec /\ WF_vars(Elapse) /\ \A l \in Loop : WF_vars(Step(l))

-----------------------------------------------------------------------------
(* Properties.                                                             *)

\* Fewer than windowN other messages are not older than m.
InWindow(m) == Cardinality({x \in posted \ {m} : ~Newer(m, x)}) < windowN

(***************************************************************************)
(* Reconcile's refresh: a message among the newest windowN is not dropped  *)
(* by the store while anybody is in the room, its sender or not, although  *)
(* reads miss values, puts fail and members come and go                    *)
(* (engine.go:170-185, window.go:7-12).                                    *)
(***************************************************************************)
WindowSurvives == \A m \in posted : InWindow(m) => m \in Stored

(***************************************************************************)
(* Room.seen: a member hands a message to its front end once, also when    *)
(* the message leaves its window and comes back because a later read       *)
(* faults a newer one (engine.go:130-168).                                 *)
(***************************************************************************)
HandedOnce == [][\A l \in Loop : Commit(l) => newMsg[l] \cap got[RoomOf[l]] = {}]_vars

(***************************************************************************)
(* A message that stays among the newest reaches everybody who stays in    *)
(* the room, those who join later too: again and again a member has handed *)
(* over all that is in the window (engine.go:114-168).                     *)
(***************************************************************************)
Delivered ==
    \A n \in Node :
        []<>(n \in up => \A m \in posted : InWindow(m) => m \in got[n])
=============================================================================
