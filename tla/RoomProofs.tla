----------------------------- MODULE RoomProofs -----------------------------
(***************************************************************************)
(* Proofs about Room, for any members, loops, window, clocks and bounds.   *)
(***************************************************************************)
EXTENDS Room, FiniteSetTheorems, TLAPS

(***************************************************************************)
(* Hypotheses of the theorems below.  Run is what calls Reconcile, once    *)
(* for each Room; every Room runs; the Room is in the mode in which any    *)
(* member refreshes; and the store keeps a value two intervals longer than *)
(* polls, reads and puts go wrong.                                         *)
(***************************************************************************)
OneLoop == \A k, l \in Loop : RoomOf[k] = RoomOf[l] => k = l

Polled == \A n \in Node : \E l \in Loop : RoomOf[l] = n

Patient == MaxFaults + 2 <= TTL

(***************************************************************************)
(* What the properties rest on.                                            *)
(***************************************************************************)
FinitelyPosted == IsFiniteSet(posted)

GotIsSeen ==
    /\ \A n \in Node : got[n] \subseteq seen[n]
    /\ \A l \in Loop : newMsg[l] \subseteq top[l]

NewIsUnseen == \A l \in Loop : pc[l] = "commit" => newMsg[l] = top[l] \ seen[RoomOf[l]]

SomebodyUp == (Node # {} => up # {}) /\ \A l \in ticked : RoomOf[l] \in up

\* Loop l has read m and is still to put it.
WillPut(l, m) ==
    \/ pc[l] = "commit" /\ m \in top[l]
    \/ pc[l] = "refresh" /\ m \in toRefresh[l]

(***************************************************************************)
(* The age of a message in the window is paid for by faults: at most one   *)
(* more interval than there were faults, and no more than that once a loop *)
(* is through with its poll of this interval.                              *)
(***************************************************************************)
AgePaid ==
    \A m \in posted : InWindow(m) =>
        /\ m \in Stored
        /\ age[m] <= faults + 1
        /\ age[m] <= faults \/ \A l \in ticked : WillPut(l, m)

IInv == TypeOK /\ FinitelyPosted /\ GotIsSeen /\ SomebodyUp

-----------------------------------------------------------------------------
(* Lemmas about the window.                                                *)

\* What a read offers to keepTop is one entry for each message read.
LEMMA OneEntryEach ==
    ASSUME NEW ms, NEW copies \in {{1}, {1, 2}}
    PROVE  dedupeByID(Entries(ms, copies)) = {<<m, 1>> : m \in ms}
  <1>1. 1 \in copies
    OBVIOUS
  <1>. QED  BY <1>1 DEF dedupeByID, Entries

\* keepTop keeps some of the messages read, at most windowN; there are as many
\* messages as entries.
LEMMA KeptMessages ==
    ASSUME NEW ms, IsFiniteSet(ms), NEW kept \in SUBSET {<<m, 1>> : m \in ms}
    PROVE  /\ {e[1] : e \in kept} \subseteq ms
           /\ IsFiniteSet(kept) /\ IsFiniteSet({<<m, 1>> : m \in ms})
           /\ Cardinality({e[1] : e \in kept}) = Cardinality(kept)
  <1>. DEFINE vals == {<<m, 1>> : m \in ms}
              t    == {e[1] : e \in kept}
              f    == [m \in ms |-> <<m, 1>>]
              g    == [e \in kept |-> e[1]]
  <1>1. f \in Surjection(ms, vals)
    BY DEF Surjection
  <1>2. IsFiniteSet(vals)
    BY <1>1, FS_Surjection
  <1>3. IsFiniteSet(kept)
    BY <1>2, FS_Subset
  <1>4. g \in Surjection(kept, t)
    BY DEF Surjection
  <1>5. \A d, e \in kept : d[1] = e[1] => d = e
    OBVIOUS
  <1>6. g \in Injection(kept, t)
    BY <1>5 DEF Injection, IsInjective
  <1>7. Cardinality(t) = Cardinality(kept)
    BY <1>3, <1>4, <1>6, FS_Surjection
  <1>. QED  BY <1>2, <1>3, <1>7

LEMMA KeepsAtMost ==
    ASSUME NEW ms, IsFiniteSet(ms), NEW kept \in keepTop({<<m, 1>> : m \in ms}, windowN)
    PROVE  /\ {e[1] : e \in kept} \subseteq ms
           /\ Cardinality({e[1] : e \in kept}) <= windowN
  <1>. DEFINE vals == {<<m, 1>> : m \in ms}
  <1>1. /\ kept \in SUBSET vals
        /\ Cardinality(kept) = IF Cardinality(vals) > windowN THEN windowN ELSE Cardinality(vals)
    BY DEF keepTop
  <1>2. /\ {e[1] : e \in kept} \subseteq ms
        /\ IsFiniteSet(vals)
        /\ Cardinality({e[1] : e \in kept}) = Cardinality(kept)
    BY <1>1, KeptMessages
  <1>3. Cardinality(vals) \in Nat
    BY <1>2, FS_CardinalityType
  <1>. QED  BY <1>1, <1>2, <1>3, RoomAssumption

\* A message in the window is kept by every read that returns it.
LEMMA KeepsWindow ==
    ASSUME FinitelyPosted, NEW ms \in SUBSET posted,
           NEW kept \in keepTop({<<m, 1>> : m \in ms}, windowN),
           NEW m \in ms, InWindow(m)
    PROVE  m \in {e[1] : e \in kept}
  <1>. DEFINE vals == {<<x, 1>> : x \in ms}
              t    == {e[1] : e \in kept}
              rivals == {x \in posted \ {m} : ~Newer(m, x)}
  <1>. SUFFICES ASSUME m \notin t PROVE FALSE
    OBVIOUS
  <1>1. IsFiniteSet(ms)
    BY FS_Subset DEF FinitelyPosted
  <1>2. /\ kept \in SUBSET vals
        /\ Cardinality(kept) = IF Cardinality(vals) > windowN THEN windowN ELSE Cardinality(vals)
        /\ \A a \in kept, b \in vals \ kept : ~Newer(b[1], a[1])
    BY DEF keepTop
  <1>3. /\ t \subseteq ms
        /\ IsFiniteSet(kept) /\ IsFiniteSet(vals)
        /\ Cardinality(t) = Cardinality(kept)
    BY <1>1, <1>2, KeptMessages
  <1>4. <<m, 1>> \in vals \ kept
    <2>1. <<m, 1>>[1] = m
      OBVIOUS
    <2>. QED  BY <2>1
  <1>5. Cardinality(kept) = windowN
    <2>1. Cardinality(vals) # Cardinality(kept)
      BY <1>2, <1>3, <1>4, FS_Subset
    <2>. QED  BY <1>2, <2>1
  <1>6. t \subseteq rivals
    <2>. SUFFICES ASSUME NEW a \in kept PROVE a[1] \in rivals
      OBVIOUS
    <2>1. ~Newer(<<m, 1>>[1], a[1])
      BY <1>2, <1>4
    <2>2. ~Newer(m, a[1])
      BY <2>1
    <2>. QED  BY <1>3, <2>2
  <1>7. IsFiniteSet(rivals)
    BY FS_Subset DEF FinitelyPosted
  <1>8. Cardinality(t) <= Cardinality(rivals)
    BY <1>6, <1>7, FS_Subset
  <1>9. Cardinality(rivals) < windowN
    BY DEF InWindow
  <1>10. Cardinality(rivals) \in Nat
    BY <1>7, FS_CardinalityType
  <1>. QED  BY <1>3, <1>5, <1>8, <1>9, <1>10, RoomAssumption

\* A message that is in the window was there before others were posted.
LEMMA WindowShrinks ==
    ASSUME FinitelyPosted, NEW more, IsFiniteSet(more), posted \subseteq more, NEW m,
           Cardinality({x \in more \ {m} : ~Newer(m, x)}) < windowN
    PROVE  InWindow(m)
  <1>. DEFINE now  == {x \in posted \ {m} : ~Newer(m, x)}
              then == {x \in more \ {m} : ~Newer(m, x)}
  <1>1. IsFiniteSet(then)
    BY FS_Subset
  <1>2. now \subseteq then
    OBVIOUS
  <1>3. /\ Cardinality(now) <= Cardinality(then)
        /\ IsFiniteSet(now)
    BY <1>1, <1>2, FS_Subset
  <1>4. Cardinality(now) \in Nat /\ Cardinality(then) \in Nat
    BY <1>1, <1>3, FS_CardinalityType
  <1>. QED  BY <1>3, <1>4, RoomAssumption DEF InWindow

-----------------------------------------------------------------------------
(* Type correctness.                                                       *)

\* The quantified conjuncts of TypeOK, one variable at a time.
MapsTyped ==
    /\ seen \in [Node -> SUBSET posted] /\ window \in [Node -> SUBSET posted]
    /\ got \in [Node -> SUBSET posted]

LocalsTyped ==
    /\ top \in [Loop -> SUBSET posted] /\ newMsg \in [Loop -> SUBSET posted]
    /\ toRefresh \in [Loop -> SUBSET posted]

StoreTyped ==
    /\ Stored \subseteq posted /\ posted \subseteq Msg
    /\ age \in [Stored -> 0 .. TTL - 1]
    /\ faults \in 0 .. MaxFaults

RoomsTyped ==
    /\ up \subseteq Node
    /\ seq \in [Node -> 0 .. MaxSends]
    /\ contactSeen \in [Node -> SUBSET Node]
    /\ pc \in [Loop -> {"idle", "commit", "refresh"}]
    /\ ticked \subseteq Loop

WindowsTyped ==
    /\ \A l \in Loop : Cardinality(top[l]) <= windowN
    /\ \A n \in Node : window[n] \subseteq seen[n]

LEMMA TypeParts ==
    TypeOK <=> MapsTyped /\ LocalsTyped /\ StoreTyped /\ RoomsTyped /\ WindowsTyped
  BY DEF TypeOK, MapsTyped, LocalsTyped, StoreTyped, RoomsTyped, WindowsTyped

LEMMA InitIInv == Init => IInv
  <1>. SUFFICES ASSUME Init PROVE IInv
    OBVIOUS
  <1>1. MapsTyped /\ LocalsTyped /\ RoomsTyped
    BY RoomAssumption DEF Init, MapsTyped, LocalsTyped, RoomsTyped
  <1>2. StoreTyped
    BY RoomAssumption DEF Init, StoreTyped, Stored
  <1>3. WindowsTyped
    BY RoomAssumption, FS_EmptySet DEF Init, WindowsTyped
  <1>4. FinitelyPosted
    BY FS_EmptySet DEF Init, FinitelyPosted
  <1>. QED
    BY <1>1, <1>2, <1>3, <1>4, TypeParts DEF Init, IInv, GotIsSeen, SomebodyUp

USE DEF store, rooms, locals

\* A put leaves the store well typed, and the others as old as they were.
LEMMA PutTyped ==
    ASSUME StoreTyped, NEW m, Put(m)
    PROVE  /\ DOMAIN age' = Stored \cup {m}
           /\ age' \in [DOMAIN age' -> 0 .. TTL - 1]
           /\ age'[m] = 0
           /\ \A x \in Stored : x # m => age'[x] = age[x]
  BY RoomAssumption DEF StoreTyped, Put, Stored

\* A poll takes some of what is posted, and all of it unless it counts as a fault.
LEMMA PollReads ==
    ASSUME IInv, NEW l \in Loop, Poll(l)
    PROVE  \E t \in SUBSET posted :
             /\ top' = [top EXCEPT ![l] = t]
             /\ Cardinality(t) <= windowN
             /\ newMsg' = [newMsg EXCEPT ![l] = NewTo(RoomOf[l], t)]
             /\ \/ Fault
                \/ /\ faults' = faults
                   /\ \A m \in Stored : InWindow(m) => m \in t
  <1>0. PICK ms \in SUBSET Stored, copies \in {{1}, {1, 2}} :
           /\ (ms = Stored /\ UNCHANGED faults) \/ (ms # Stored /\ Fault)
           /\ \E kept \in keepTop(dedupeByID(Entries(ms, copies)), windowN) :
                top' = [top EXCEPT ![l] = {e[1] : e \in kept}]
    BY DEF Poll
  <1>1. PICK kept \in keepTop(dedupeByID(Entries(ms, copies)), windowN) :
           top' = [top EXCEPT ![l] = {e[1] : e \in kept}]
    BY <1>0
  <1>. DEFINE t == {e[1] : e \in kept}
  <1>2. kept \in keepTop({<<m, 1>> : m \in ms}, windowN)
    BY OneEntryEach
  <1>3. ms \in SUBSET posted /\ IsFiniteSet(ms)
    BY FS_Subset, TypeParts DEF IInv, StoreTyped, FinitelyPosted
  <1>4. t \subseteq ms /\ Cardinality(t) <= windowN
    BY <1>2, <1>3, KeepsAtMost
  <1>5. \A m \in ms : InWindow(m) => m \in t
    BY <1>2, <1>3, KeepsWindow DEF IInv
  <1>6. newMsg' = [newMsg EXCEPT ![l] = NewTo(RoomOf[l], t)]
    <2>1. top \in [Loop -> SUBSET posted]
      BY TypeParts DEF IInv, LocalsTyped
    <2>2. top'[l] = t
      BY <1>1, <2>1
    <2>. QED  BY <2>2 DEF Poll
  <1>. QED  BY <1>0, <1>1, <1>3, <1>4, <1>5, <1>6

\* The parts of the invariant, after a step.
AllTyped == /\ MapsTyped /\ LocalsTyped /\ StoreTyped /\ RoomsTyped /\ WindowsTyped
            /\ FinitelyPosted /\ GotIsSeen /\ SomebodyUp

LEMMA IInvParts == (IInv <=> AllTyped) /\ (IInv' <=> AllTyped')
  BY DEF IInv, AllTyped, TypeOK, MapsTyped, LocalsTyped, StoreTyped, RoomsTyped, WindowsTyped,
         Stored

LEMMA FaultTyped == ASSUME StoreTyped, Fault PROVE faults' \in 0 .. MaxFaults /\ faults' = faults + 1
  BY RoomAssumption DEF StoreTyped, Fault

LEMMA TypeStep == IInv /\ [Next]_vars => IInv'
  <1>. SUFFICES ASSUME AllTyped, IInv, [Next]_vars PROVE AllTyped'
    BY IInvParts
  <1>0. StoreTyped
    BY DEF AllTyped
  <1>. USE DEF AllTyped
  <1>1. ASSUME NEW n \in Node, NEW ts \in 1 .. MaxTS, Send(n, ts) PROVE AllTyped'
    <2>. DEFINE m == [from |-> n, seq |-> seq[n] + 1, ts |-> ts]
    <2>1. /\ UNCHANGED <<up, seen, window, contactSeen, got, locals, ticked>>
          /\ n \in up /\ seq[n] < MaxSends /\ seq' = [seq EXCEPT ![n] = @ + 1]
          /\ \/ Put(m) /\ posted' = posted \cup {m} /\ UNCHANGED faults
             \/ Fault /\ UNCHANGED store
      BY <1>1 DEF Send
    <2>2. m \in Msg /\ RoomsTyped'
      BY <2>1, RoomAssumption DEF RoomsTyped, Msg
    <2>3. CASE Put(m) /\ posted' = posted \cup {m} /\ UNCHANGED faults
      <3>1. StoreTyped'
        BY <1>0, <2>2, <2>3, PutTyped DEF StoreTyped, Stored
      <3>2. FinitelyPosted'
        BY <2>3, FS_AddElement DEF FinitelyPosted
      <3>3. MapsTyped' /\ LocalsTyped'
        BY <2>1, <2>3 DEF MapsTyped, LocalsTyped
      <3>. QED  BY <2>1, <2>2, <3>1, <3>2, <3>3 DEF WindowsTyped, GotIsSeen, SomebodyUp
    <2>4. CASE Fault /\ UNCHANGED store
      <3>1. StoreTyped'
        BY <1>0, <2>4, FaultTyped DEF StoreTyped, Stored
      <3>. QED
        BY <2>1, <2>2, <2>4, <3>1 DEF MapsTyped, LocalsTyped, WindowsTyped, GotIsSeen, SomebodyUp,
                                     FinitelyPosted
    <2>. QED  BY <2>1, <2>3, <2>4
  <1>2. ASSUME NEW l \in Loop, Poll(l) PROVE AllTyped'
    <2>1. PICK t \in SUBSET posted :
             /\ top' = [top EXCEPT ![l] = t]
             /\ Cardinality(t) <= windowN
             /\ newMsg' = [newMsg EXCEPT ![l] = NewTo(RoomOf[l], t)]
             /\ Fault \/ faults' = faults
      BY <1>2, PollReads
    <2>2. /\ RoomOf[l] \in up /\ ticked' = ticked \cup {l} /\ pc' = [pc EXCEPT ![l] = "commit"]
          /\ UNCHANGED <<store, rooms, toRefresh>>
      BY <1>2 DEF Poll
    <2>3. StoreTyped'
      BY <1>0, <2>1, <2>2, FaultTyped DEF StoreTyped, Stored
    <2>4. LocalsTyped'
      BY <2>1, <2>2 DEF LocalsTyped, NewTo
    <2>5. RoomsTyped' /\ SomebodyUp'
      BY <2>2 DEF RoomsTyped, SomebodyUp
    <2>6. WindowsTyped'
      BY <2>1, <2>2 DEF WindowsTyped, LocalsTyped
    <2>7. GotIsSeen'
      BY <2>1, <2>2 DEF GotIsSeen, NewTo, LocalsTyped
    <2>. QED  BY <2>2, <2>3, <2>4, <2>5, <2>6, <2>7 DEF MapsTyped, FinitelyPosted
  <1>3. ASSUME NEW l \in Loop, PollFails(l) PROVE AllTyped'
    <2>1. StoreTyped'
      BY <1>0, <1>3, FaultTyped DEF PollFails, StoreTyped, Stored
    <2>. QED  BY <1>3, <2>1 DEF PollFails, MapsTyped, LocalsTyped, RoomsTyped, WindowsTyped,
                                FinitelyPosted, GotIsSeen, SomebodyUp
  <1>4. ASSUME NEW l \in Loop, Commit(l) PROVE AllTyped'
    <2>. DEFINE n == RoomOf[l]
    <2>1. n \in Node /\ top[l] \subseteq posted /\ newMsg[l] \subseteq posted
      BY RoomAssumption DEF LocalsTyped
    <2>2. /\ seen' = [seen EXCEPT ![n] = @ \cup top[l]]
          /\ window' = [window EXCEPT ![n] = top[l]]
          /\ contactSeen' = [contactSeen EXCEPT ![n] = @ \cup {m.from : m \in top[l]}]
          /\ got' = [got EXCEPT ![n] = @ \cup newMsg[l]]
          /\ toRefresh' = [toRefresh EXCEPT ![l] = Refreshed(l)]
          /\ pc' = [pc EXCEPT ![l] = "refresh"]
          /\ UNCHANGED <<store, faults, up, seq, top, newMsg, ticked>>
      BY <1>4 DEF Commit
    <2>3. MapsTyped'
      BY <2>1, <2>2 DEF MapsTyped
    <2>4. {m.from : m \in top[l]} \subseteq Node
      BY <2>1 DEF StoreTyped, Msg
    <2>5. RoomsTyped'
      BY <2>1, <2>2, <2>4 DEF RoomsTyped
    <2>6. Refreshed(l) \subseteq posted
      BY <2>1 DEF Refreshed
    <2>7. LocalsTyped'
      BY <2>2, <2>6 DEF LocalsTyped
    <2>8. WindowsTyped'
      BY <2>1, <2>2 DEF WindowsTyped, MapsTyped
    <2>9. GotIsSeen'
      BY <2>1, <2>2 DEF GotIsSeen, MapsTyped
    <2>. QED
      BY <2>2, <2>3, <2>5, <2>7, <2>8, <2>9 DEF StoreTyped, Stored, FinitelyPosted, SomebodyUp
  <1>5. ASSUME NEW l \in Loop, Refresh(l) PROVE AllTyped'
    <2>1. PICK m \in toRefresh[l] :
             /\ (Put(m) /\ UNCHANGED faults) \/ (Fault /\ UNCHANGED age)
             /\ toRefresh' = [toRefresh EXCEPT ![l] = @ \ {m}]
      BY <1>5 DEF Refresh
    <2>2. UNCHANGED <<posted, rooms, pc, top, newMsg, ticked>>
      BY <1>5 DEF Refresh
    <2>3. m \in posted
      BY DEF LocalsTyped
    <2>4. StoreTyped'
      <3>1. CASE Put(m) /\ UNCHANGED faults
        <4>1. DOMAIN age' = Stored \cup {m} /\ age' \in [DOMAIN age' -> 0 .. TTL - 1]
          BY <1>0, <3>1, PutTyped
        <4>. QED  BY <1>0, <2>2, <2>3, <3>1, <4>1 DEF StoreTyped, Stored
      <3>2. CASE Fault /\ UNCHANGED age
        BY <1>0, <2>2, <3>2, FaultTyped DEF StoreTyped, Stored
      <3>. QED  BY <2>1, <3>1, <3>2
    <2>5. LocalsTyped'
      BY <2>1, <2>2 DEF LocalsTyped
    <2>. QED  BY <2>2, <2>4, <2>5 DEF MapsTyped, RoomsTyped, WindowsTyped, FinitelyPosted,
                                     GotIsSeen, SomebodyUp
  <1>6. ASSUME NEW l \in Loop, Return(l) PROVE AllTyped'
    <2>1. /\ pc' = [pc EXCEPT ![l] = "idle"]
          /\ top' = [top EXCEPT ![l] = {}] /\ newMsg' = [newMsg EXCEPT ![l] = {}]
          /\ UNCHANGED <<store, faults, rooms, toRefresh, ticked>>
      BY <1>6 DEF Return
    <2>2. WindowsTyped'
      BY <2>1, FS_EmptySet, RoomAssumption DEF WindowsTyped, LocalsTyped
    <2>3. LocalsTyped'
      BY <2>1 DEF LocalsTyped
    <2>4. GotIsSeen'
      BY <2>1 DEF GotIsSeen, LocalsTyped
    <2>. QED  BY <2>1, <2>2, <2>3, <2>4 DEF MapsTyped, RoomsTyped, StoreTyped, Stored,
                                           FinitelyPosted, SomebodyUp
  <1>7. ASSUME NEW n \in Node, Leave(n) PROVE AllTyped'
    <2>. DEFINE own == {l \in Loop : RoomOf[l] = n}
    <2>1. /\ n \in up /\ up # {n} /\ Fault /\ up' = up \ {n}
          /\ seen' = [seen EXCEPT ![n] = {}] /\ window' = [window EXCEPT ![n] = {}]
          /\ contactSeen' = [contactSeen EXCEPT ![n] = {}] /\ got' = [got EXCEPT ![n] = {}]
          /\ UNCHANGED <<store, seq>>
      BY <1>7 DEF Leave
    <2>2. /\ pc' = [l \in Loop |-> IF l \in own THEN "idle" ELSE pc[l]]
          /\ top' = [l \in Loop |-> IF l \in own THEN {} ELSE top[l]]
          /\ newMsg' = [l \in Loop |-> IF l \in own THEN {} ELSE newMsg[l]]
          /\ toRefresh' = [l \in Loop |-> IF l \in own THEN {} ELSE toRefresh[l]]
          /\ ticked' = ticked \ own
      BY <1>7 DEF Leave
    <2>3. StoreTyped'
      BY <1>0, <2>1, FaultTyped DEF StoreTyped, Stored
    <2>4. MapsTyped'
      BY <2>1 DEF MapsTyped
    <2>5. LocalsTyped'
      BY <2>1, <2>2 DEF LocalsTyped
    <2>6. RoomsTyped'
      BY <2>1, <2>2 DEF RoomsTyped
    <2>7. WindowsTyped'
      BY <2>1, <2>2, FS_EmptySet, RoomAssumption DEF WindowsTyped, MapsTyped
    <2>8. GotIsSeen'
      BY <2>1, <2>2 DEF GotIsSeen, MapsTyped
    <2>9. SomebodyUp'
      BY <2>1, <2>2 DEF SomebodyUp, RoomsTyped
    <2>. QED  BY <2>1, <2>3, <2>4, <2>5, <2>6, <2>7, <2>8, <2>9 DEF FinitelyPosted
  <1>8. ASSUME NEW n \in Node, Join(n) PROVE AllTyped'
    BY <1>8 DEF Join, MapsTyped, LocalsTyped, RoomsTyped, WindowsTyped, StoreTyped, Stored,
                FinitelyPosted, GotIsSeen, SomebodyUp
  <1>9. CASE Elapse
    <2>1. /\ ticked' = {} /\ UNCHANGED <<posted, faults, rooms, locals>>
          /\ age' = [m \in {x \in Stored : age[x] + 1 < TTL} |-> age[m] + 1]
      BY <1>9 DEF Elapse
    <2>2. StoreTyped'
      BY <2>1, RoomAssumption DEF StoreTyped, Stored
    <2>. QED  BY <2>1, <2>2 DEF MapsTyped, LocalsTyped, RoomsTyped, WindowsTyped,
                               FinitelyPosted, GotIsSeen, SomebodyUp
  <1>10. CASE UNCHANGED vars
    BY <1>10 DEF vars, MapsTyped, LocalsTyped, RoomsTyped, WindowsTyped, StoreTyped, Stored,
                 FinitelyPosted, GotIsSeen, SomebodyUp
  <1>. QED
    BY <1>1, <1>2, <1>3, <1>4, <1>5, <1>6, <1>7, <1>8, <1>9, <1>10 DEF Next, Step

LEMMA TypeInvariant == Spec => []IInv
  BY InitIInv, TypeStep, PTL DEF Spec

(***************************************************************************)
(* Store, Rooms and the locals of Reconcile keep their types, and no       *)
(* window holds more than windowN messages (engine.go:51-186).             *)
(***************************************************************************)
THEOREM RoomTypeOK == Spec => []TypeOK
  BY TypeInvariant, PTL DEF IInv

-----------------------------------------------------------------------------
(* Handing over.                                                           *)

LEMMA UnseenStep ==
    ASSUME OneLoop
    PROVE  IInv /\ NewIsUnseen /\ [Next]_vars => NewIsUnseen'
  <1>. SUFFICES ASSUME IInv, NewIsUnseen, [Next]_vars PROVE NewIsUnseen'
    OBVIOUS
  <1>0. MapsTyped /\ LocalsTyped /\ RoomsTyped
    BY IInvParts DEF AllTyped
  <1>. USE <1>0 DEF NewIsUnseen, MapsTyped, LocalsTyped, RoomsTyped
  <1>1. ASSUME NEW l \in Loop, Poll(l) PROVE NewIsUnseen'
    <2>1. PICK t \in SUBSET posted :
             /\ top' = [top EXCEPT ![l] = t]
             /\ newMsg' = [newMsg EXCEPT ![l] = NewTo(RoomOf[l], t)]
      BY <1>1, PollReads
    <2>2. pc' = [pc EXCEPT ![l] = "commit"] /\ seen' = seen
      BY <1>1 DEF Poll
    <2>. QED  BY <2>1, <2>2 DEF NewTo
  <1>2. ASSUME NEW l \in Loop, Commit(l) PROVE NewIsUnseen'
    <2>1. /\ seen' = [seen EXCEPT ![RoomOf[l]] = @ \cup top[l]]
          /\ pc' = [pc EXCEPT ![l] = "refresh"]
          /\ UNCHANGED <<top, newMsg>>
      BY <1>2 DEF Commit
    <2>2. \A k \in Loop : k # l => seen'[RoomOf[k]] = seen[RoomOf[k]]
      BY <2>1, RoomAssumption DEF OneLoop
    <2>. QED  BY <2>1, <2>2
  <1>3. ASSUME NEW l \in Loop, Return(l) PROVE NewIsUnseen'
    BY <1>3 DEF Return
  <1>4. ASSUME NEW n \in Node, Leave(n) PROVE NewIsUnseen'
    <2>. DEFINE own == {l \in Loop : RoomOf[l] = n}
    <2>1. /\ seen' = [seen EXCEPT ![n] = {}]
          /\ pc' = [l \in Loop |-> IF l \in own THEN "idle" ELSE pc[l]]
          /\ top' = [l \in Loop |-> IF l \in own THEN {} ELSE top[l]]
          /\ newMsg' = [l \in Loop |-> IF l \in own THEN {} ELSE newMsg[l]]
      BY <1>4 DEF Leave
    <2>. QED  BY <2>1, RoomAssumption
  <1>5. CASE UNCHANGED <<pc, top, newMsg, seen>>
    BY <1>5
  <1>6. ASSUME NEW l \in Loop, PollFails(l) \/ Refresh(l)
        PROVE  UNCHANGED <<pc, top, newMsg, seen>>
    BY <1>6 DEF PollFails, Refresh
  <1>7. ASSUME NEW n \in Node, NEW ts \in 1 .. MaxTS, Send(n, ts)
        PROVE  UNCHANGED <<pc, top, newMsg, seen>>
    BY <1>7 DEF Send
  <1>8. ASSUME NEW n \in Node, Join(n) PROVE UNCHANGED <<pc, top, newMsg, seen>>
    BY <1>8 DEF Join
  <1>9. CASE Elapse
    BY <1>5, <1>9 DEF Elapse
  <1>10. CASE UNCHANGED vars
    BY <1>5, <1>10 DEF vars
  <1>. QED  BY <1>1, <1>2, <1>3, <1>4, <1>5, <1>6, <1>7, <1>8, <1>9, <1>10 DEF Next, Step

(***************************************************************************)
(* With one loop to a Room, which is what Run is, no member hands a        *)
(* message to its front end twice (engine.go:130-168).                     *)
(***************************************************************************)
THEOREM NothingHandedTwice ==
    ASSUME OneLoop
    PROVE  Spec => HandedOnce
  <1>1. Init => NewIsUnseen
    BY DEF Init, NewIsUnseen
  <1>2. Spec => []NewIsUnseen
    BY <1>1, TypeInvariant, UnseenStep, PTL DEF Spec
  <1>3. IInv /\ NewIsUnseen /\ [Next]_vars
          => [\A l \in Loop : Commit(l) => newMsg[l] \cap got[RoomOf[l]] = {}]_vars
    BY RoomAssumption DEF IInv, NewIsUnseen, GotIsSeen, Commit
  <1>. QED  BY <1>2, <1>3, TypeInvariant, PTL DEF Spec, HandedOnce

-----------------------------------------------------------------------------
(* The window survives.                                                    *)

\* AgePaid, for one message.
Paid(m) ==
    /\ m \in Stored
    /\ age[m] <= faults + 1
    /\ age[m] <= faults \/ \A l \in ticked : WillPut(l, m)

\* A fault pays for an interval.
LEMMA FaultPays ==
    ASSUME StoreTyped, NEW m \in posted, Paid(m), Fault, UNCHANGED age
    PROVE  Paid(m)'
  <1>1. faults' = faults + 1 /\ faults \in Nat /\ age[m] \in Nat
    BY FaultTyped, RoomAssumption DEF StoreTyped, Stored, Paid
  <1>. QED  BY <1>1 DEF Paid, Stored

\* So does a put.
LEMMA PutPays ==
    ASSUME StoreTyped, NEW m \in posted, Put(m), UNCHANGED faults
    PROVE  Paid(m)'
  <1>1. /\ DOMAIN age' = Stored \cup {m} /\ age'[m] = 0
        /\ faults' \in Nat
    <2>1. DOMAIN age' = Stored \cup {m} /\ age'[m] = 0
      BY PutTyped
    <2>. QED  BY <2>1, RoomAssumption DEF StoreTyped
  <1>. QED  BY <1>1 DEF Paid, Stored

LEMMA AgeStep ==
    ASSUME anyMember, Polled, Patient
    PROVE  IInv /\ AgePaid /\ [Next]_vars => AgePaid'
  <1>. SUFFICES ASSUME IInv, AgePaid, [Next]_vars, NEW m \in posted', InWindow(m)'
                PROVE  Paid(m)'
    BY DEF AgePaid, Paid
  <1>1. /\ AllTyped'
        /\ StoreTyped /\ LocalsTyped /\ RoomsTyped /\ SomebodyUp /\ FinitelyPosted
    BY IInvParts, TypeStep DEF AllTyped
  <1>2. InWindow(m)
    <2>1. posted \subseteq posted'
      BY DEF Next, Step, Send, Poll, PollFails, Commit, Refresh, Return, Leave, Join, Elapse, vars
    <2>2. IsFiniteSet(posted')
      BY <1>1 DEF AllTyped, FinitelyPosted
    <2>3. Cardinality({x \in posted' \ {m} : ~Newer(m, x)}) < windowN
      BY DEF InWindow
    <2>. QED  BY <1>1, <2>1, <2>2, <2>3, WindowShrinks
  <1>3. m \in posted => Paid(m)
    BY <1>2 DEF AgePaid, Paid
  <1>4. faults \in Nat /\ (m \in Stored => age[m] \in Nat)
    BY <1>1, RoomAssumption DEF StoreTyped
  <1>5. ASSUME NEW n \in Node, NEW ts \in 1 .. MaxTS, Send(n, ts) PROVE Paid(m)'
    <2>. DEFINE new == [from |-> n, seq |-> seq[n] + 1, ts |-> ts]
    <2>1. /\ UNCHANGED <<locals, ticked>>
          /\ \/ Put(new) /\ posted' = posted \cup {new} /\ UNCHANGED faults
             \/ Fault /\ UNCHANGED store
      BY <1>5 DEF Send
    <2>2. CASE Fault /\ UNCHANGED store
      BY <1>1, <1>3, <2>2, FaultPays
    <2>3. CASE Put(new) /\ posted' = posted \cup {new} /\ UNCHANGED faults
      <3>1. /\ DOMAIN age' = Stored \cup {new} /\ age'[new] = 0
            /\ \A x \in Stored : x # new => age'[x] = age[x]
        BY <1>1, <2>3, PutTyped
      <3>2. CASE m = new
        BY <1>4, <2>3, <3>1, <3>2 DEF Paid, Stored
      <3>3. CASE m # new
        <4>1. Paid(m)
          BY <1>3, <2>3, <3>3
        <4>. QED  BY <2>1, <2>3, <3>1, <3>3, <4>1 DEF Paid, Stored, WillPut
      <3>. QED  BY <3>2, <3>3
    <2>. QED  BY <2>1, <2>2, <2>3
  <1>6. ASSUME NEW l \in Loop, Poll(l) PROVE Paid(m)'
    <2>1. PICK t \in SUBSET posted :
             /\ top' = [top EXCEPT ![l] = t]
             /\ Fault \/ (faults' = faults /\ \A x \in Stored : InWindow(x) => x \in t)
      BY <1>6, PollReads
    <2>2. /\ ticked' = ticked \cup {l} /\ pc[l] = "idle" /\ pc' = [pc EXCEPT ![l] = "commit"]
          /\ UNCHANGED <<store, rooms, toRefresh>>
      BY <1>6 DEF Poll
    <2>3. Paid(m)
      BY <1>3, <2>2
    <2>4. CASE Fault
      BY <1>1, <2>2, <2>3, <2>4, FaultPays
    <2>5. CASE faults' = faults /\ \A x \in Stored : InWindow(x) => x \in t
      <3>1. m \in t
        BY <1>2, <2>3, <2>5 DEF Paid
      <3>2. \A k \in ticked : WillPut(k, m) => WillPut(k, m)'
        BY <1>1, <2>1, <2>2, <3>1 DEF WillPut, LocalsTyped, RoomsTyped
      <3>3. WillPut(l, m)'
        BY <1>1, <2>1, <2>2, <3>1 DEF WillPut, LocalsTyped, RoomsTyped
      <3>. QED  BY <2>2, <2>3, <2>5, <3>2, <3>3 DEF Paid, Stored
    <2>. QED  BY <2>1, <2>4, <2>5
  <1>7. ASSUME NEW l \in Loop, PollFails(l) PROVE Paid(m)'
    <2>1. Fault /\ UNCHANGED store
      BY <1>7 DEF PollFails
    <2>. QED  BY <1>1, <1>3, <2>1, FaultPays
  <1>8. ASSUME NEW l \in Loop, Commit(l) PROVE Paid(m)'
    <2>1. /\ pc[l] = "commit" /\ pc' = [pc EXCEPT ![l] = "refresh"]
          /\ toRefresh' = [toRefresh EXCEPT ![l] = top[l]]
          /\ UNCHANGED <<store, faults, top, ticked>>
      BY <1>8 DEF Commit, Refreshed
    <2>2. Paid(m)
      BY <1>3, <2>1
    <2>3. \A k \in ticked : WillPut(k, m) => WillPut(k, m)'
      BY <1>1, <2>1 DEF WillPut, LocalsTyped, RoomsTyped
    <2>. QED  BY <2>1, <2>2, <2>3 DEF Paid, Stored
  <1>9. ASSUME NEW l \in Loop, Refresh(l) PROVE Paid(m)'
    <2>1. PICK x \in toRefresh[l] :
             /\ (Put(x) /\ UNCHANGED faults) \/ (Fault /\ UNCHANGED age)
             /\ toRefresh' = [toRefresh EXCEPT ![l] = @ \ {x}]
      BY <1>9 DEF Refresh
    <2>2. UNCHANGED <<posted, pc, top, ticked>>
      BY <1>9 DEF Refresh
    <2>3. Paid(m) /\ m \in posted
      BY <1>3, <2>2
    <2>4. CASE Fault /\ UNCHANGED age
      BY <1>1, <2>3, <2>4, FaultPays
    <2>5. CASE Put(x) /\ UNCHANGED faults /\ x = m
      BY <1>1, <2>3, <2>5, PutPays
    <2>6. CASE Put(x) /\ UNCHANGED faults /\ x # m
      <3>1. /\ DOMAIN age' = Stored \cup {x}
            /\ \A y \in Stored : y # x => age'[y] = age[y]
        BY <1>1, <2>6, PutTyped
      <3>2. \A k \in ticked : WillPut(k, m) => WillPut(k, m)'
        BY <1>1, <2>1, <2>2, <2>6 DEF WillPut, LocalsTyped, RoomsTyped
      <3>. QED  BY <2>2, <2>3, <2>6, <3>1, <3>2 DEF Paid, Stored
    <2>. QED  BY <2>1, <2>4, <2>5, <2>6
  <1>10. ASSUME NEW l \in Loop, Return(l) PROVE Paid(m)'
    <2>1. /\ pc[l] = "refresh" /\ toRefresh[l] = {}
          /\ pc' = [pc EXCEPT ![l] = "idle"] /\ top' = [top EXCEPT ![l] = {}]
          /\ UNCHANGED <<store, faults, toRefresh, ticked>>
      BY <1>10 DEF Return
    <2>2. Paid(m)
      BY <1>3, <2>1
    <2>3. \A k \in ticked : WillPut(k, m) => WillPut(k, m)'
      BY <1>1, <2>1 DEF WillPut, LocalsTyped, RoomsTyped
    <2>. QED  BY <2>1, <2>2, <2>3 DEF Paid, Stored
  <1>11. ASSUME NEW n \in Node, Leave(n) PROVE Paid(m)'
    <2>1. Fault /\ UNCHANGED store
      BY <1>11 DEF Leave
    <2>. QED  BY <1>1, <1>3, <2>1, FaultPays
  <1>12. ASSUME NEW n \in Node, Join(n) PROVE Paid(m)'
    BY <1>3, <1>12 DEF Join, Paid, Stored, WillPut
  <1>13. CASE Elapse
    <2>1. /\ \A l \in Loop : RoomOf[l] \in up => l \in ticked /\ pc[l] = "idle"
          /\ ticked' = {} /\ UNCHANGED <<posted, faults>>
          /\ age' = [x \in {y \in Stored : age[y] + 1 < TTL} |-> age[x] + 1]
      BY <1>13 DEF Elapse
    <2>2. Paid(m) /\ m \in posted
      BY <1>3, <2>1
    <2>3. PICK l \in Loop : RoomOf[l] \in up
      <3>1. m.from \in Node
        BY <1>1, <2>2 DEF StoreTyped, Msg
      <3>2. PICK n \in up : n \in Node
        BY <1>1, <3>1 DEF SomebodyUp, RoomsTyped
      <3>. QED  BY <3>2 DEF Polled
    <2>4. age[m] <= faults
      BY <2>1, <2>2, <2>3 DEF Paid, WillPut
    <2>5. age[m] + 1 < TTL
      BY <1>1, <1>4, <2>2, <2>4, RoomAssumption DEF Patient, StoreTyped, Paid
    <2>6. m \in DOMAIN age' /\ age'[m] = age[m] + 1
      BY <2>1, <2>2, <2>5 DEF Paid
    <2>. QED  BY <1>4, <2>1, <2>2, <2>4, <2>6 DEF Paid, Stored
  <1>14. CASE UNCHANGED vars
    BY <1>3, <1>14 DEF vars, Paid, Stored, WillPut
  <1>. QED
    BY <1>5, <1>6, <1>7, <1>8, <1>9, <1>10, <1>11, <1>12, <1>13, <1>14 DEF Next, Step

(***************************************************************************)
(* A room in which any member refreshes keeps its newest windowN messages  *)
(* as long as somebody is in it, if the store's TTL is two intervals more  *)
(* than there are polls, reads and puts that go wrong                      *)
(* (engine.go:170-185, window.go:7-12).                                    *)
(***************************************************************************)
THEOREM WindowOutlivesTTL ==
    ASSUME anyMember, Polled, Patient
    PROVE  Spec => []WindowSurvives
  <1>1. Init => AgePaid
    BY DEF Init, AgePaid
  <1>2. Spec => []AgePaid
    BY <1>1, TypeInvariant, AgeStep, PTL DEF Spec
  <1>3. AgePaid => WindowSurvives
    BY DEF AgePaid, WindowSurvives
  <1>. QED  BY <1>2, <1>3, PTL
=============================================================================
