---------------------------- MODULE SpokesProofs ----------------------------
(***************************************************************************)
(* Proofs about Spokes, for any names and any number of commands.          *)
(***************************************************************************)
EXTENDS Spokes, FiniteSetTheorems, SequenceTheorems, TLAPS

(***************************************************************************)
(* Types need that a file somebody has open under a name is there.         *)
(***************************************************************************)
OpenExists ==
    \A w \in Writer : /\ fd[w] = "temp" => temp # Missing
                      /\ fd[w] = "list" => file # Missing

IInv == TypeOK /\ OpenExists

(***************************************************************************)
(* A writer who has been alone since its load fills a temporary of its own *)
(* and saves the present list with its change.                             *)
(***************************************************************************)
AloneIsAlone ==
    alone # Nobody => Saving(alone) /\ Undisturbed(alone)

AloneFile ==
    alone # Nobody =>
        /\ pc[alone] = "write" => fd[alone] = "temp" /\ temp = <<>>
        /\ pc[alone] = "rename" => temp = Sorted(set[alone])

AloneSet ==
    /\ alone \in Cli => set[alone] = Changed(alone)
    /\ alone = Daemon /\ ~behind => set[Daemon] = Loaded \ quiet
    /\ pc[Daemon] \in {"plan", "tick"} /\ ~behind => set[Daemon] = Loaded

\* The daemon is asked nothing.
DaemonUnasked == op[Daemon] = NoOp

AInv == AloneIsAlone /\ AloneFile /\ AloneSet /\ DaemonUnasked

(***************************************************************************)
(* A removal nobody disputes left the name nowhere: not on the list, not   *)
(* in what is being saved, not in the temporary somebody will rename, and  *)
(* not in an export to come.                                               *)
(***************************************************************************)
Sure == revoked \ disputed

Clean(lines) == lines # Missing => Range(lines) \cap Sure = {}

Writing == \E w \in Writer : pc[w] \in {"write", "rename"}

NoSure ==
    /\ Clean(file)
    /\ \A w \in Writer : Saving(w) => set[w] \cap Sure = {}
    /\ Writing => Clean(temp)
    /\ \A w \in Writer : op[w].kind = "export" => op[w].name \notin Sure

-----------------------------------------------------------------------------
(* Sorting a set of names.                                                 *)

\* s lists S in increasing order.
IsSortedList(s, S) ==
    /\ s \in [1 .. Cardinality(S) -> S]
    /\ \A i, j \in DOMAIN s : i < j => s[i] < s[j]

\* Every set of numbers that is not empty has a least element.
LEMMA LeastElement ==
    ASSUME NEW S \in SUBSET Nat, S # {}
    PROVE  \E x \in S : \A y \in S : x <= y
  <1>. DEFINE R == OpToRel(<, Nat)
  <1>1. \E x \in S : \A y \in S : ~(<<y, x>> \in R)
    <2>. HIDE DEF R
    <2>1. IsWellFoundedOn(R, Nat)
      BY NatLessThanWellFounded DEF R
    <2>. QED  BY <2>1, WFMin
  <1>2. PICK x \in S : \A y \in S : ~(<<y, x>> \in R)
    BY <1>1
  <1>3. \A y \in S : ~(y < x)
    BY <1>2 DEF OpToRel
  <1>4. \A y \in S : x <= y
    <2>. TAKE y \in S
    <2>1. x \in Nat /\ y \in Nat
      OBVIOUS
    <2>. QED  BY <1>3, <2>1
  <1>. QED  BY <1>4

\* A finite set without its least element, sorted, gives the set, sorted.
LEMMA SortedExtends ==
    ASSUME NEW S \in SUBSET Nat, IsFiniteSet(S), NEW x \in S, \A y \in S : x <= y,
           NEW t, IsSortedList(t, S \ {x})
    PROVE  \E s : IsSortedList(s, S)
  <1>. DEFINE n == Cardinality(S)
              s == [i \in 1 .. n |-> IF i = 1 THEN x ELSE t[i - 1]]
  <1>1. Cardinality(S \ {x}) = n - 1 /\ n \in Nat
    BY FS_RemoveElement, FS_CardinalityType
  <1>2. t \in [1 .. n - 1 -> S \ {x}] /\ \A i, j \in 1 .. n - 1 : i < j => t[i] < t[j]
    BY <1>1 DEF IsSortedList
  <1>. HIDE DEF n
  <1>3. s \in [1 .. n -> S]
    BY <1>1, <1>2
  <1>4. \A i \in 1 .. n : i # 1 => x < s[i]
    <2>. SUFFICES ASSUME NEW i \in 1 .. n, i # 1 PROVE x < t[i - 1]
      OBVIOUS
    <2>1. t[i - 1] \in S \ {x}
      <3>1. i - 1 \in 1 .. n - 1
        BY <1>1
      <3>. QED  BY <1>2, <3>1
    <2>2. x \in Nat /\ t[i - 1] \in Nat /\ x <= t[i - 1] /\ x # t[i - 1]
      BY <2>1
    <2>. QED  BY <2>2
  <1>5. ASSUME NEW i \in 1 .. n, NEW j \in 1 .. n, i < j PROVE s[i] < s[j]
    <2>1. CASE i = 1
      BY <1>1, <1>4, <1>5, <2>1
    <2>2. CASE i # 1
      <3>1. i - 1 \in 1 .. n - 1 /\ j - 1 \in 1 .. n - 1 /\ i - 1 < j - 1
        BY <1>1, <1>5, <2>2
      <3>2. s[i] = t[i - 1] /\ s[j] = t[j - 1]
        BY <1>1, <1>5, <2>2
      <3>. QED  BY <1>2, <3>1, <3>2
    <2>. QED  BY <2>1, <2>2
  <1>6. IsSortedList(s, S)
    BY <1>3, <1>5 DEF IsSortedList, n
  <1>. QED  BY <1>6

\* Every finite set of numbers can be sorted.
LEMMA SortedExists ==
    ASSUME NEW U \in SUBSET Nat, IsFiniteSet(U)
    PROVE  \E s : IsSortedList(s, U)
  <1>. DEFINE bad == {n \in Nat : \E S \in SUBSET Nat : /\ IsFiniteSet(S) /\ Cardinality(S) = n
                                                      /\ \A s : ~IsSortedList(s, S)}
  <1>. SUFFICES ASSUME bad # {} PROVE FALSE
    BY FS_CardinalityType
  <1>1. PICK n \in bad : \A k \in bad : n <= k
    BY LeastElement
  <1>2. PICK S \in SUBSET Nat : /\ IsFiniteSet(S) /\ Cardinality(S) = n
                                /\ \A s : ~IsSortedList(s, S)
    BY <1>1
  <1>3. CASE S = {}
    <2>1. Cardinality(S) = 0
      BY <1>3, FS_EmptySet
    <2>2. IsSortedList([i \in 1 .. 0 |-> 0], S)
      BY <1>3, <2>1 DEF IsSortedList
    <2>. QED  BY <1>2, <2>2
  <1>4. CASE S # {}
    <2>1. PICK x \in S : \A y \in S : x <= y
      BY <1>4, LeastElement
    <2>2. IsFiniteSet(S \ {x}) /\ Cardinality(S \ {x}) = n - 1
      BY <1>2, FS_RemoveElement
    <2>3. n - 1 \in Nat
      BY <2>2, FS_CardinalityType
    <2>4. n - 1 \notin bad
      BY <1>1, <2>3
    <2>5. PICK t : IsSortedList(t, S \ {x})
      BY <2>2, <2>3, <2>4
    <2>. QED  BY <1>2, <2>1, <2>5, SortedExtends
  <1>. QED  BY <1>3, <1>4

\* What SaveSpokes writes for a set is a list of lines, and reads back as the set.
LEMMA SortedReadsBack ==
    ASSUME NEW S \in SUBSET Spoke
    PROVE  Sorted(S) \in Seq(Spoke) /\ Range(Sorted(S)) = S
  <1>. DEFINE n == Cardinality(S)
              s == Sorted(S)
  <1>1. S \in SUBSET Nat /\ IsFiniteSet(S)
    BY SpokesAssumption, FS_Subset
  <1>2. n \in Nat
    BY <1>1, FS_CardinalityType
  <1>3. /\ s \in [1 .. n -> S]
        /\ \A i, j \in DOMAIN s : i < j => s[i] < s[j]
    <2>1. \E q \in [1 .. n -> S] : \A i, j \in DOMAIN q : i < j => q[i] < q[j]
      BY <1>1, SortedExists DEF IsSortedList
    <2>. QED  BY <2>1 DEF Sorted
  <1>. HIDE DEF s, n
  <1>4. s \in Seq(Spoke)
    BY <1>2, <1>3
  <1>5. s \in Injection(1 .. n, S)
    <2>1. ASSUME NEW i \in 1 .. n, NEW j \in 1 .. n, s[i] = s[j] PROVE i = j
      <3>1. s[i] \in Nat /\ ~(s[i] < s[j]) /\ ~(s[j] < s[i])
        <4>1. s[i] \in Nat
          BY <1>1, <1>3
        <4>. QED  BY <2>1, <4>1
      <3>2. ~(i < j) /\ ~(j < i)
        BY <1>3, <3>1
      <3>. QED  BY <1>2, <3>2
    <2>. QED  BY <1>3, <2>1 DEF Injection, IsInjective
  <1>6. Cardinality(1 .. n) = Cardinality(S)
    BY <1>2, FS_Interval DEF n
  <1>7. s \in Surjection(1 .. n, S)
    BY <1>1, <1>5, <1>6, FS_Injection
  <1>8. Range(s) = S
    BY <1>3, <1>7 DEF Surjection, Range
  <1>. QED  BY <1>4, <1>8 DEF s

-----------------------------------------------------------------------------
(* Types.                                                                  *)

USE DEF fileVars, hubVars, removals, saveVars

LEMMA NoOpType == NoOp \in [kind: {"export", "remove", "none"}, name: Spoke]
  <1>1. (CHOOSE n \in Spoke : TRUE) \in Spoke
    BY SpokesAssumption
  <1>. QED  BY <1>1 DEF NoOp

LEMMA LoadedType ==
    ASSUME TypeOK PROVE Loaded \in SUBSET Spoke
  <1>1. CASE file = Missing
    BY <1>1 DEF Loaded
  <1>2. CASE file # Missing
    <2>1. file \in Seq(Spoke)
      BY <1>2 DEF TypeOK, File
    <2>2. Range(file) \subseteq Spoke
      BY <2>1 DEF Range
    <2>. QED  BY <1>2, <2>2 DEF Loaded
  <1>. QED  BY <1>1, <1>2

\* A write replaces as many lines as it has, and leaves the rest.
LEMMA OverProperties ==
    ASSUME NEW new \in Seq(Spoke), NEW old \in Seq(Spoke)
    PROVE  /\ Over(new, old) \in Seq(Spoke)
           /\ Range(Over(new, old)) \subseteq Range(new) \cup Range(old)
           /\ old = <<>> => Over(new, old) = new
  <1>. DEFINE rest == SubSeq(old, Len(new) + 1, Len(old))
  <1>1. Len(new) \in Nat /\ Len(old) \in Nat /\ DOMAIN new = 1 .. Len(new)
                                            /\ DOMAIN old = 1 .. Len(old)
    BY LenProperties
  <1>2. \A k \in Len(new) + 1 .. Len(old) : k \in 1 .. Len(old) /\ old[k] \in Spoke
    <2>1. \A k \in 1 .. Len(old) : old[k] \in Spoke
      BY LenProperties
    <2>. QED  BY <1>1, <2>1
  <1>3. rest \in Seq(Spoke)
    BY <1>1, <1>2
  <1>4. Range(rest) \subseteq Range(old)
    <2>. SUFFICES ASSUME NEW k \in DOMAIN rest PROVE rest[k] \in Range(old)
      BY DEF Range
    <2>1. k + Len(new) \in 1 .. Len(old) /\ rest[k] = old[k + Len(new)]
      BY <1>1
    <2>. QED  BY <1>1, <2>1 DEF Range
  <1>5. old = <<>> => rest = <<>>
    BY <1>1
  <1>6. Over(new, old) = new \o rest
    BY DEF Over
  <1>. HIDE DEF rest
  <1>7. Len(rest) \in Nat /\ DOMAIN rest = 1 .. Len(rest)
    BY <1>3, LenProperties
  <1>8. ASSUME NEW k \in DOMAIN (new \o rest)
        PROVE  (new \o rest)[k] \in Range(new) \cup Range(rest)
    <2>1. k \in 1 .. Len(new) + Len(rest)
      BY <1>1, <1>3, <1>7
    <2>2. CASE k <= Len(new)
      <3>1. (new \o rest)[k] = new[k] /\ k \in DOMAIN new
        BY <1>1, <1>3, <1>7, <2>1, <2>2
      <3>. QED  BY <3>1 DEF Range
    <2>3. CASE ~(k <= Len(new))
      <3>1. (new \o rest)[k] = rest[k - Len(new)] /\ k - Len(new) \in DOMAIN rest
        BY <1>1, <1>3, <1>7, <2>1, <2>3
      <3>. QED  BY <3>1 DEF Range
    <2>. QED  BY <2>2, <2>3
  <1>9. Range(new \o rest) \subseteq Range(new) \cup Range(rest)
    BY <1>8 DEF Range
  <1>10. new \o rest \in Seq(Spoke)
    BY <1>3, ConcatProperties
  <1>11. old = <<>> => new \o rest = new
    BY <1>5, ConcatEmptySeq
  <1>. QED  BY <1>4, <1>6, <1>9, <1>10, <1>11

\* What a writer puts in the file it has open.
LEMMA WriteFile ==
    ASSUME IInv, NEW w \in Writer, Write(w)
    PROVE  /\ temp' \in File /\ file' \in File
           /\ fd[w] = "temp" => /\ temp' # Missing /\ temp # Missing
                                /\ Range(temp') \subseteq set[w] \cup Range(temp)
                                /\ temp = <<>> => temp' = Sorted(set[w])
           /\ fd[w] = "list" => /\ file' # Missing /\ file # Missing
                                /\ Range(file') \subseteq set[w] \cup Range(file)
           /\ fd[w] # "temp" => temp' = temp
           /\ fd[w] # "list" => file' = file
  <1>1. Sorted(set[w]) \in Seq(Spoke) /\ Range(Sorted(set[w])) = set[w]
    BY SortedReadsBack DEF IInv, TypeOK
  <1>2. fd[w] = "temp" => temp \in Seq(Spoke) /\ temp # Missing
    BY DEF IInv, TypeOK, File, OpenExists
  <1>3. fd[w] = "list" => file \in Seq(Spoke) /\ file # Missing
    BY DEF IInv, TypeOK, File, OpenExists
  <1>4. /\ fd[w] = "temp" => temp' = Over(Sorted(set[w]), temp)
        /\ fd[w] = "list" => file' = Over(Sorted(set[w]), file)
        /\ fd[w] # "temp" => temp' = temp
        /\ fd[w] # "list" => file' = file
    BY DEF Write
  <1>5. fd[w] = "temp" => /\ temp' \in Seq(Spoke)
                          /\ Range(temp') \subseteq set[w] \cup Range(temp)
                          /\ temp = <<>> => temp' = Sorted(set[w])
    BY <1>1, <1>2, <1>4, OverProperties
  <1>6. fd[w] = "list" => /\ file' \in Seq(Spoke)
                          /\ Range(file') \subseteq set[w] \cup Range(file)
    BY <1>1, <1>3, <1>4, OverProperties
  <1>7. temp' \in File /\ file' \in File
    BY <1>4, <1>5, <1>6 DEF File, IInv, TypeOK
  <1>. QED  BY <1>2, <1>3, <1>4, <1>5, <1>6, <1>7, SpokesAssumption

LEMMA InitIInv == Init => IInv
  <1>. SUFFICES ASSUME Init PROVE IInv
    OBVIOUS
  <1>1. PICK S \in SUBSET Spoke : file \in {Sorted(S)} \cup {f \in {Missing} : S = {}}
    BY DEF Init
  <1>2. file \in File /\ temp \in File
    <2>1. Sorted(S) \in Seq(Spoke)
      BY SortedReadsBack
    <2>. QED  BY <1>1, <2>1 DEF Init, File
  <1>3. op \in [Writer -> [kind: {"export", "remove", "none"}, name: Spoke]]
    BY NoOpType DEF Init
  <1>4. OpenExists
    BY DEF Init, OpenExists
  <1>5. /\ pc \in [Writer -> {"down", "idle", "load", "plan", "tick", "open", "write",
                                "rename"}]
        /\ set \in [Writer -> SUBSET Spoke]
        /\ fd \in [Writer -> {"none", "temp", "list", "unlinked"}]
        /\ kpeers \subseteq Spoke
        /\ hs \in [Spoke -> {"never", "live", "silent"}]
        /\ revoked \subseteq Spoke /\ disputed \subseteq Spoke
        /\ behind \in BOOLEAN /\ alone \in Writer \cup {Nobody} /\ quiet \subseteq Spoke
    BY DEF Init
  <1>. QED  BY <1>2, <1>3, <1>4, <1>5 DEF IInv, TypeOK

LEMMA NextIInv == IInv /\ [Next]_vars => IInv'
  <1>. SUFFICES ASSUME IInv, [Next]_vars PROVE IInv'
    OBVIOUS
  <1>. USE NoOpType DEF IInv
  <1>0. Loaded \in SUBSET Spoke /\ Daemon \in Writer
    BY LoadedType DEF Writer
  <1>1. ASSUME NEW c \in Cli, Command(c) PROVE IInv'
    <2>0. c \in Writer
      BY DEF Writer
    <2>1. ASSUME NEW n \in Spoke, NEW kind \in {"export", "remove"}, Ask(c, kind, n) PROVE IInv'
      <3>1. op' \in [Writer -> [kind: {"export", "remove", "none"}, name: Spoke]]
        BY <2>1 DEF Ask, TypeOK
      <3>. QED  BY <2>0, <2>1, <3>1 DEF Ask, TypeOK, OpenExists
    <2>2. CASE LoadAndChange(c)
      <3>1. Changed(c) \in SUBSET Spoke
        BY <1>0, <2>0 DEF Changed, TypeOK
      <3>2. CASE Changed(c) = Loaded /\ Succeed(c, Undisturbed(c)) /\ UNCHANGED alone
        <4>1. op' \in [Writer -> [kind: {"export", "remove", "none"}, name: Spoke]]
          BY <3>2 DEF Succeed, TypeOK
        <4>2. revoked' \subseteq Spoke /\ disputed' \subseteq Spoke
          BY <2>0, <3>2 DEF Succeed, TypeOK
        <4>. QED  BY <2>0, <2>2, <3>2, <4>1, <4>2 DEF LoadAndChange, Succeed, TypeOK, OpenExists
      <3>3. CASE /\ set' = [set EXCEPT ![c] = Changed(c)]
                 /\ alone' = IF Undisturbed(c) THEN c ELSE Nobody
                 /\ pc' = [pc EXCEPT ![c] = "open"]
                 /\ UNCHANGED <<op, removals>>
        BY <2>0, <2>2, <3>1, <3>3 DEF LoadAndChange, TypeOK, OpenExists
      <3>. QED  BY <2>2, <3>2, <3>3 DEF LoadAndChange
    <2>. QED  BY <1>1, <2>1, <2>2 DEF Command
  <1>2. ASSUME NEW w \in Writer, OpenTmp(w) PROVE IInv'
    <2>1. <<>> \in Seq(Spoke)
      OBVIOUS
    <2>2. <<>> # Missing
      BY <2>1, SpokesAssumption
    <2>. QED  BY <1>2, <2>1, <2>2 DEF OpenTmp, TypeOK, File, OpenExists
  <1>3. ASSUME NEW w \in Writer, Write(w) PROVE IInv'
    <2>1. temp' \in File /\ file' \in File
      BY <1>3, WriteFile
    <2>2. TypeOK'
      BY <1>3, <2>1 DEF Write, TypeOK
    <2>3. (temp # Missing => temp' # Missing) /\ (file # Missing => file' # Missing)
      BY <1>3, WriteFile
    <2>4. OpenExists'
      BY <1>3, <2>3 DEF Write, TypeOK, OpenExists
    <2>. QED  BY <2>2, <2>4
  <1>4. ASSUME NEW w \in Writer, Rename(w) PROVE IInv'
    <2>1. fd' \in [Writer -> {"none", "temp", "list", "unlinked"}] /\ OpenExists'
      BY <1>4 DEF Rename, Renamed, TypeOK, OpenExists
    <2>2. op' \in [Writer -> [kind: {"export", "remove", "none"}, name: Spoke]]
      BY <1>4 DEF Rename, Succeed, TypeOK
    <2>3. revoked' \subseteq Spoke /\ disputed' \subseteq Spoke
      BY <1>4 DEF Rename, Succeed, TypeOK
    <2>4. behind' \in BOOLEAN /\ alone' \in Writer \cup {Nobody} /\ quiet' \subseteq Spoke
      BY <1>4 DEF Rename, EndSave, TypeOK
    <2>. QED  BY <1>4, <2>1, <2>2, <2>3, <2>4 DEF Rename, Succeed, TypeOK, File
  <1>5. ASSUME NEW w \in Writer, GiveUp(w) PROVE IInv'
    <2>1. op' \in [Writer -> [kind: {"export", "remove", "none"}, name: Spoke]]
      BY <1>5 DEF GiveUp, TypeOK
    <2>2. behind' \in BOOLEAN /\ alone' \in Writer \cup {Nobody} /\ quiet' \subseteq Spoke
      BY <1>5 DEF GiveUp, EndSave, TypeOK
    <2>. QED  BY <1>5, <2>1, <2>2 DEF GiveUp, TypeOK, OpenExists
  <1>6. CASE Start
    BY <1>0, <1>6 DEF Start, TypeOK, OpenExists
  <1>7. CASE Crash
    BY <1>0, <1>7 DEF Crash, EndSave, TypeOK, OpenExists
  <1>8. CASE Reload \/ ReloadFails \/ PassFails
    BY <1>0, <1>8 DEF Reload, ReloadFails, PassFails, TypeOK, OpenExists
  <1>8a. CASE Apply
    BY <1>0, <1>8a DEF Apply, TypeOK, OpenExists
  <1>9. CASE Evict
    <2>1. set[Daemon] \ Silent \in SUBSET Spoke
      BY <1>0 DEF TypeOK
    <2>. QED  BY <1>0, <1>9, <2>1 DEF Evict, TypeOK, OpenExists
  <1>10. ASSUME NEW n \in Spoke, Connects(n) \/ GoesSilent(n) PROVE IInv'
    BY <1>10 DEF Connects, GoesSilent, TypeOK, OpenExists
  <1>11. CASE UNCHANGED vars
    BY <1>11 DEF vars, TypeOK, OpenExists
  <1>. QED
    BY <1>1, <1>2, <1>3, <1>4, <1>5, <1>6, <1>7, <1>8, <1>8a, <1>9, <1>10, <1>11
    DEF Next, SaveStep

(***************************************************************************)
(* The types of the spoke list hold whatever the writers do: a file that   *)
(* is open under a name is there, wherever a rename took it, and no write  *)
(* makes a file hold anything but names (spokes.go:35-88).                 *)
(***************************************************************************)
THEOREM SpokesTypeOK == Spec => []TypeOK
  <1>1. IInv => TypeOK
    BY DEF IInv
  <1>. QED  BY <1>1, InitIInv, NextIInv, PTL DEF Spec
-----------------------------------------------------------------------------
(* The writer who saves alone.                                             *)

\* Its save takes effect as a whole, in its rename.
LEMMA RenameLoads ==
    ASSUME IInv, AInv, NEW w \in Writer, alone = w, Rename(w)
    PROVE  Loaded' = set[w]
  <1>1. temp = Sorted(set[w]) /\ set[w] \in SUBSET Spoke
    BY SpokesAssumption DEF AInv, AloneFile, Writer, Rename, IInv, TypeOK
  <1>2. file' = temp /\ temp # Missing
    BY DEF Rename
  <1>3. Loaded' = Range(Sorted(set[w]))
    BY <1>1, <1>2 DEF Loaded
  <1>. QED  BY <1>1, <1>3, SortedReadsBack

\* A write of somebody whose file is not the list does not touch it.
LEMMA WriteHidden ==
    ASSUME IInv, NEW w \in Writer, Write(w), fd[w] # "list"
    PROVE  Loaded' = Loaded
  BY WriteFile DEF Loaded

LEMMA InitAInv == Init => AInv /\ NoSure
  <1>. SUFFICES ASSUME Init PROVE AInv /\ NoSure
    OBVIOUS
  <1>1. Daemon \in Writer /\ Nobody \notin Writer /\ Cli \subseteq Writer
    BY SpokesAssumption DEF Writer
  <1>2. \A w \in Writer : pc[w] \in {"down", "idle"} /\ op[w] = NoOp
    BY DEF Init
  <1>3. AInv
    BY <1>1, <1>2 DEF Init, AInv, AloneIsAlone, AloneFile, AloneSet, DaemonUnasked
  <1>4. Sure = {}
    BY DEF Init, Sure
  <1>5. NoSure
    BY <1>1, <1>2, <1>4 DEF NoSure, Clean, Saving, Writing, NoOp
  <1>. QED  BY <1>3, <1>5

LEMMA NextAInv == IInv /\ AInv /\ [Next]_vars => AInv'
  <1>. SUFFICES ASSUME IInv, AInv, [Next]_vars PROVE AInv'
    OBVIOUS
  <1>. USE DEF Saving, Undisturbed
  <1>0. /\ Cli \subseteq Writer /\ Daemon \in Writer /\ Daemon \notin Cli /\ Nobody \notin Writer
        /\ alone \in Writer \cup {Nobody} /\ Writer = Cli \cup {Daemon}
    BY SpokesAssumption DEF Writer, IInv, TypeOK
  <1>1. ASSUME NEW c \in Cli, NEW n \in Spoke, NEW kind \in {"export", "remove"}, Ask(c, kind, n)
        PROVE  AInv'
    <2>1. Loaded' = Loaded /\ c # alone
      BY <1>0, <1>1 DEF Ask, Loaded, AInv, AloneIsAlone
    <2>2. /\ pc' = [pc EXCEPT ![c] = "load"] /\ UNCHANGED <<fileVars, set, fd, saveVars>>
          /\ \A w \in Writer \ {c} : op'[w] = op[w]
      BY <1>0, <1>1 DEF Ask, IInv, TypeOK
    <2>3. \A w \in Writer \ {c} : pc'[w] = pc[w] /\ pc'[c] = "load"
      BY <1>0, <2>2 DEF IInv, TypeOK
    <2>4. AloneIsAlone' /\ AloneFile' /\ DaemonUnasked'
      BY <1>0, <2>1, <2>2, <2>3
      DEF AInv, AloneIsAlone, AloneFile, DaemonUnasked
    <2>5. AloneSet'
      BY <1>0, <2>1, <2>2, <2>3 DEF AInv, AloneSet, Changed
    <2>. QED  BY <2>4, <2>5 DEF AInv
  <1>2. ASSUME NEW c \in Cli, LoadAndChange(c) PROVE AInv'
    <2>1. /\ Loaded' = Loaded /\ c # alone /\ pc[c] = "load"
          /\ UNCHANGED <<fileVars, fd, behind, quiet>>
      BY <1>0, <1>2 DEF LoadAndChange, Loaded, AInv, AloneIsAlone
    <2>2. ASSUME Succeed(c, Undisturbed(c)), UNCHANGED alone PROVE AInv'
      <3>1. /\ pc'[c] = "idle"
            /\ \A w \in Writer \ {c} : pc'[w] = pc[w] /\ set'[w] = set[w] /\ op'[w] = op[w]
        BY <1>0, <2>2 DEF Succeed, IInv, TypeOK
      <3>2. AloneIsAlone' /\ AloneFile' /\ DaemonUnasked'
        BY <1>0, <2>1, <2>2, <3>1
        DEF AInv, AloneIsAlone, AloneFile, DaemonUnasked
      <3>3. AloneSet'
        BY <1>0, <2>1, <2>2, <3>1 DEF AInv, AloneSet, Changed
      <3>. QED  BY <3>2, <3>3 DEF AInv
    <2>3. ASSUME set' = [set EXCEPT ![c] = Changed(c)],
                 alone' = IF Undisturbed(c) THEN c ELSE Nobody,
                 pc' = [pc EXCEPT ![c] = "open"],
                 UNCHANGED <<op, removals>>
          PROVE  AInv'
      <3>1. /\ pc'[c] = "open" /\ set'[c] = Changed(c)
            /\ \A w \in Writer \ {c} : pc'[w] = pc[w] /\ set'[w] = set[w]
        BY <1>0, <2>3 DEF IInv, TypeOK
      <3>2. AloneIsAlone' /\ AloneFile' /\ DaemonUnasked'
        BY <1>0, <2>1, <2>3, <3>1
        DEF AInv, AloneIsAlone, AloneFile, DaemonUnasked
      <3>3. Changed(c)' = Changed(c)
        BY <2>1, <2>3 DEF Changed
      <3>4. AloneSet'
        BY <1>0, <2>1, <2>3, <3>1, <3>3 DEF AInv, AloneSet
      <3>. QED  BY <3>2, <3>4 DEF AInv
    <2>. QED  BY <1>2, <2>2, <2>3 DEF LoadAndChange
  <1>3. ASSUME NEW w \in Writer, OpenTmp(w) PROVE AInv'
    <2>1. /\ Loaded' = Loaded /\ temp' = <<>>
          /\ UNCHANGED <<op, set, saveVars>>
      BY <1>3 DEF OpenTmp, Loaded
    <2>2. /\ Saving(w) /\ pc'[w] = "write" /\ fd'[w] = "temp"
          /\ \A v \in Writer \ {w} : pc'[v] = pc[v]
      BY <1>3 DEF OpenTmp, IInv, TypeOK
    <2>3. AloneIsAlone' /\ DaemonUnasked'
      BY <1>0, <2>1, <2>2 DEF AInv, AloneIsAlone, DaemonUnasked
    <2>4. AloneFile'
      <3>1. alone # Nobody => alone = w
        BY <1>0, <2>2 DEF AInv, AloneIsAlone
      <3>. QED  BY <2>1, <2>2, <3>1 DEF AloneFile
    <2>5. AloneSet'
      BY <1>0, <2>1, <2>2 DEF AInv, AloneSet, Changed
    <2>. QED  BY <2>3, <2>4, <2>5 DEF AInv
  <1>4. ASSUME NEW w \in Writer, Write(w) PROVE AInv'
    <2>1. Saving(w) /\ pc'[w] = "rename" /\ \A v \in Writer \ {w} : pc'[v] = pc[v]
      BY <1>4 DEF Write, IInv, TypeOK
    <2>2. UNCHANGED <<op, set, hubVars, removals, alone, quiet>>
      BY <1>4 DEF Write
    <2>3. alone # Nobody => alone = w /\ fd[w] = "temp" /\ temp = <<>>
      BY <1>0, <1>4, <2>1 DEF Write, AInv, AloneIsAlone, AloneFile
    <2>4. AloneIsAlone' /\ DaemonUnasked'
      BY <1>0, <2>1, <2>2 DEF AInv, AloneIsAlone, DaemonUnasked
    <2>5. AloneFile'
      <3>1. alone # Nobody => temp' = Sorted(set[w])
        BY <1>4, <2>3, WriteFile
      <3>. QED  BY <2>1, <2>2, <2>3, <3>1 DEF AloneFile
    <2>6. alone # Nobody => Loaded' = Loaded
      BY <1>4, <2>3, WriteHidden
    <2>7. ~behind' => ~behind /\ (fd[w] # "list" \/ ~InPass)
      BY <1>4 DEF Write
    <2>8. AloneSet'
      <3>1. alone' \in Cli => set'[alone'] = Changed(alone)'
        BY <1>0, <2>2, <2>6 DEF AInv, AloneSet, Changed
      <3>2. alone' = Daemon /\ ~behind' => set'[Daemon] = Loaded' \ quiet'
        BY <1>0, <2>2, <2>6, <2>7 DEF AInv, AloneSet
      <3>3. pc'[Daemon] \in {"plan", "tick"} /\ ~behind' => set'[Daemon] = Loaded'
        <4>. SUFFICES ASSUME pc'[Daemon] \in {"plan", "tick"}, ~behind'
                      PROVE  set'[Daemon] = Loaded'
          OBVIOUS
        <4>1. pc[Daemon] \in {"plan", "tick"} /\ InPass
          BY <1>0, <2>1 DEF InPass
        <4>2. Loaded' = Loaded
          BY <1>4, <2>7, <4>1, WriteHidden
        <4>. QED  BY <2>2, <2>7, <4>1, <4>2 DEF AInv, AloneSet
      <3>. QED  BY <2>2, <3>1, <3>2, <3>3 DEF AloneSet
    <2>. QED  BY <2>4, <2>5, <2>8 DEF AInv
  <1>5. ASSUME NEW w \in Writer, Rename(w) PROVE AInv'
    <2>1. Saving(w) /\ pc'[w] = "idle" /\ \A v \in Writer \ {w} : pc'[v] = pc[v]
      BY <1>5 DEF Rename, Succeed, IInv, TypeOK
    <2>2. alone' = Nobody
      BY <1>0, <1>5, <2>1 DEF Rename, EndSave, AInv, AloneIsAlone
    <2>3. AloneIsAlone' /\ AloneFile'
      BY <2>2 DEF AloneIsAlone, AloneFile
    <2>4. DaemonUnasked'
      BY <1>0, <1>5 DEF Rename, Succeed, IInv, TypeOK, AInv, DaemonUnasked
    <2>5. pc'[Daemon] \in {"plan", "tick"} => behind'
      BY <1>0, <1>5, <2>1 DEF Rename, InPass
    <2>6. AloneSet'
      BY <1>0, <2>2, <2>5 DEF AloneSet
    <2>. QED  BY <2>3, <2>4, <2>6 DEF AInv
  <1>6. ASSUME NEW w \in Writer, GiveUp(w) PROVE AInv'
    <2>1. Loaded' = Loaded
      BY <1>6 DEF GiveUp, Loaded
    <2>2. /\ pc'[w] = "idle" /\ UNCHANGED fileVars /\ (w # Daemon => behind' = behind)
          /\ \A v \in Writer \ {w} : pc'[v] = pc[v] /\ set'[v] = set[v] /\ fd'[v] = fd[v]
                                                     /\ op'[v] = op[v]
      BY <1>6 DEF GiveUp, IInv, TypeOK
    <2>3. alone' = (IF alone = w THEN Nobody ELSE alone) /\ (w # Daemon => quiet' = quiet)
      BY <1>6 DEF GiveUp, EndSave
    <2>4. AloneIsAlone' /\ AloneFile'
      BY <1>0, <2>2, <2>3 DEF AInv, AloneIsAlone, AloneFile
    <2>5. DaemonUnasked'
      BY <1>0, <1>6 DEF GiveUp, IInv, TypeOK, AInv, DaemonUnasked
    <2>6. AloneSet'
      <3>1. alone' \in Cli => set'[alone'] = Changed(alone)'
        BY <1>0, <2>1, <2>2, <2>3 DEF AInv, AloneSet, Changed
      <3>2. alone' \in Cli => alone' = alone
        BY <1>0, <2>3
      <3>. QED  BY <1>0, <2>1, <2>2, <2>3, <3>1, <3>2 DEF AInv, AloneSet
    <2>. QED  BY <2>4, <2>5, <2>6 DEF AInv
  <1>7. CASE Start \/ Crash \/ Reload \/ ReloadFails \/ PassFails \/ Apply
    <2>1. /\ UNCHANGED <<fileVars, op>> /\ Loaded' = Loaded
          /\ ~Saving(Daemon)'
          /\ \A v \in Writer \ {Daemon} : pc'[v] = pc[v] /\ set'[v] = set[v] /\ fd'[v] = fd[v]
      BY <1>0, <1>7
      DEF Start, Crash, Reload, ReloadFails, PassFails, Apply, Loaded, IInv, TypeOK
    <2>2. /\ alone' \in {alone, Nobody} /\ alone' # Daemon
          /\ pc'[Daemon] \in {"plan", "tick"} /\ ~behind' => set'[Daemon] = Loaded
      <3>1. ~Crash => alone' = alone /\ ~Saving(Daemon)
        BY <1>7 DEF Start, Reload, ReloadFails, PassFails, Apply
      <3>2. Crash => alone' \in {alone, Nobody} /\ alone' # Daemon /\ pc'[Daemon] = "down"
        BY <1>0 DEF Crash, EndSave, IInv, TypeOK
      <3>3. Reload \/ Apply => pc'[Daemon] \in {"plan", "tick"} /\ (~behind' => set'[Daemon] = Loaded)
        BY <1>0 DEF Reload, Apply, IInv, TypeOK, AInv, AloneSet
      <3>4. Start \/ PassFails => pc'[Daemon] = "idle"
        BY <1>0 DEF Start, PassFails, IInv, TypeOK
      <3>5. ReloadFails => behind'
        BY DEF ReloadFails
      <3>. QED  BY <1>0, <1>7, <3>1, <3>2, <3>3, <3>4, <3>5 DEF AInv, AloneIsAlone
    <2>3. AloneIsAlone' /\ AloneFile' /\ DaemonUnasked'
      BY <1>0, <2>1, <2>2 DEF AInv, AloneIsAlone, AloneFile, DaemonUnasked
    <2>4. AloneSet'
      BY <1>0, <2>1, <2>2 DEF AInv, AloneSet, Changed
    <2>. QED  BY <2>3, <2>4 DEF AInv
  <1>8. CASE Evict
    <2>1. /\ UNCHANGED <<fileVars, op, fd>> /\ pc[Daemon] = "tick" /\ Loaded' = Loaded
          /\ set'[Daemon] = set[Daemon] \ Silent
          /\ \A v \in Writer \ {Daemon} : pc'[v] = pc[v] /\ set'[v] = set[v]
      BY <1>0, <1>8 DEF Evict, Loaded, IInv, TypeOK
    <2>2. \/ pc'[Daemon] = "idle" /\ alone' = alone
          \/ /\ pc'[Daemon] = "open" /\ alone' = IF Undisturbed(Daemon) THEN Daemon ELSE Nobody
             /\ quiet' = {n \in Spoke : hs[n] = "silent"} /\ behind' = behind
      BY <1>0, <1>8 DEF Evict, IInv, TypeOK
    <2>3. AloneIsAlone' /\ AloneFile' /\ DaemonUnasked'
      BY <1>0, <2>1, <2>2 DEF AInv, AloneIsAlone, AloneFile, DaemonUnasked
    <2>4. AloneSet'
      <3>1. CASE pc'[Daemon] = "idle" /\ alone' = alone
        BY <1>0, <2>1, <3>1 DEF AInv, AloneSet, AloneIsAlone, Changed
      <3>2. CASE /\ pc'[Daemon] = "open" /\ alone' = IF Undisturbed(Daemon) THEN Daemon ELSE Nobody
                 /\ quiet' = {n \in Spoke : hs[n] = "silent"} /\ behind' = behind
        <4>1. set[Daemon] = Loaded /\ Loaded \subseteq Spoke => set[Daemon] \ Silent = Loaded \ quiet'
          BY <3>2 DEF Silent
        <4>. QED  BY <1>0, <2>1, <3>2, <4>1, LoadedType DEF AInv, AloneSet, IInv
      <3>. QED  BY <2>2, <3>1, <3>2
    <2>. QED  BY <2>3, <2>4 DEF AInv
  <1>9. ASSUME NEW n \in Spoke, Connects(n) \/ GoesSilent(n) PROVE AInv'
    <2>1. UNCHANGED <<fileVars, pc, op, set, fd, saveVars>> /\ Loaded' = Loaded
      BY <1>9 DEF Connects, GoesSilent, Loaded
    <2>. QED
      BY <2>1 DEF AInv, AloneIsAlone, AloneFile, AloneSet, DaemonUnasked, Changed
  <1>10. CASE UNCHANGED vars
    <2>1. UNCHANGED <<fileVars, pc, op, set, fd, saveVars>> /\ Loaded' = Loaded
      BY <1>10 DEF vars, Loaded
    <2>. QED
      BY <2>1 DEF AInv, AloneIsAlone, AloneFile, AloneSet, DaemonUnasked, Changed
  <1>. QED
    BY <1>1, <1>2, <1>3, <1>4, <1>5, <1>6, <1>7, <1>8, <1>9, <1>10 DEF Next, SaveStep, Command

-----------------------------------------------------------------------------
(* Removals nobody disputes.                                               *)

\* Fewer removals to keep, the same files, fewer who save.
LEMMA LessToKeep ==
    ASSUME NoSure, Sure' \subseteq Sure, UNCHANGED fileVars,
           \A w \in Writer : /\ Saving(w)' => Saving(w) /\ set'[w] = set[w]
                             /\ pc'[w] \in {"write", "rename"} => pc[w] \in {"write", "rename"}
                             /\ op'[w].kind = "export" => \/ op'[w] = op[w]
                                                          \/ op'[w].name \notin Sure'
    PROVE  NoSure'
  <1>1. Writing' => Writing
    BY DEF Writing
  <1>2. (Clean(file) => Clean(file)') /\ (Clean(temp) => Clean(temp)')
    BY DEF Clean
  <1>. QED  BY <1>1, <1>2 DEF NoSure

\* A reported removal is sure only of who saved alone, and nobody exports.
LEMMA SucceedSure ==
    ASSUME IInv, NEW w \in Writer, NEW u \in BOOLEAN, Succeed(w, u)
    PROVE  \/ Sure' \subseteq Sure
           \/ /\ op[w].kind = "remove" /\ u /\ NobodyExports(w)
              /\ Sure' = Sure \cup {op[w].name}
  <1>1. CASE op[w].kind # "remove"
    BY <1>1 DEF Succeed, Sure
  <1>2. CASE op[w].kind = "remove"
    BY <1>2 DEF Succeed, Sure
  <1>. QED  BY <1>1, <1>2

LEMMA NextNoSure == IInv /\ AInv /\ NoSure /\ [Next]_vars => NoSure'
  <1>. SUFFICES ASSUME IInv, AInv, NoSure, [Next]_vars PROVE NoSure'
    OBVIOUS
  <1>. USE DEF Saving
  <1>0. /\ Cli \subseteq Writer /\ Daemon \in Writer /\ Daemon \notin Cli /\ Nobody \notin Writer
        /\ Writer = Cli \cup {Daemon}
    BY SpokesAssumption DEF Writer
  <1>a. Loaded \cap Sure = {} /\ Loaded \subseteq Spoke
    BY LoadedType DEF NoSure, Clean, Loaded, IInv, TypeOK
  <1>1. ASSUME NEW c \in Cli, NEW n \in Spoke, NEW kind \in {"export", "remove"}, Ask(c, kind, n)
        PROVE  NoSure'
    <2>1. Sure' \subseteq Sure /\ (kind = "export" => n \notin Sure')
      BY <1>1 DEF Ask, Sure
    <2>2. /\ op'[c] = [kind |-> kind, name |-> n] /\ pc'[c] = "load"
          /\ \A w \in Writer \ {c} : op'[w] = op[w] /\ pc'[w] = pc[w]
          /\ UNCHANGED <<fileVars, set, fd>>
      BY <1>0, <1>1 DEF Ask, IInv, TypeOK
    <2>. QED  BY <2>1, <2>2, LessToKeep
  <1>2. ASSUME NEW c \in Cli, LoadAndChange(c) PROVE NoSure'
    <2>1. pc[c] = "load" /\ UNCHANGED <<fileVars, fd>>
      BY <1>2 DEF LoadAndChange
    <2>2. ASSUME Changed(c) = Loaded, Succeed(c, Undisturbed(c)) PROVE NoSure'
      <3>1. /\ pc'[c] = "idle" /\ op'[c] = NoOp
            /\ \A w \in Writer \ {c} : pc'[w] = pc[w] /\ set'[w] = set[w] /\ op'[w] = op[w]
        BY <1>0, <2>2 DEF Succeed, IInv, TypeOK
      <3>2. CASE Sure' \subseteq Sure
        BY <2>1, <3>1, <3>2, LessToKeep DEF NoOp
      <3>3. CASE /\ op[c].kind = "remove" /\ Undisturbed(c) /\ NobodyExports(c)
                 /\ Sure' = Sure \cup {op[c].name}
        <4>1. \A w \in Writer : pc'[w] \notin {"open", "write", "rename"}
          BY <3>1, <3>3 DEF Undisturbed
        <4>2. Clean(file)'
          <5>1. op[c].name \notin Loaded
            BY <2>2, <3>3 DEF Changed
          <5>2. file # Missing => Loaded = Range(file)
            BY DEF Loaded
          <5>. QED  BY <1>a, <2>1, <3>3, <5>1, <5>2 DEF Clean
        <4>3. \A w \in Writer : op'[w].kind = "export" => op'[w].name \notin Sure'
          <5>. SUFFICES ASSUME NEW w \in Writer, op'[w].kind = "export"
                        PROVE  op'[w].name \notin Sure'
            OBVIOUS
          <5>1. w # c /\ op'[w] = op[w] /\ op[w].kind = "export"
            BY <3>1 DEF NoOp
          <5>2. op[w] \in [kind: {"export", "remove", "none"}, name: Spoke]
            BY DEF IInv, TypeOK
          <5>3. op[w] = [kind |-> "export", name |-> op[w].name]
            BY <5>1, <5>2
          <5>4. op[w].name # op[c].name
            BY <3>3, <5>1, <5>3 DEF NobodyExports
          <5>. QED  BY <3>3, <5>1, <5>4 DEF NoSure
        <4>. QED  BY <4>1, <4>2, <4>3 DEF NoSure, Writing
      <3>. QED  BY <1>0, <2>2, <3>2, <3>3, SucceedSure DEF Undisturbed
    <2>3. ASSUME set' = [set EXCEPT ![c] = Changed(c)],
                 pc' = [pc EXCEPT ![c] = "open"],
                 UNCHANGED <<op, removals>>
          PROVE  NoSure'
      <3>1. /\ pc'[c] = "open" /\ set'[c] = Changed(c) /\ Sure' = Sure
            /\ \A w \in Writer \ {c} : pc'[w] = pc[w] /\ set'[w] = set[w]
        BY <1>0, <2>3 DEF IInv, TypeOK, Sure
      <3>2. Changed(c) \cap Sure = {}
        BY <1>0, <1>a DEF Changed, NoSure
      <3>3. Clean(file)' /\ (Writing' => Clean(temp)')
        BY <2>1, <3>1 DEF NoSure, Clean, Writing
      <3>4. \A w \in Writer : Saving(w)' => set'[w] \cap Sure' = {}
        BY <3>1, <3>2 DEF NoSure
      <3>. QED  BY <2>3, <3>1, <3>3, <3>4 DEF NoSure
    <2>. QED  BY <1>2, <2>2, <2>3 DEF LoadAndChange
  <1>3. ASSUME NEW w \in Writer, OpenTmp(w) PROVE NoSure'
    <2>1. /\ temp' = <<>> /\ UNCHANGED <<file, op, set>> /\ Sure' = Sure
          /\ \A v \in Writer : Saving(v)' => Saving(v)
      BY <1>3 DEF OpenTmp, Sure, IInv, TypeOK
    <2>2. Range(temp') = {}
      BY <2>1 DEF Range
    <2>3. Clean(file)' /\ Clean(temp)'
      BY <2>1, <2>2 DEF NoSure, Clean
    <2>. QED  BY <2>1, <2>3 DEF NoSure
  <1>4. ASSUME NEW w \in Writer, Write(w) PROVE NoSure'
    <2>1. /\ Saving(w) /\ Writing /\ UNCHANGED <<op, set>> /\ Sure' = Sure
          /\ \A v \in Writer : Saving(v)' => Saving(v)
      BY <1>4 DEF Write, Writing, Sure, IInv, TypeOK
    <2>2. set[w] \cap Sure = {} /\ Clean(temp) /\ Clean(file)
      BY <2>1 DEF NoSure
    <2>3. Clean(temp)'
      BY <1>4, <2>1, <2>2, WriteFile DEF Clean
    <2>4. Clean(file)'
      BY <1>4, <2>1, <2>2, WriteFile DEF Clean
    <2>. QED  BY <2>1, <2>3, <2>4 DEF NoSure
  <1>5. ASSUME NEW w \in Writer, Rename(w) PROVE NoSure'
    <2>1. /\ Saving(w) /\ Writing /\ pc'[w] = "idle" /\ op'[w] = NoOp
          /\ \A v \in Writer \ {w} : pc'[v] = pc[v] /\ set'[v] = set[v] /\ op'[v] = op[v]
      BY <1>5 DEF Rename, Succeed, Writing, IInv, TypeOK
    <2>2. temp # Missing /\ file' = temp /\ temp' = Missing
      BY <1>5 DEF Rename
    <2>4. Clean(temp)'
      BY <2>2 DEF Clean
    <2>5. CASE Sure' \subseteq Sure
      <3>1. Clean(file)'
        BY <2>1, <2>2, <2>5 DEF NoSure, Clean
      <3>2. \A v \in Writer : (Saving(v)' \/ op'[v].kind = "export") => v # w
        BY <2>1 DEF NoOp
      <3>. QED  BY <2>1, <2>4, <2>5, <3>1, <3>2 DEF NoSure
    <2>6. CASE /\ op[w].kind = "remove" /\ alone = w /\ NobodyExports(w)
               /\ Sure' = Sure \cup {op[w].name}
      <3>1. w \in Cli
        BY <1>0, <2>6 DEF AInv, DaemonUnasked, NoOp
      <3>2. \A v \in Writer : pc'[v] \notin {"open", "write", "rename"}
        BY <1>0, <2>1, <2>6 DEF AInv, AloneIsAlone, Undisturbed
      <3>3. Loaded' = Loaded \ {op[w].name}
        BY <1>5, <2>6, <3>1, RenameLoads DEF AInv, AloneSet, Changed
      <3>4. Clean(file)'
        <4>1. Loaded' = Range(file')
          BY <2>2 DEF Loaded
        <4>. QED  BY <1>a, <2>6, <3>3, <4>1 DEF Clean
      <3>5. \A v \in Writer : op'[v].kind = "export" => op'[v].name \notin Sure'
        <4>. SUFFICES ASSUME NEW v \in Writer, op'[v].kind = "export"
                      PROVE  op'[v].name \notin Sure'
          OBVIOUS
        <4>1. v # w /\ op'[v] = op[v] /\ op[v].kind = "export"
          BY <2>1 DEF NoOp
        <4>2. op[v] \in [kind: {"export", "remove", "none"}, name: Spoke]
          BY DEF IInv, TypeOK
        <4>3. op[v] = [kind |-> "export", name |-> op[v].name]
          BY <4>1, <4>2
        <4>4. op[v].name # op[w].name
          BY <2>6, <4>1, <4>3 DEF NobodyExports
        <4>. QED  BY <2>6, <4>1, <4>4 DEF NoSure
      <3>. QED  BY <3>2, <3>4, <3>5 DEF NoSure, Writing
    <2>7. Succeed(w, alone = w) /\ (alone = w) \in BOOLEAN
      BY <1>5 DEF Rename
    <2>. QED  BY <2>5, <2>6, <2>7, SucceedSure
  <1>6. ASSUME NEW w \in Writer, GiveUp(w) PROVE NoSure'
    <2>1. /\ pc'[w] = "idle" /\ op'[w] = NoOp /\ UNCHANGED fileVars /\ Sure' = Sure
          /\ \A v \in Writer \ {w} : pc'[v] = pc[v] /\ set'[v] = set[v] /\ fd'[v] = fd[v]
                                                     /\ op'[v] = op[v]
      BY <1>6 DEF GiveUp, Sure, IInv, TypeOK
    <2>. QED  BY <2>1, LessToKeep DEF NoOp
  <1>7. CASE Start \/ Crash \/ Reload \/ ReloadFails \/ PassFails \/ Apply
    <2>1. /\ UNCHANGED <<fileVars, op>> /\ Sure' = Sure
          /\ ~Saving(Daemon)'
          /\ \A v \in Writer \ {Daemon} : pc'[v] = pc[v] /\ set'[v] = set[v] /\ fd'[v] = fd[v]
      BY <1>0, <1>7
      DEF Start, Crash, Reload, ReloadFails, PassFails, Apply, Sure, IInv, TypeOK
    <2>. QED  BY <2>1, LessToKeep
  <1>8. CASE Evict
    <2>1. /\ UNCHANGED <<fileVars, op, fd>> /\ pc[Daemon] = "tick"
          /\ set'[Daemon] = set[Daemon] \ Silent /\ pc'[Daemon] \in {"idle", "open"}
          /\ \A v \in Writer \ {Daemon} : pc'[v] = pc[v] /\ set'[v] = set[v]
      BY <1>0, <1>8 DEF Evict, IInv, TypeOK
    <2>2. Sure' \subseteq Sure
      BY <1>8 DEF Evict, Sure
    <2>3. pc'[Daemon] = "open" => set'[Daemon] \cap Sure' = {}
      <3>. SUFFICES ASSUME pc'[Daemon] = "open" PROVE set[Daemon] \cap Sure' = {}
        BY <2>1
      <3>1. CASE behind
        <4>1. Silent # {}
          BY <1>0, <1>8 DEF Evict, IInv, TypeOK
        <4>. QED  BY <1>8, <3>1, <4>1 DEF Evict, Sure
      <3>2. CASE ~behind
        BY <1>a, <2>1, <2>2, <3>2 DEF AInv, AloneSet
      <3>. QED  BY <3>1, <3>2
    <2>4. Clean(file)' /\ (Writing' => Clean(temp)')
      BY <2>1, <2>2 DEF NoSure, Clean, Writing
    <2>5. \A v \in Writer : Saving(v)' => set'[v] \cap Sure' = {}
      BY <2>1, <2>2, <2>3 DEF NoSure
    <2>6. op' = op
      BY <2>1
    <2>. QED  BY <2>2, <2>4, <2>5, <2>6 DEF NoSure
  <1>9. ASSUME NEW n \in Spoke, Connects(n) \/ GoesSilent(n) PROVE NoSure'
    <2>1. UNCHANGED <<fileVars, pc, op, set, fd>> /\ Sure' = Sure
      BY <1>9 DEF Connects, GoesSilent, Sure
    <2>. QED  BY <2>1, LessToKeep
  <1>10. CASE UNCHANGED vars
    <2>1. UNCHANGED <<fileVars, pc, op, set, fd>> /\ Sure' = Sure
      BY <1>10 DEF vars, Sure
    <2>. QED  BY <2>1, LessToKeep
  <1>. QED
    BY <1>1, <1>2, <1>3, <1>4, <1>5, <1>6, <1>7, <1>8, <1>9, <1>10 DEF Next, SaveStep, Command

LEMMA SpokesInv == Spec => [](IInv /\ AInv /\ NoSure)
  BY InitIInv, NextIInv, InitAInv, NextAInv, NextNoSure, PTL DEF Spec

(***************************************************************************)
(* Beside any number of commands and a daemon that evicts, fails to read   *)
(* the list and is killed, with one temporary shared by all of them: a     *)
(* name whose removal was reported as done is loaded by no later pass,     *)
(* unless it was exported again, somebody else was saving or exporting it  *)
(* at the same time, or the daemon then saved a list it had read before    *)
(* (main.go:361, daemon.go:319-354, spokes.go:35-88).                      *)
(***************************************************************************)
THEOREM RemovedStaysOut == Spec => RemovalSticks
  <1>1. ASSUME IInv, NoSure, Reload PROVE set'[Daemon] \cap revoked \subseteq disputed
    <2>1. set'[Daemon] = Loaded
      BY <1>1 DEF Reload, IInv, TypeOK, Writer
    <2>2. Loaded \cap Sure = {}
      BY <1>1 DEF NoSure, Clean, Loaded
    <2>. QED  BY <2>1, <2>2 DEF Sure
  <1>2. IInv /\ AInv /\ NoSure /\ [Next]_vars
            => [Reload => set'[Daemon] \cap revoked \subseteq disputed]_vars
    BY <1>1
  <1>. QED  BY <1>2, SpokesInv, PTL DEF Spec, RemovalSticks

(***************************************************************************)
(* Beside any number of commands: the save of a pass takes just the spokes *)
(* off the list that had connected and were silent when the pass looked,   *)
(* unless the list could not be read, or somebody else changed it or was   *)
(* saving it, since the pass read it (daemon.go:331-354).                  *)
(***************************************************************************)
THEOREM NeverConnectedStays == Spec => OnlySilentEvicted
  <1>1. ASSUME IInv, AInv, Rename(Daemon), alone = Daemon, ~behind
        PROVE  Loaded \ Loaded' = Loaded \cap quiet
    <2>1. Loaded' = set[Daemon]
      BY <1>1, RenameLoads DEF Writer
    <2>2. set[Daemon] = Loaded \ quiet
      BY <1>1 DEF AInv, AloneSet
    <2>. QED  BY <2>1, <2>2
  <1>2. IInv /\ AInv /\ NoSure /\ [Next]_vars
            => [Rename(Daemon) /\ alone = Daemon /\ ~behind
                    => Loaded \ Loaded' = Loaded \cap quiet]_vars
    BY <1>1
  <1>. QED  BY <1>2, SpokesInv, PTL DEF Spec, OnlySilentEvicted
-----------------------------------------------------------------------------
(* The list as a whole.                                                    *)

\* Unless saves overlap the list changes in renames only, to what is saved.
LEMMA ListChanges ==
    ASSUME IInv, AInv, ~Overlap, [Next]_vars
    PROVE  Loaded' = Loaded \/ \E w \in Writer : Saving(w) /\ alone = w /\ Loaded' = set[w]
  <1>1. ASSUME NEW w \in Writer, Rename(w) PROVE Saving(w) /\ alone = w /\ Loaded' = set[w]
    <2>1. Saving(w) /\ alone = w
      BY <1>1 DEF Rename, Overlap, Saving
    <2>. QED  BY <1>1, <2>1, RenameLoads
  <1>2. ASSUME NEW w \in Writer, Write(w) PROVE Loaded' = Loaded
    <2>1. alone = w /\ alone # Nobody
      BY <1>2, SpokesAssumption DEF Write, Overlap, Saving, Writer
    <2>2. fd[w] = "temp"
      BY <1>2, <2>1 DEF Write, AInv, AloneFile
    <2>. QED  BY <1>2, <2>2, WriteHidden
  <1>3. ASSUME NEW w \in Writer, OpenTmp(w) \/ GiveUp(w) PROVE Loaded' = Loaded
    BY <1>3 DEF OpenTmp, GiveUp, Loaded
  <1>4. ASSUME NEW c \in Cli, Command(c) PROVE Loaded' = Loaded
    BY <1>4 DEF Command, Ask, LoadAndChange, Loaded
  <1>5. CASE \/ Start \/ Crash \/ Reload \/ ReloadFails \/ Apply \/ PassFails \/ Evict
             \/ UNCHANGED vars
    BY <1>5 DEF Start, Crash, Reload, ReloadFails, Apply, PassFails, Evict, vars, Loaded
  <1>6. ASSUME NEW n \in Spoke, Connects(n) \/ GoesSilent(n) PROVE Loaded' = Loaded
    BY <1>6 DEF Connects, GoesSilent, Loaded
  <1>. QED  BY <1>1, <1>2, <1>3, <1>4, <1>5, <1>6 DEF Next, SaveStep

(***************************************************************************)
(* Beside any number of commands and a daemon that evicts, the list        *)
(* changes only to something that, as a whole, was handed to SaveSpokes,   *)
(* through every kill of a writer and every failed write, unless two saves *)
(* overlapped: the temporary is empty when it is written, whatever was     *)
(* left there, and whole when it is renamed (spokes.go:35-57).             *)
(***************************************************************************)
THEOREM ListIsWhole == Spec => SavesAreAtomic
  <1>1. IInv /\ AInv /\ NoSure /\ [Next]_vars
            => [Loaded' # Loaded /\ ~Overlap
                    => \E w \in Writer : Saving(w) /\ Loaded' = set[w]]_vars
    BY ListChanges
  <1>. QED  BY <1>1, SpokesInv, PTL DEF Spec, SavesAreAtomic

(***************************************************************************)
(* Beside any number of commands and a daemon that evicts, the             *)
(* load-change-save sequences, seen through LoadSpokes, implement          *)
(* SpokeSet: a rename is one export, one removal or one eviction of all    *)
(* the silent, and every other step, a kill included, changes nothing.     *)
(* This is unless saves overlap, or the daemon saves what it read before   *)
(* others changed the list (spokes.go:35-88, daemon.go:331-354).           *)
(***************************************************************************)
THEOREM ImplementsList == Spec => IsAList
  <1>. DEFINE contended == Overlap \/ (Saving(Daemon) /\ behind)
  <1>1. IInv => List!TypeOK
    <2>1. contended \in BOOLEAN
      BY DEF Overlap, Saving
    <2>. QED  BY <2>1, LoadedType DEF IInv, TypeOK, List!TypeOK
  <1>2. ASSUME IInv, AInv, IInv', [Next]_vars PROVE List!Next
    <2>1. List!TypeOK'
      BY <1>1, <1>2, PTL
    <2>2. ASSUME ~contended, NEW w \in Writer, Saving(w), alone = w, Loaded' = set[w]
          PROVE  List!Next
      <3>1. CASE w \in Cli
        <4>1. op[w].name \in Spoke
          BY <1>2 DEF IInv, TypeOK
        <4>2. Loaded' = Loaded \cup {op[w].name} \/ Loaded' = Loaded \ {op[w].name}
          BY <1>2, <2>2, <3>1 DEF AInv, AloneSet, Changed
        <4>. QED  BY <2>1, <4>1, <4>2 DEF List!Next, List!Export, List!Remove
      <3>2. CASE w = Daemon
        <4>1. Loaded' = Loaded \ quiet
          BY <1>2, <2>2, <3>2 DEF AInv, AloneSet
        <4>. QED  BY <2>1, <4>1 DEF List!Next, List!Evict
      <3>. QED  BY <3>1, <3>2 DEF Writer
    <2>3. contended => List!Next
      BY <2>1 DEF List!Next
    <2>4. Loaded' = Loaded => List!Next
      BY <2>1 DEF List!Next, List!Elsewhere
    <2>. QED  BY <1>2, <2>2, <2>3, <2>4, ListChanges
  <1>3. IInv /\ IInv' /\ AInv /\ NoSure /\ [Next]_vars => [List!Next]_(List!vars)
    BY <1>2
  <1>4. IInv => List!Init
    BY <1>1 DEF List!Init
  <1>. QED  BY <1>3, <1>4, SpokesInv, InitIInv, PTL DEF Spec, IsAList, List!Spec
=============================================================================
