-------------------------- MODULE FolderCacheProofs --------------------------
(* Theorems about FolderCache, for any number of agents and keys.          *)
EXTENDS FolderCache, SequenceTheorems, NaturalsInduction, WellFoundedInduction, TLAPS

USE ConstantsAssumption

-----------------------------------------------------------------------------
(* The lock.                                                               *)

LockTypeOK ==
    /\ at \in [Agents -> PCs]
    /\ lock \in [Agents -> {"free", "shared", "exclusive"}]

\* The lock that an agent has at each step of an operation.
NeedOf(label) ==
    IF label \in {"lookup", "copy"} THEN "shared"
    ELSE IF label \in {"merge", "remove", "rmtree"} THEN "exclusive"
    ELSE "free"

\* Of the whole state, only these two variables matter to who has the lock.
LockInv ==
    /\ LockTypeOK /\ HeldInUse
    /\ \A a \in Agents : lock[a] = NeedOf(at[a])

\* The three things a step can do with the lock: keep what the next label
\* needs, let go, or take what the next label needs.
KeepsNeed(a) ==
    /\ \E to \in PCs : at' = [at EXCEPT ![a] = to] /\ NeedOf(to) = NeedOf(at[a])
    /\ lock' = lock

LetsGo(a) ==
    /\ \E to \in PCs : at' = [at EXCEPT ![a] = to] /\ NeedOf(to) = "free"
    /\ Release(a)

Takes(a) ==
    \E to \in PCs :
        /\ at' = [at EXCEPT ![a] = to]
        /\ NeedOf(to) # "free"
        /\ Acquire(a, NeedOf(to))

LEMMA NeedKept ==
  ASSUME LockInv, NEW a \in Agents, KeepsNeed(a) \/ LetsGo(a) \/ Takes(a)
  PROVE  LockInv'
  <1>1. PICK to \in PCs : at' = [at EXCEPT ![a] = to]
    BY DEF KeepsNeed, LetsGo, Takes
  <1>2. CASE KeepsNeed(a)
    BY <1>2 DEF KeepsNeed, LockInv, LockTypeOK, HeldInUse, NeedOf
  <1>3. CASE LetsGo(a)
    BY <1>3 DEF LetsGo, Release, LockInv, LockTypeOK, HeldInUse, NeedOf
  <1>4. CASE Takes(a)
    BY <1>4 DEF Takes, Acquire, LockInv, LockTypeOK, HeldInUse, NeedOf
  <1> QED BY <1>2, <1>3, <1>4

\* Every step of an agent is one of the three.
LEMMA CopyStepLock ==
  ASSUME LockInv, NEW a \in Agents, CopyStep(a)
  PROVE  KeepsNeed(a) \/ LetsGo(a) \/ Takes(a)
  <1> USE DEF LockInv, LockTypeOK, PCs, Copying, Adding
  <1>1. CASE LockCopy(a)
    BY <1>1 DEF LockCopy, Step, Done, LockTimeout, KeepsNeed, Takes, NeedOf
  <1>2. CASE Lookup(a)
    BY <1>2 DEF Lookup, Step, KeepsNeed, NeedOf
  <1>3. CASE NotCached(a) \/ CopyTree(a) \/ CopyFails(a)
    BY <1>3 DEF NotCached, CopyTree, CopyFails, Done, Step, LetsGo, NeedOf
  <1> QED BY <1>1, <1>2, <1>3 DEF CopyStep

LEMMA AddStepLock ==
  ASSUME LockInv, NEW a \in Agents, AddStep(a)
  PROVE  KeepsNeed(a) \/ LetsGo(a) \/ Takes(a)
  <1> USE DEF LockInv, LockTypeOK, PCs, Copying, Adding
  <1>1. CASE Find(a) \/ Touch(a)
    BY <1>1 DEF Find, Touch, Step, Done, work, KeepsNeed, NeedOf
  <1>2. CASE LockMerge(a) \/ LockRemove(a)
    BY <1>2 DEF LockMerge, LockRemove, Step, Done, LockTimeout, KeepsNeed,
                Takes, NeedOf
  <1>3. CASE Merge(a)
    BY <1>3 DEF Merge, Step, Done, LetsGo, NeedOf
  <1>4. CASE List(a) \/ ListRaises(a) \/ Clear(a)
    BY <1>4 DEF List, ListRaises, Clear, Step, Done, KeepsNeed, NeedOf
  <1>5. CASE RemoveEntry(a) \/ RmTree(a)
    BY <1>5 DEF RemoveEntry, RmTree, Step, KeepsNeed, NeedOf
  <1>6. CASE Removed(a)
    BY <1>6 DEF Removed, Step, Done, KeepsNeed, LetsGo, NeedOf
  <1>7. CASE Fill(a) \/ Publish(a) \/ FillFails(a)
    BY <1>7 DEF Fill, Publish, FillFails, Step, Done, KeepsNeed, NeedOf
  <1> QED BY <1>1, <1>2, <1>3, <1>4, <1>5, <1>6, <1>7 DEF AddStep

LEMMA LockStep == LockInv /\ [Next]_vars => LockInv'
  <1> SUFFICES ASSUME LockInv, [Next]_vars PROVE LockInv'
    OBVIOUS
  <1>1. ASSUME NEW a \in Agents, NEW K \in Environments, Copy(a, K) \/ Add(a, K)
        PROVE  LockInv'
    <2>1. KeepsNeed(a)
      BY <1>1 DEF Copy, Add, Step, KeepsNeed, NeedOf, PCs, Copying, Adding
    <2> QED BY <2>1, NeedKept
  <1>2. ASSUME NEW a \in Agents, CopyStep(a) \/ AddStep(a)
        PROVE  LockInv'
    BY <1>2, CopyStepLock, AddStepLock, NeedKept
  <1>3. ASSUME NEW a \in Agents, Crash(a)
        PROVE  LockInv'
    <2>1. "gone" \in PCs /\ NeedOf("gone") = "free"
      BY DEF PCs, NeedOf
    <2>2. LetsGo(a)
      BY <1>3, <2>1 DEF Crash, LetsGo
    <2> QED BY <2>2, NeedKept
  <1>4. CASE UNCHANGED vars
    BY <1>4 DEF vars, LockInv, LockTypeOK, HeldInUse
  <1> QED BY <1>1, <1>2, <1>3, <1>4 DEF Next

\* Any number of agents, entries and crashes: nobody has the lock but for the
\* operations that need it, and who has it exclusively has it alone.
THEOREM LockHeldInUse == Spec => []HeldInUse
  <1>1. Init => LockInv
    BY DEF Init, LockInv, LockTypeOK, HeldInUse, PCs, NeedOf
  <1>2. LockInv => HeldInUse
    BY DEF LockInv
  <1> QED BY <1>1, <1>2, LockStep, PTL DEF Spec

-----------------------------------------------------------------------------
(* The list of the folders.                                                *)

LEMMA LeastPlace ==
  ASSUME NEW S \in SUBSET Nat, S # {}
  PROVE  \E i \in S : \A j \in S : i <= j
  <1>1. \A i, j \in S : j < i \/ i <= j
    OBVIOUS
  <1>2. \E i \in S : \A j \in S : <<j, i>> \notin OpToRel(<, Nat)
    BY NatLessThanWellFounded, WFMin
  <1>3. \A i, j \in S : j < i => <<j, i>> \in OpToRel(<, Nat)
    BY DEF OpToRel
  <1> QED BY <1>1, <1>2, <1>3, Zenon

\* A list without an element that is in it: those behind it move up.
MovedUp(s, at_, r) ==
    /\ Len(r) = Len(s) - 1
    /\ \A i \in 1 .. Len(s) - 1 : r[i] = IF i < at_ THEN s[i] ELSE s[i + 1]

LEMMA WithoutPlace ==
  ASSUME NEW S, NEW s \in Seq(S), NEW e, \E i \in 1 .. Len(s) : s[i] = e
  PROVE  /\ RemoveFirst(s, e) \in Seq(S)
         /\ \E i \in 1 .. Len(s) : s[i] = e /\ MovedUp(s, i, RemoveFirst(s, e))
  <1> DEFINE Places == {i \in 1 .. Len(s) : s[i] = e}
             p == CHOOSE i \in Places : \A j \in Places : i <= j
             before == SubSeq(s, 1, p - 1)
             after == SubSeq(s, p + 1, Len(s))
  <1>1. Places # {} /\ Places \subseteq Nat
    BY LenProperties
  <1>2. \E i \in Places : \A j \in Places : i <= j
    BY <1>1, LeastPlace
  <1>3. p \in Places
    BY <1>2
  <1>4. RemoveFirst(s, e) = before \o after
    BY DEF RemoveFirst, RemoveAt, SelectInSeq, Min
  <1> HIDE DEF p
  <1>5. Len(s) \in Nat /\ p \in 1 .. Len(s) /\ s[p] = e
    BY <1>3, LenProperties
  <1>6. \A i \in 1 .. Len(s) : s[i] \in S
    BY ElementOfSeq
  <1>7. /\ before \in Seq(S) /\ Len(before) = p - 1
        /\ \A i \in 1 .. p - 1 : before[i] = s[i]
    <2>1. \A i \in 1 .. p - 1 : s[i] \in S
      BY <1>5, <1>6
    <2> QED BY <1>5, <2>1, SubSeqProperties
  <1>8. /\ after \in Seq(S) /\ Len(after) = Len(s) - p
        /\ \A i \in 1 .. Len(s) - p : after[i] = s[p + i]
    <2>1. \A i \in p + 1 .. Len(s) : s[i] \in S
      BY <1>5, <1>6
    <2>2. /\ after \in Seq(S)
          /\ Len(after) = IF p + 1 <= Len(s) THEN Len(s) - (p + 1) + 1 ELSE 0
          /\ \A i \in 1 .. Len(s) - (p + 1) + 1 : after[i] = s[p + 1 + i - 1]
      BY <1>5, <2>1, SubSeqProperties
    <2> QED BY <1>5, <2>2
  <1> HIDE DEF before, after
  <1>9. /\ before \o after \in Seq(S)
        /\ Len(before \o after) = Len(s) - 1
        /\ \A i \in 1 .. Len(s) - 1 :
             (before \o after)[i] = IF i <= p - 1 THEN before[i] ELSE after[i - (p - 1)]
    <2>1. /\ before \o after \in Seq(S)
          /\ Len(before \o after) = Len(before) + Len(after)
          /\ \A i \in 1 .. Len(before) + Len(after) :
               (before \o after)[i] =
                  IF i <= Len(before) THEN before[i] ELSE after[i - Len(before)]
      BY <1>7, <1>8, ConcatProperties
    <2>2. Len(before) + Len(after) = Len(s) - 1
      BY <1>5, <1>7, <1>8
    <2> QED BY <1>7, <2>1, <2>2
  <1>10. ASSUME NEW i \in 1 .. Len(s) - 1
         PROVE  (before \o after)[i] = IF i < p THEN s[i] ELSE s[i + 1]
    <2>1. CASE i < p
      BY <1>5, <1>7, <1>9, <2>1
    <2>2. CASE ~ (i < p)
      <3>1. (before \o after)[i] = after[i - (p - 1)]
        BY <1>5, <1>9, <2>2
      <3>2. after[i - (p - 1)] = s[p + (i - (p - 1))] /\ p + (i - (p - 1)) = i + 1
        BY <1>5, <1>8, <2>2
      <3> QED BY <2>2, <3>1, <3>2
    <2> QED BY <2>1, <2>2
  <1> QED BY <1>4, <1>5, <1>9, <1>10 DEF MovedUp

Once(s) == \A i, j \in 1 .. Len(s) : s[i] = s[j] => i = j

LEMMA SetOfList ==
  ASSUME NEW S, NEW s \in Seq(S)
  PROVE  ToSet(s) = {s[i] : i \in 1 .. Len(s)} /\ ToSet(s) \subseteq S
  <1>1. DOMAIN s = 1 .. Len(s) /\ \A i \in 1 .. Len(s) : s[i] \in S
    BY ElementOfSeq, LenProperties
  <1> QED BY <1>1 DEF ToSet

\* The elements of a list without e; each once, if each was there once.
LEMMA WithoutElement ==
  ASSUME NEW S, NEW s \in Seq(S), NEW e
  PROVE  /\ RemoveFirst(s, e) \in Seq(S)
         /\ ToSet(RemoveFirst(s, e)) \subseteq ToSet(s)
         /\ ToSet(s) \ {e} \subseteq ToSet(RemoveFirst(s, e))
         /\ Once(s) => Once(RemoveFirst(s, e)) /\ e \notin ToSet(RemoveFirst(s, e))
  <1> DEFINE r == RemoveFirst(s, e)
  <1>1. CASE ~ \E i \in 1 .. Len(s) : s[i] = e
    <2>1. r = s
      BY <1>1 DEF RemoveFirst
    <2>2. e \notin ToSet(s)
      BY <1>1, SetOfList
    <2> QED BY <2>1, <2>2
  <1>2. CASE \E i \in 1 .. Len(s) : s[i] = e
    <2>1. r \in Seq(S)
      BY <1>2, WithoutPlace
    <2>2. PICK p \in 1 .. Len(s) : s[p] = e /\ MovedUp(s, p, r)
      BY <1>2, WithoutPlace
    <2> HIDE DEF r
    <2>3. Len(s) \in Nat /\ p \in Nat /\ Len(r) = Len(s) - 1
      BY <2>2, LenProperties DEF MovedUp
    <2>4. \A i \in 1 .. Len(r) : r[i] = IF i < p THEN s[i] ELSE s[i + 1]
      BY <2>2, <2>3 DEF MovedUp
    <2>5. ToSet(s) = {s[i] : i \in 1 .. Len(s)} /\ ToSet(r) = {r[i] : i \in 1 .. Len(r)}
      BY <2>1, SetOfList
    <2>6. ToSet(r) \subseteq ToSet(s)
      <3>1. ASSUME NEW i \in 1 .. Len(r) PROVE \E j \in 1 .. Len(s) : r[i] = s[j]
        <4>1. i \in 1 .. Len(s) /\ i + 1 \in 1 .. Len(s)
          BY <2>3
        <4> QED BY <2>4, <4>1
      <3> QED BY <2>5, <3>1
    <2>7. ToSet(s) \ {e} \subseteq ToSet(r)
      <3>1. ASSUME NEW j \in 1 .. Len(s), s[j] # e PROVE \E i \in 1 .. Len(r) : r[i] = s[j]
        <4>1. CASE j < p
          <5>1. j \in 1 .. Len(r)
            BY <2>3, <4>1
          <5> QED BY <2>4, <4>1, <5>1
        <4>2. CASE j > p
          <5>1. j - 1 \in 1 .. Len(r) /\ ~ (j - 1 < p) /\ (j - 1) + 1 = j
            BY <2>3, <4>2
          <5>2. r[j - 1] = s[(j - 1) + 1]
            BY <2>4, <5>1
          <5> QED BY <5>1, <5>2
        <4> QED BY <2>2, <2>3, <3>1, <4>1, <4>2
      <3> QED BY <2>5, <3>1
    <2>8. ASSUME Once(s) PROVE Once(r) /\ e \notin ToSet(r)
      <3> DEFINE from(i) == IF i < p THEN i ELSE i + 1
      <3>1. \A i \in 1 .. Len(r) : r[i] = s[from(i)] /\ from(i) \in 1 .. Len(s) /\ from(i) # p
        BY <2>3, <2>4
      <3>2. \A i, j \in 1 .. Len(r) : from(i) = from(j) => i = j
        BY <2>3
      <3> HIDE DEF from
      <3>3. Once(r)
        BY <2>8, <3>1, <3>2 DEF Once
      <3>4. \A i \in 1 .. Len(r) : r[i] # e
        BY <2>2, <2>8, <3>1 DEF Once
      <3> QED BY <2>5, <3>3, <3>4
    <2> QED BY <2>1, <2>6, <2>7, <2>8 DEF r
  <1> QED BY <1>1, <1>2

\* A list with e put in front.
LEMMA WithFront ==
  ASSUME NEW S, NEW s \in Seq(S), NEW e \in S
  PROVE  /\ <<e>> \o s \in Seq(S)
         /\ ToSet(<<e>> \o s) = ToSet(s) \cup {e}
         /\ Once(s) /\ e \notin ToSet(s) => Once(<<e>> \o s)
  <1> DEFINE r == <<e>> \o s
  <1>1. /\ <<e>> \in Seq(S) /\ Len(<<e>>) = 1 /\ <<e>>[1] = e
        /\ Len(s) \in Nat
    BY LenProperties
  <1>2. /\ r \in Seq(S) /\ Len(r) = 1 + Len(s)
        /\ \A i \in 1 .. 1 + Len(s) : r[i] = IF i <= 1 THEN <<e>>[i] ELSE s[i - 1]
    BY <1>1, ConcatProperties
  <1> HIDE DEF r
  <1>3. /\ r[1] = e /\ 1 \in 1 .. Len(r)
        /\ \A i \in 2 .. Len(r) : r[i] = s[i - 1] /\ i - 1 \in 1 .. Len(s)
    BY <1>1, <1>2
  <1>4. \A i \in 1 .. Len(s) : i + 1 \in 2 .. Len(r) /\ r[i + 1] = s[i]
    <2>1. ASSUME NEW i \in 1 .. Len(s) PROVE i + 1 \in 2 .. Len(r) /\ r[i + 1] = s[i]
      <3>1. i + 1 \in 2 .. Len(r) /\ (i + 1) - 1 = i
        BY <1>1, <1>2
      <3>2. r[i + 1] = s[(i + 1) - 1]
        BY <1>3, <3>1
      <3> QED BY <3>1, <3>2
    <2> QED BY <2>1
  <1>5. ToSet(s) = {s[i] : i \in 1 .. Len(s)} /\ ToSet(r) = {r[i] : i \in 1 .. Len(r)}
    BY <1>2, SetOfList
  <1>6. 1 .. Len(r) = {1} \cup (2 .. Len(r)) /\ 2 .. Len(r) \subseteq 1 .. Len(r)
    BY <1>1, <1>2
  <1>7. ToSet(r) = ToSet(s) \cup {e}
    <2>1. ToSet(r) \subseteq ToSet(s) \cup {e}
      BY <1>3, <1>5, <1>6
    <2>2. ToSet(s) \subseteq ToSet(r) /\ e \in ToSet(r)
      BY <1>1, <1>2, <1>3, <1>4, <1>5, <1>6
    <2> QED BY <2>1, <2>2
  <1>8. ASSUME Once(s), e \notin ToSet(s) PROVE Once(r)
    <2>1. \A i \in 2 .. Len(r) : r[i] # e
      BY <1>3, <1>5, <1>8
    <2>2. \A i, j \in 2 .. Len(r) : r[i] = r[j] => i = j
      <3>1. ASSUME NEW i \in 2 .. Len(r), NEW j \in 2 .. Len(r), r[i] = r[j] PROVE i = j
        <4>1. i - 1 = j - 1
          BY <1>3, <1>8, <3>1 DEF Once
        <4> QED BY <4>1
      <3> QED BY <3>1
    <2> QED BY <1>3, <1>6, <2>1, <2>2 DEF Once
  <1> QED BY <1>2, <1>7, <1>8 DEF r

Dirs == {n \in Names : IsDir(n)}

\* Where an agent works on the entry it found.
Sources == {"copy", "touch", "lockMerge", "merge"}

\* What is looked for, renamed or removed has a name.
NamesOK ==
    /\ LockTypeOK
    /\ keys \in [Agents -> SUBSET Keys]
    /\ entry \in [Agents -> SUBSET Keys]
    /\ doomed \in [Agents -> SUBSET Names]
    /\ \A a \in Agents :
         /\ at[a] \in Adding \cup Copying => keys[a] \in Names
         /\ at[a] \in Sources \cup {"rmtree"} => entry[a] \in Names

\* The list holds the folders, each once.
ListOK ==
    /\ kind \in [Names -> Kinds]
    /\ recent \in Seq(Names) /\ Once(recent) /\ ToSet(recent) = Dirs

\* What a step can do to the list: nothing, to put a folder in front, to take
\* out the one that is removed, or to give one a longer name.
ToFront(n) == recent' = Touched(n) /\ Dirs' = Dirs \cup {n}
Dropped(n) == recent' = Without(n) /\ Dirs' = Dirs \ {n}
MovedInto(n, m) ==
    /\ recent' = <<m>> \o RemoveFirst(Without(n), m)
    /\ Dirs' = (Dirs \ {n}) \cup {m}
Renamed(n, m) ==
    /\ recent' = [i \in DOMAIN recent |-> IF recent[i] = n THEN m ELSE recent[i]]
    /\ m \notin Dirs
    /\ \/ n \in Dirs /\ Dirs' = (Dirs \ {n}) \cup {m}
       \/ n \notin Dirs /\ Dirs' = Dirs

Lists(a) ==
    /\ kind' \in [Names -> Kinds]
    /\ \/ UNCHANGED recent /\ Dirs' = Dirs
       \/ \E n \in Names : ToFront(n)
       \/ at[a] = "rmtree" /\ Dropped(entry[a])
       \/ \E n, m \in Names : n \subseteq m /\ (MovedInto(n, m) \/ Renamed(n, m))

LEMMA ListKept ==
  ASSUME NamesOK, ListOK, NEW a \in Agents, Lists(a)
  PROVE  /\ ListOK'
         /\ \A k \in Cached \ Cached' : at[a] = "rmtree" /\ k \in entry[a]
  <1> USE DEF ListOK
  <1>1. ToSet(recent) = Dirs /\ kind' \in [Names -> Kinds]
    BY DEF Lists
  <1>2. CASE UNCHANGED recent /\ Dirs' = Dirs
    BY <1>1, <1>2 DEF Cached, Once
  <1>3. ASSUME NEW n \in Names, ToFront(n)
        PROVE  ListOK' /\ Cached \subseteq Cached'
    <2> DEFINE r == Without(n)
    <2>1. /\ r \in Seq(Names) /\ Once(r) /\ n \notin ToSet(r)
          /\ ToSet(r) = ToSet(recent) \ {n}
      BY WithoutElement DEF Without
    <2> HIDE DEF r
    <2>2. recent' = <<n>> \o r
      BY <1>3 DEF ToFront, Touched, r
    <2>3. /\ recent' \in Seq(Names) /\ Once(recent')
          /\ ToSet(recent') = ToSet(recent) \cup {n}
      BY <2>1, <2>2, WithFront
    <2> QED BY <1>1, <1>3, <2>3 DEF ToFront, Cached, Once
  <1>4. CASE at[a] = "rmtree" /\ Dropped(entry[a])
    <2>1. /\ recent' \in Seq(Names) /\ Once(recent')
          /\ ToSet(recent') = ToSet(recent) \ {entry[a]}
      BY <1>4, WithoutElement DEF Dropped, Without
    <2> QED BY <1>1, <1>4, <2>1 DEF Dropped, Cached, Once
  <1>5. ASSUME NEW n \in Names, NEW m \in Names, n \subseteq m, MovedInto(n, m)
        PROVE  ListOK' /\ Cached \subseteq Cached'
    <2> DEFINE r == Without(n)
               q == RemoveFirst(r, m)
    <2>1. /\ r \in Seq(Names) /\ Once(r) /\ n \notin ToSet(r)
          /\ ToSet(r) = ToSet(recent) \ {n}
      BY WithoutElement DEF Without
    <2> HIDE DEF r
    <2>2. /\ q \in Seq(Names) /\ Once(q) /\ m \notin ToSet(q)
          /\ ToSet(q) = ToSet(r) \ {m}
      BY <2>1, WithoutElement
    <2>3. recent' = <<m>> \o q
      BY <1>5 DEF MovedInto, r
    <2> HIDE DEF q
    <2>4. /\ recent' \in Seq(Names) /\ Once(recent')
          /\ ToSet(recent') = (ToSet(recent) \ {n}) \cup {m}
      BY <2>1, <2>2, <2>3, WithFront
    <2> QED BY <1>1, <1>5, <2>4 DEF MovedInto, Cached, Once
  <1>6. ASSUME NEW n \in Names, NEW m \in Names, n \subseteq m, Renamed(n, m)
        PROVE  ListOK' /\ Cached \subseteq Cached'
    <2>1. /\ Len(recent) \in Nat /\ DOMAIN recent = 1 .. Len(recent)
          /\ \A i \in 1 .. Len(recent) : recent[i] \in Names
      BY ElementOfSeq, LenProperties
    <2>2. recent' = [i \in 1 .. Len(recent) |-> IF recent[i] = n THEN m ELSE recent[i]]
      BY <1>6, <2>1 DEF Renamed
    <2>3. recent' \in Seq(Names) /\ Len(recent') = Len(recent)
      BY <2>1, <2>2, IsASeq, LenProperties
    <2>4. /\ ToSet(recent) = {recent[i] : i \in 1 .. Len(recent)}
          /\ ToSet(recent') = {recent'[i] : i \in 1 .. Len(recent)}
      BY <2>3, SetOfList
    <2>5. \A i \in 1 .. Len(recent) : recent'[i] = IF recent[i] = n THEN m ELSE recent[i]
      BY <2>2
    <2>6. \A i \in 1 .. Len(recent) : recent[i] # m
      BY <1>1, <1>6, <2>4 DEF Renamed
    <2>7. Once(recent')
      BY <2>3, <2>5, <2>6 DEF Once
    <2>8. ToSet(recent') = IF n \in ToSet(recent) THEN (ToSet(recent) \ {n}) \cup {m}
                           ELSE ToSet(recent)
      BY <2>4, <2>5
    <2>9. ToSet(recent') = Dirs'
      BY <1>1, <1>6, <2>8 DEF Renamed
    <2> QED BY <1>1, <1>6, <2>3, <2>7, <2>8, <2>9 DEF Cached, Once
  <1> QED BY <1>2, <1>3, <1>4, <1>5, <1>6 DEF Lists

LEMMA NamesStep ==
  ASSUME NamesOK, ListOK, [Next]_vars
  PROVE  NamesOK'
  <1> USE DEF NamesOK, LockTypeOK, Names, PCs, Copying, Adding, Sources, cache, work,
              Step, Done
  <1>1. ASSUME NEW a \in Agents, NEW K \in Environments, Copy(a, K) \/ Add(a, K)
        PROVE  NamesOK'
    <2>1. K \in Names
      BY ConstantsAssumption
    <2> QED BY <1>1, <2>1 DEF Copy, Add
  <1>2. ASSUME NEW a \in Agents, CopyStep(a) PROVE NamesOK'
    <2>1. CASE LockCopy(a) BY <2>1 DEF LockCopy, Acquire, LockTimeout
    <2>2. CASE Lookup(a) BY <2>2 DEF Lookup, Matches
    <2>3. CASE NotCached(a) BY <2>3 DEF NotCached, Release
    <2>4. CASE CopyTree(a) BY <2>4 DEF CopyTree, Release
    <2>5. CASE CopyFails(a) BY <2>5 DEF CopyFails, Release
    <2> QED BY <1>2, <2>1, <2>2, <2>3, <2>4, <2>5 DEF CopyStep
  <1>3. ASSUME NEW a \in Agents, AddStep(a) PROVE NamesOK'
    <2>1. CASE Find(a) BY <2>1 DEF Find, Matches
    <2>2. CASE Touch(a) BY <2>2 DEF Touch
    <2>3. CASE LockMerge(a) BY <2>3 DEF LockMerge, Acquire, LockTimeout
    <2>4. CASE Merge(a) BY <2>4 DEF Merge, Release
    <2>5. CASE List(a)
      <3>1. Oldest(MaxEntries - 1) \subseteq Names
        BY ElementOfSeq, LenProperties DEF ListOK, Oldest
      <3> HIDE DEF Names
      <3> QED BY <2>5, <3>1 DEF List
    <2>6. CASE ListRaises(a) BY <2>6 DEF ListRaises
    <2>7. CASE LockRemove(a) BY <2>7 DEF LockRemove, Acquire, LockTimeout
    <2>8. CASE RemoveEntry(a) BY <2>8 DEF RemoveEntry
    <2>9. CASE RmTree(a) BY <2>9 DEF RmTree
    <2>10. CASE Removed(a) BY <2>10 DEF Removed, Release
    <2>11. CASE Clear(a)
      <3>1. ToSet(recent) \subseteq Names
        BY SetOfList DEF ListOK
      <3> HIDE DEF Names
      <3> QED BY <2>11, <3>1 DEF Clear
    <2>12. CASE Fill(a) BY <2>12 DEF Fill
    <2>13. CASE Publish(a) BY <2>13 DEF Publish
    <2>14. CASE FillFails(a) BY <2>14 DEF FillFails
    <2> QED BY <1>3, <2>1, <2>2, <2>3, <2>4, <2>5, <2>6, <2>7, <2>8, <2>9, <2>10,
               <2>11, <2>12, <2>13, <2>14
            DEF AddStep
  <1>4. ASSUME NEW a \in Agents, Crash(a) PROVE NamesOK'
    BY <1>4 DEF Crash, Release
  <1>5. CASE UNCHANGED vars
    BY <1>5 DEF vars
  <1> QED BY <1>1, <1>2, <1>3, <1>4, <1>5 DEF Next

\* Steps that touch no entry.
LEMMA SameDirs == UNCHANGED kind => Dirs' = Dirs
  BY DEF Dirs, IsDir

LEMMA StepLists ==
  ASSUME NamesOK, ListOK, NEW a \in Agents,
         \/ \E K \in Environments : Copy(a, K) \/ Add(a, K)
         \/ CopyStep(a) \/ AddStep(a) \/ Crash(a)
  PROVE  Lists(a)
  <1> USE DEF NamesOK, ListOK
  <1>1. CASE UNCHANGED <<kind, recent>>
    BY <1>1, SameDirs DEF Lists
  <1>2. ASSUME NEW n \in Names, recent' = Touched(n), kind' \in [Names -> Kinds],
               kind'[n] \in Folders, \A m \in Names \ {n} : IsDir(m)' <=> IsDir(m)
        PROVE  Lists(a)
    <2>1. Dirs' = Dirs \cup {n}
      BY <1>2 DEF Dirs, IsDir
    <2> QED BY <1>2, <2>1 DEF Lists, ToFront
  <1>3. CASE (\E K \in Environments : Copy(a, K) \/ Add(a, K)) \/ Crash(a)
    BY <1>1, <1>3 DEF Copy, Add, Crash, cache
  <1>4. CASE Lookup(a)
    <2>1. PICK n \in Names : IsDir(n) /\ recent' = Touched(n) /\ UNCHANGED kind
      BY <1>4 DEF Lookup, Matches
    <2> QED BY <1>2, <2>1 DEF IsDir
  <1>5. CASE CopyStep(a)
    BY <1>1, <1>4, <1>5 DEF CopyStep, LockCopy, NotCached, CopyTree, CopyFails, cache
  <1>6. CASE Touch(a)
    <2> DEFINE n == entry[a]
    <2>1. n \in Names
      BY <1>6 DEF Touch, Sources
    <2>2. kind' = [kind EXCEPT ![n] = IF kind[n] = "none" THEN "file" ELSE kind[n]]
      BY <1>6 DEF Touch
    <2>3. kind' \in [Names -> Kinds] /\ \A m \in Names : IsDir(m)' <=> IsDir(m)
      BY <2>1, <2>2 DEF IsDir, Kinds, Folders
    <2>4. CASE IsDir(n)
      <3>1. recent' = Touched(n)
        BY <1>6, <2>4 DEF Touch
      <3>2. kind'[n] \in Folders
        BY <2>1, <2>3, <2>4 DEF IsDir
      <3> QED BY <1>2, <2>1, <2>3, <3>1, <3>2
    <2>5. CASE ~ IsDir(n)
      <3>1. UNCHANGED recent
        BY <1>6, <2>5 DEF Touch
      <3> QED BY <2>3, <3>1 DEF Lists, Dirs
    <2> QED BY <2>4, <2>5
  <1>7. CASE Merge(a)
    <2> DEFINE n == entry[a]
               m == MergedName(a)
    <2>1. n \in Names /\ m \in Names /\ n \subseteq m
      BY <1>7 DEF Merge, Sources, MergedName, Names
    <2>2. CASE kind[n] = "none" \/ (IsDir(n) /\ kind[m] = "file")
      BY <1>1, <1>7, <2>2 DEF Merge, cache
    <2>3. CASE kind[n] # "none" /\ ~ (IsDir(n) /\ kind[m] = "file") /\ IsDir(m)
      <3>1. /\ kind' = [kind EXCEPT ![n] = "none", ![m] = Into(m)]
            /\ recent' = <<m>> \o RemoveFirst(Without(n), m)
        BY <1>7, <2>3 DEF Merge
      <3>2. Into(m) \in Folders
        BY DEF Into, Folders
      <3>3. kind' \in [Names -> Kinds] /\ Dirs' = (Dirs \ {n}) \cup {m}
        BY <2>1, <3>1, <3>2 DEF Dirs, IsDir, Kinds, Folders
      <3> QED BY <2>1, <3>1, <3>3 DEF Lists, MovedInto
    <2>4. CASE kind[n] # "none" /\ ~ (IsDir(n) /\ kind[m] = "file") /\ ~ IsDir(m)
      <3>1. /\ kind' = [kind EXCEPT ![n] = "none", ![m] = kind[n]]
            /\ recent' = [i \in DOMAIN recent |-> IF recent[i] = n THEN m ELSE recent[i]]
        BY <1>7, <2>4 DEF Merge
      <3>2. kind' \in [Names -> Kinds]
        BY <2>1, <3>1 DEF Kinds
      <3>3. CASE IsDir(n)
        <4>1. Dirs' = (Dirs \ {n}) \cup {m} /\ n \in Dirs
          BY <2>1, <2>4, <3>1, <3>3 DEF Dirs, IsDir, Folders
        <4> QED BY <2>1, <2>4, <3>1, <3>2, <4>1 DEF Lists, Renamed, Dirs
      <3>4. CASE ~ IsDir(n)
        <4>1. Dirs' = Dirs /\ n \notin Dirs
          BY <2>1, <2>4, <3>1, <3>4 DEF Dirs, IsDir, Folders
        <4> QED BY <2>1, <2>4, <3>1, <3>2, <4>1 DEF Lists, Renamed, Dirs
      <3> QED BY <3>3, <3>4
    <2> QED BY <2>2, <2>3, <2>4
  <1>8. CASE RemoveEntry(a)
    <2>1. PICK n \in doomed[a] :
            \/ kind' = [kind EXCEPT ![n] = "torn"] /\ recent' = Touched(n)
            \/ UNCHANGED <<kind, recent>>
      BY <1>8 DEF RemoveEntry
    <2>2. n \in Names
      OBVIOUS
    <2>3. CASE kind' = [kind EXCEPT ![n] = "torn"] /\ recent' = Touched(n)
      <3>1. /\ kind' \in [Names -> Kinds] /\ kind'[n] \in Folders
            /\ \A m \in Names \ {n} : IsDir(m)' <=> IsDir(m)
        BY <2>2, <2>3 DEF IsDir, Kinds, Folders
      <3> QED BY <1>2, <2>2, <2>3, <3>1
    <2> QED BY <1>1, <2>1, <2>3
  <1>9. CASE RmTree(a)
    <2> DEFINE n == entry[a]
    <2>1. at[a] = "rmtree" /\ n \in Names
      BY <1>9 DEF RmTree, Step
    <2>2. CASE kind' = [kind EXCEPT ![n] = "none"] /\ recent' = Without(n)
      <3>1. kind' \in [Names -> Kinds] /\ Dirs' = Dirs \ {n}
        BY <2>1, <2>2 DEF Dirs, IsDir, Kinds, Folders
      <3> QED BY <2>1, <2>2, <3>1 DEF Lists, Dropped
    <2>3. CASE kind' = [kind EXCEPT ![n] = "torn"] /\ recent' = Touched(n)
      <3>1. /\ kind' \in [Names -> Kinds] /\ kind'[n] \in Folders
            /\ \A m \in Names \ {n} : IsDir(m)' <=> IsDir(m)
        BY <2>1, <2>3 DEF IsDir, Kinds, Folders
      <3> QED BY <1>2, <2>1, <2>3, <3>1
    <2> QED BY <1>9, <2>2, <2>3 DEF RmTree
  <1>10. CASE Publish(a)
    <2> DEFINE n == keys[a]
               k == IF kind[n] = "none" THEN "whole"
                    ELSE IF kind[n] = "file" THEN "file" ELSE Into(n)
    <2>1. n \in Names
      BY <1>10 DEF Publish, Adding
    <2>2. kind' = [kind EXCEPT ![n] = k] /\ k \in Kinds /\ (kind[n] # "file" => k \in Folders)
      BY <1>10 DEF Publish, Into, Kinds, Folders
    <2>3. /\ kind' \in [Names -> Kinds] /\ kind'[n] = k
          /\ \A m \in Names \ {n} : IsDir(m)' <=> IsDir(m)
      <3> HIDE DEF k, n
      <3> QED BY <2>1, <2>2 DEF IsDir
    <2>4. CASE kind[n] = "file"
      <3>1. kind' = kind
        BY <2>1, <2>2, <2>4
      <3> QED BY <1>1, <1>10, <2>4, <3>1 DEF Publish
    <2>5. CASE kind[n] # "file"
      BY <1>2, <1>10, <2>1, <2>2, <2>3, <2>5 DEF Publish
    <2> QED BY <2>4, <2>5
  <1>11. CASE AddStep(a)
    BY <1>1, <1>6, <1>7, <1>8, <1>9, <1>10, <1>11
       DEF AddStep, Find, LockMerge, List, ListRaises, LockRemove, Removed, Clear,
           Fill, FillFails, cache
  <1> QED BY <1>3, <1>5, <1>11

LEMMA ListInit == Init => NamesOK /\ ListOK
  <1> SUFFICES ASSUME Init PROVE NamesOK /\ ListOK
    OBVIOUS
  <1>1. NamesOK
    BY DEF Init, NamesOK, LockTypeOK, PCs, Copying, Adding, Sources
  <1>2. recent \in Seq(Names)
    BY DEF Init
  <1>3. ToSet(recent) = {} /\ Once(recent)
    <2>1. ToSet(recent) = {recent[i] : i \in 1 .. Len(recent)}
      BY <1>2, SetOfList
    <2>2. 1 .. Len(recent) = {}
      BY DEF Init
    <2> QED BY <2>1, <2>2 DEF Once
  <1>4. kind \in [Names -> Kinds] /\ Dirs = {}
    BY DEF Init, Kinds, Dirs, IsDir, Folders
  <1> QED BY <1>1, <1>2, <1>3, <1>4 DEF ListOK

LEMMA ListStep ==
  ASSUME NamesOK, ListOK, [Next]_vars
  PROVE  /\ ListOK'
         /\ \A k \in Cached \ Cached' :
              \E a \in Agents : at[a] = "rmtree" /\ k \in entry[a]
  <1>1. CASE UNCHANGED vars
    BY <1>1 DEF vars, cache, ListOK, Once, Dirs, IsDir, Cached
  <1>2. ASSUME NEW a \in Agents,
               \/ \E K \in Environments : Copy(a, K) \/ Add(a, K)
               \/ CopyStep(a) \/ AddStep(a) \/ Crash(a)
        PROVE  ListOK' /\ \A k \in Cached \ Cached' : at[a] = "rmtree" /\ k \in entry[a]
    BY <1>2, StepLists, ListKept
  <1> QED BY <1>1, <1>2 DEF Next

\* The list of entries by age names each folder of the cache once, and nothing
\* else, whatever any number of agents add, rename and remove at the same time.
THEOREM FoldersListed == Spec => [](NamesOK /\ ListOK)
  <1>1. NamesOK /\ ListOK /\ [Next]_vars => NamesOK' /\ ListOK'
    BY NamesStep, ListStep
  <1> QED BY <1>1, ListInit, PTL DEF Spec

\* A key is lost only when the entry that has it is removed: never by a rename
\* or an addition, whatever else goes on and whoever is killed.
THEOREM KeysStayCached == Spec => KeysKept
  <1> DEFINE Loss == \A k \in Cached \ Cached' :
                       \E a \in Agents : at[a] = "rmtree" /\ k \in entry[a]
  <1>1. NamesOK /\ ListOK /\ [Next]_vars => [Loss]_vars
    BY ListStep
  <1>2. Spec => [][Loss]_vars
    BY <1>1, FoldersListed, PTL DEF Spec
  <1> QED BY <1>2 DEF KeysKept
-----------------------------------------------------------------------------
(* Copies.                                                                 *)

\* What an agent knows of the entry it copies is so as long as it copies.
CopyOK ==
    /\ torn \in [Agents -> BOOLEAN]
    /\ got \in [Agents -> {"none", "whole", "torn"}]
    /\ \A a \in Agents :
         at[a] = "copy" => /\ IsDir(entry[a])
                           /\ torn[a] <=> kind[entry[a]] = "torn"

CopyInv == LockInv /\ NamesOK /\ ListOK /\ CopyOK

\* Whole or not, a folder stays a folder, and what it is, unless the agent that
\* takes the step has the exclusive lock: an environment that is moved into it
\* replaces none of its files.
LEMMA FolderKept ==
  ASSUME CopyInv, NEW a \in Agents, lock[a] # "exclusive",
         \/ \E K \in Environments : Copy(a, K) \/ Add(a, K)
         \/ CopyStep(a) \/ AddStep(a) \/ Crash(a),
         NEW n \in Names, IsDir(n)
  PROVE  IsDir(n)' /\ (kind'[n] = "torn" <=> kind[n] = "torn")
  <1>1. at[a] \notin {"merge", "remove", "rmtree"} /\ kind \in [Names -> Kinds]
    BY DEF CopyInv, LockInv, NeedOf, ListOK
  <1>2. CASE UNCHANGED kind
    BY <1>2 DEF IsDir
  <1>3. CASE (\E K \in Environments : Copy(a, K) \/ Add(a, K)) \/ CopyStep(a) \/ Crash(a)
    BY <1>2, <1>3 DEF Copy, Add, CopyStep, LockCopy, Lookup, NotCached, CopyTree,
                      CopyFails, Crash, cache
  <1>4. CASE Touch(a)
    <2>1. kind' = [kind EXCEPT ![entry[a]] = IF kind[entry[a]] = "none" THEN "file"
                                             ELSE kind[entry[a]]]
      BY <1>4 DEF Touch
    <2>2. kind'[n] = kind[n]
      BY <1>1, <2>1 DEF IsDir, Folders
    <2> QED BY <2>2 DEF IsDir
  <1>5. CASE Publish(a)
    <2> DEFINE m == keys[a]
    <2>1. kind' = [kind EXCEPT ![m] = IF kind[m] = "none" THEN "whole"
                                      ELSE IF kind[m] = "file" THEN "file" ELSE Into(m)]
      BY <1>5 DEF Publish
    <2>2. kind'[n] = kind[n] \/ (n = m /\ kind'[n] = Into(n))
      BY <1>1, <2>1 DEF IsDir, Folders
    <2> QED BY <2>2 DEF IsDir, Into, Folders
  <1>6. CASE AddStep(a)
    BY <1>1, <1>2, <1>4, <1>5, <1>6
       DEF AddStep, Find, LockMerge, Merge, List, ListRaises, LockRemove,
           RemoveEntry, RmTree, Removed, Clear, Fill, FillFails, Step, cache
  <1> QED BY <1>3, <1>6

\* A step of an agent changes what that agent copies, and no other's.
Others(a) ==
    \A b \in Agents \ {a} :
        at'[b] = at[b] /\ entry'[b] = entry[b] /\ torn'[b] = torn[b] /\ got'[b] = got[b]

\* It may begin to copy, or end with a copy that it has not had before.
Begins(a) ==
    /\ IsDir(entry'[a]) /\ UNCHANGED kind
    /\ torn'[a] <=> kind[entry'[a]] = "torn"

Ends(a) ==
    got[a] # "torn" /\ got'[a] = "torn" =>
        at[a] = "copy" /\ (torn[a] \/ kind[entry[a]] \notin {"whole", "nested"})

LEMMA CopiesOnly ==
  ASSUME CopyInv, NEW a \in Agents,
         \/ \E K \in Environments : Copy(a, K) \/ Add(a, K)
         \/ CopyStep(a) \/ AddStep(a) \/ Crash(a)
  PROVE  /\ torn' \in [Agents -> BOOLEAN]
         /\ got' \in [Agents -> {"none", "whole", "torn"}]
         /\ Others(a) /\ Ends(a)
         /\ at'[a] = "copy" => Begins(a)
  <1> USE DEF CopyInv, CopyOK, NamesOK, LockTypeOK, Others, Ends
  <1>1. ASSUME NEW from, NEW copy \in {"none", "whole"}, Done(a, from, copy)
        PROVE  /\ torn' \in [Agents -> BOOLEAN]
               /\ got' \in [Agents -> {"none", "whole", "torn"}]
               /\ Others(a) /\ Ends(a) /\ at'[a] # "copy"
    BY <1>1 DEF Done, Step
  <1>2. ASSUME NEW to, to # "copy", at' = [at EXCEPT ![a] = to],
               UNCHANGED <<torn, got>>,
               \E x : entry' = [entry EXCEPT ![a] = x] \/ entry' = entry
        PROVE  /\ torn' \in [Agents -> BOOLEAN]
               /\ got' \in [Agents -> {"none", "whole", "torn"}]
               /\ Others(a) /\ Ends(a) /\ at'[a] # "copy"
    BY <1>2
  <1>3. ASSUME NEW K \in Environments, Copy(a, K) \/ Add(a, K)
        PROVE  /\ torn' \in [Agents -> BOOLEAN]
               /\ got' \in [Agents -> {"none", "whole", "torn"}]
               /\ Others(a) /\ Ends(a) /\ at'[a] # "copy"
    BY <1>3 DEF Copy, Add, Step
  <1>4. CASE Lookup(a)
    <2>1. PICK n \in Matches(a) :
            /\ Step(a, "lookup", "copy")
            /\ entry' = [entry EXCEPT ![a] = n]
            /\ torn' = [torn EXCEPT ![a] = kind[n] = "torn"]
            /\ UNCHANGED <<kind, got>>
      BY <1>4 DEF Lookup
    <2>2. IsDir(n)
      BY <2>1 DEF Matches
    <2>3. entry'[a] = n /\ (torn'[a] <=> kind[n] = "torn")
      BY <2>1
    <2>4. torn' \in [Agents -> BOOLEAN]
      BY <2>1
    <2>5. Others(a) /\ Ends(a)
      BY <2>1 DEF Step
    <2> QED BY <2>1, <2>2, <2>3, <2>4, <2>5 DEF Begins
  <1>5. CASE CopyTree(a)
    <2> DEFINE copy == IF torn[a] \/ kind[entry[a]] \notin {"whole", "nested"}
                       THEN "torn" ELSE "whole"
    <2>1. Done(a, "copy", copy)
      BY <1>5 DEF CopyTree
    <2>2. CASE copy = "whole"
      BY <1>1, <2>1, <2>2
    <2>3. CASE copy = "torn" /\ (torn[a] \/ kind[entry[a]] \notin {"whole", "nested"})
      BY <2>1, <2>3 DEF Done, Step
    <2> QED BY <2>2, <2>3
  <1>6. CASE LockCopy(a)
    BY <1>1, <1>2, <1>6 DEF LockCopy, Step, work
  <1>7. CASE CopyStep(a)
    BY <1>1, <1>4, <1>5, <1>6, <1>7 DEF CopyStep, NotCached, CopyFails
  <1>8. CASE Find(a) \/ LockMerge(a) \/ List(a) \/ Fill(a)
    BY <1>1, <1>2, <1>8 DEF Find, LockMerge, List, Fill, Step, work
  <1>9. CASE Touch(a)
    BY <1>1, <1>2, <1>9 DEF Touch, Step, work
  <1>10. CASE LockRemove(a)
    BY <1>1, <1>2, <1>10 DEF LockRemove, Step, work
  <1>11. CASE RmTree(a)
    BY <1>2, <1>11 DEF RmTree, Step
  <1>12. CASE RemoveEntry(a)
    <2>1. \/ UNCHANGED <<at, entry, torn, got>> /\ at[a] = "remove"
          \/ /\ Step(a, "remove", "rmtree") /\ UNCHANGED <<torn, got>>
             /\ \E x : entry' = [entry EXCEPT ![a] = x]
      BY <1>12 DEF RemoveEntry
    <2> QED BY <1>2, <2>1 DEF Step
  <1>13. CASE Removed(a) \/ Clear(a)
    BY <1>1, <1>2, <1>13 DEF Removed, Clear, Step, work
  <1>14. CASE AddStep(a)
    BY <1>1, <1>8, <1>9, <1>10, <1>11, <1>12, <1>13, <1>14
       DEF AddStep, Merge, ListRaises, Publish, FillFails
  <1>15. CASE Crash(a)
    BY <1>2, <1>15 DEF Crash, work
  <1> QED BY <1>3, <1>7, <1>14, <1>15

\* Nobody removes anything while somebody copies.
LEMMA CopyingExcludes ==
  ASSUME CopyInv, NEW a \in Agents, at[a] = "copy"
  PROVE  \A b \in Agents : lock[b] # "exclusive" /\ at[b] # "rmtree"
  BY DEF CopyInv, LockInv, NeedOf, HeldInUse

LEMMA CopyAgentStep ==
  ASSUME CopyInv, NEW a \in Agents,
         \/ \E K \in Environments : Copy(a, K) \/ Add(a, K)
         \/ CopyStep(a) \/ AddStep(a) \/ Crash(a)
  PROVE  CopyOK' /\ WholeStep
  <1>1. /\ torn' \in [Agents -> BOOLEAN]
        /\ got' \in [Agents -> {"none", "whole", "torn"}]
        /\ Others(a) /\ Ends(a)
        /\ at'[a] = "copy" => Begins(a)
    BY CopiesOnly
  <1>2. ASSUME NEW b \in Agents, at'[b] = "copy"
        PROVE  IsDir(entry[b])' /\ (torn'[b] <=> kind'[entry'[b]] = "torn")
    <2>1. CASE b = a
      BY <1>1, <1>2, <2>1 DEF Begins, IsDir
    <2>2. CASE b # a
      <3>1. at[b] = "copy" /\ entry'[b] = entry[b] /\ torn'[b] = torn[b]
        BY <1>1, <1>2, <2>2 DEF Others
      <3>2. entry[b] \in Names /\ IsDir(entry[b]) /\ (torn[b] <=> kind[entry[b]] = "torn")
        BY <3>1 DEF CopyInv, CopyOK, NamesOK, Sources
      <3>3. lock[a] # "exclusive"
        BY <3>1, CopyingExcludes
      <3>4. IsDir(entry[b])' /\ (kind'[entry[b]] = "torn" <=> kind[entry[b]] = "torn")
        BY <3>1, <3>2, <3>3, FolderKept DEF IsDir
      <3> QED BY <3>1, <3>2, <3>4
    <2> QED BY <2>1, <2>2
  <1>3. ASSUME NEW b \in Agents, got[b] # "torn", got'[b] = "torn"
        PROVE  torn[b] /\ entry[b] \in LeftTorn
    <2>1. b = a
      BY <1>1, <1>3 DEF Others
    <2>2. at[a] = "copy" /\ (torn[a] \/ kind[entry[a]] \notin {"whole", "nested"})
      BY <1>1, <1>3, <2>1 DEF Ends
    <2>3. entry[a] \in Names /\ IsDir(entry[a]) /\ (torn[a] <=> kind[entry[a]] = "torn")
      BY <2>2 DEF CopyInv, CopyOK, NamesOK, Sources
    <2>4. torn[a] /\ kind[entry[a]] = "torn"
      BY <2>2, <2>3 DEF IsDir, Folders
    <2> QED BY <2>1, <2>2, <2>3, <2>4, CopyingExcludes DEF LeftTorn
  <1> QED BY <1>1, <1>2, <1>3 DEF CopyOK, WholeStep

\* Any number of agents that copy, add, rename and remove at the same time,
\* removals that leave files behind, and agents killed at any step: a copy
\* lacks files only if it was made of an entry that lacked them before, and that
\* nobody was removing.
THEOREM CopiesAreWhole == Spec => CopiedWhole
  <1>1. Init => CopyInv
    <2>1. Init => LockInv
      BY DEF Init, LockInv, LockTypeOK, HeldInUse, PCs, NeedOf
    <2>2. Init => CopyOK
      BY DEF Init, CopyOK
    <2> QED BY <2>1, <2>2, ListInit DEF CopyInv
  <1>2. CopyInv /\ [Next]_vars => CopyInv' /\ [WholeStep]_vars
    <2> SUFFICES ASSUME CopyInv, [Next]_vars PROVE CopyInv' /\ [WholeStep]_vars
      OBVIOUS
    <2>1. LockInv' /\ NamesOK' /\ ListOK'
      BY LockStep, NamesStep, ListStep DEF CopyInv
    <2>2. ASSUME NEW a \in Agents,
                 \/ \E K \in Environments : Copy(a, K) \/ Add(a, K)
                 \/ CopyStep(a) \/ AddStep(a) \/ Crash(a)
          PROVE  CopyOK' /\ WholeStep
      BY <2>2, CopyAgentStep
    <2>3. ASSUME UNCHANGED vars PROVE CopyOK'
      <3>1. UNCHANGED <<at, kind, entry, torn, got>>
        BY <2>3 DEF vars, cache, work
      <3> QED BY <3>1 DEF CopyInv, CopyOK, IsDir
    <2>4. CopyOK' /\ [WholeStep]_vars
      BY <2>2, <2>3 DEF Next
    <2> QED BY <2>1, <2>4 DEF CopyInv
  <1>3. Spec => [][WholeStep]_vars
    BY <1>1, <1>2, PTL DEF Spec
  <1> QED BY <1>3 DEF CopiedWhole
=============================================================================
