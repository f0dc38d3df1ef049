--------------------------- MODULE SingletonProofs ---------------------------
(* Theorems about Singleton, for any number of agents, all windows of the   *)
(* lock open.                                                              *)
EXTENDS Singleton, FiniteSetTheorems, WellFoundedInduction, TLAPS

USE ConstantsAssumption

-----------------------------------------------------------------------------
(* The slot.                                                               *)

\* Among one more numbers than S has elements, one is not in S.
LEMMA FreeSlotExists ==
  ASSUME NEW S \in SUBSET Nat, IsFiniteSet(S)
  PROVE  \E n \in 0..Cardinality(S) : n \notin S
  <1>1. Cardinality(S) \in Nat
    BY FS_CardinalityType
  <1>2. IsFiniteSet(0..Cardinality(S))
    BY <1>1, FS_Interval
  <1>3. Cardinality(0..Cardinality(S)) = Cardinality(S) + 1
    BY <1>1, FS_Interval
  <1>4. SUFFICES ASSUME 0..Cardinality(S) \subseteq S PROVE FALSE
    OBVIOUS
  <1>5. Cardinality(0..Cardinality(S)) <= Cardinality(S)
    BY <1>4, FS_Subset
  <1> QED BY <1>1, <1>3, <1>5

LEMMA SmallestFreeIsFree ==
  ASSUME NEW S \in SUBSET Nat, IsFiniteSet(S)
  PROVE  SmallestFree(S) \in Nat \ S
  <1> DEFINE T == {n \in 0..Cardinality(S) : n \notin S}
             R == OpToRel(<, Nat)
  <1>1. Cardinality(S) \in Nat
    BY FS_CardinalityType
  <1>2. T # {} /\ T \subseteq Nat
    BY <1>1, FreeSlotExists
  <1>3. PICK n \in T : \A m \in T : <<m, n>> \notin R
    BY <1>2, NatLessThanWellFounded, WFMin
  <1>4. \A m \in T : ~(m < n)
    BY <1>2, <1>3 DEF OpToRel
  <1>5. \A m \in 0..Cardinality(S) : m < n => m \in S
    BY <1>4
  <1>6. \E k \in 0..Cardinality(S) :
          k \notin S /\ \A m \in 0..Cardinality(S) : m < k => m \in S
    BY <1>5
  <1>7. SmallestFree(S) \in 0..Cardinality(S) /\ SmallestFree(S) \notin S
    <2> HIDE DEF T, R
    <2> QED BY ONLY <1>6, Zenon DEF SmallestFree
  <1> QED BY <1>1, <1>7

-----------------------------------------------------------------------------
(* The inductive invariant.                                                *)

\* Who is busy at the same time as another, or while another shuts down or
\* changes its pid, has crossed it; an agent without a file is noted as lost.
Crossings ==
    /\ \A p, q \in Busy : p # q => {p, q} \in crossed
    /\ \A p \in Busy, q \in Procs :
          at[q] \in {"forked", "stopping"} => {p, q} \in crossed
    /\ Unnamed \subseteq lost

\* What an agent has found so far, by where it is.
Progress ==
    \A p \in Procs :
        /\ IsFiniteSet(slots[p])
        /\ at[p] \in {"check", "open", "list"} => dead[p] = {}
        /\ at[p] \in {"check", "open", "list", "read"} => slot[p] = NoSlot
        /\ at[p] \in {"create", "fill"} \cup Running => slot[p] # NoSlot
        /\ at[p] = "forked" => pid[p] = "back"
        /\ at[p] = "fill" => files[Pid(p)] = "empty"

Early == {"check", "open", "list", "read", "create"}

\* An agent has no file before it makes one.
NoFile ==
    \A p \in Procs : at[p] \in Early =>
        files[<<p, "front">>] = "none" /\ pid[p] = "front"

\* There is no file under a pid that nobody has had yet.
Made ==
    \A q \in Procs : pid[q] = "front" =>
        /\ files[<<q, "back">>] = "none"
        /\ \A p \in Procs : <<q, "back">> \notin listed[p] \cup dead[p]

\* The present pid of an agent that lives is taken for dead by none.
NotDead ==
    \A p, q \in Procs : at[q] # "gone" => Pid(q) \notin dead[p]

\* The file of an agent that lives says its slot.
Truthful ==
    \A q \in Procs :
        /\ at[q] # "gone" /\ files[Pid(q)] = "full" => content[Pid(q)] = slot[q]
        /\ at[q] = "forked" /\ files[<<q, "front">>] = "full" =>
              content[<<q, "front">>] = slot[q]

\* OnRecord, from the moment the file is written and through the fork.
Recorded ==
    \A q \in Procs \ lost :
        /\ at[q] \in {"front", "daemon"} => files[Pid(q)] = "full"
        /\ at[q] = "unlock" /\ slot[q] # NoSlot => files[Pid(q)] = "full"
        /\ at[q] = "forked" => files[<<q, "front">>] = "full"

\* An agent that runs is still to be read, or its slot and id are noted.
Reading ==
    \A p \in Procs : \A q \in Up \ lost :
        at[p] = "read" /\ {p, q} \notin crossed =>
            \/ Pid(q) \in listed[p]
            \/ slot[q] \in slots[p] /\ ({p, q} \subseteq Given => met[p])

\* The slot and the id that an agent is about to write are nobody's.
Chosen ==
    \A p \in Procs : \A q \in Up \ lost :
        /\ at[p] \in {"create", "fill", "unlock"}
        /\ slot[p] # NoSlot
        /\ {p, q} \notin crossed
        => slot[q] # slot[p] /\ ~({p, q} \subseteq Given)

RegistrationInv ==
    /\ TypeOK
    /\ Crossings
    /\ Progress
    /\ NoFile
    /\ Made
    /\ NotDead
    /\ Truthful
    /\ Recorded
    /\ Reading
    /\ Chosen
    /\ SlotsDiffer
    /\ SingleInstance

-----------------------------------------------------------------------------
(* Types.                                                                  *)

\* What a step notes.
LEMMA Noted ==
  ASSUME TypeOK, Note
  PROVE  /\ crossed \subseteq crossed' /\ crossed' \subseteq SUBSET Procs
         /\ lost \subseteq lost' /\ lost' \subseteq Procs
         /\ Unnamed' \subseteq lost'
         /\ \A p, q \in Procs : p # q /\ Crossing(p, q) => {p, q} \in crossed'
  <1> DEFINE Pairs == {y \in Procs \X Procs : y[1] # y[2] /\ Crossing(y[1], y[2])}
             New == {{x[1], x[2]} : x \in Pairs}
  <1>1. crossed' = crossed \cup New /\ lost' = lost \cup Unnamed'
    BY DEF Note
  <1>2. New \subseteq SUBSET Procs
    <2>1. ASSUME NEW s \in New PROVE s \subseteq Procs
      <3>1. PICK x \in Procs \X Procs : s = {x[1], x[2]}
        OBVIOUS
      <3> QED BY <3>1
    <2> QED BY <2>1
  <1>3. ASSUME NEW p \in Procs, NEW q \in Procs, p # q, Crossing(p, q)
        PROVE  {p, q} \in New
    <2>1. <<p, q>> \in Pairs /\ {<<p, q>>[1], <<p, q>>[2]} = {p, q}
      BY <1>3
    <2> HIDE DEF Pairs
    <2> QED BY <2>1
  <1>4. Unnamed' \subseteq Procs
    BY DEF Unnamed
  <1> HIDE DEF New
  <1> QED BY <1>1, <1>2, <1>3, <1>4 DEF TypeOK

LEMMA TypeRegister ==
  ASSUME TypeOK, Progress, NEW p \in Procs, Register(p), Note
  PROVE  TypeOK'
  <1> USE DEF TypeOK, PCs, Registering, Running, Pids, Slots, folder, memory,
              world, Step, Pid, Returned
  <1>0. crossed' \subseteq SUBSET Procs /\ lost' \subseteq Procs
    BY Noted
  <1>1. CASE CheckLock(p) \/ ClearLock(p) \/ OpenLock(p)
    <2>0. lockFile' \in BOOLEAN
      BY <1>1, Zenon DEF CheckLock, ClearLock, OpenLock
    <2>1. at' \in [Procs -> PCs]
      BY <1>1 DEF CheckLock, ClearLock, OpenLock
    <2>2. UNCHANGED <<files, content, memory, world>>
      BY <1>1 DEF CheckLock, ClearLock, OpenLock
    <2> QED BY <1>0, <2>0, <2>1, <2>2
  <1>2. CASE ListFiles(p)
    BY <1>0, <1>2 DEF ListFiles
  <1>3. ASSUME NEW i \in Pids, ReadFile(p, i)
        PROVE  TypeOK'
    <2>1. content[i] \in Nat
      OBVIOUS
    <2>2. listed' \in [Procs -> SUBSET Pids]
      BY <1>3 DEF ReadFile
    <2>3. dead' \in [Procs -> SUBSET Pids]
      BY <1>3 DEF ReadFile
    <2>4. slots' \in [Procs -> SUBSET Nat]
      BY <1>3, <2>1 DEF ReadFile
    <2>5. met' \in [Procs -> BOOLEAN]
      BY <1>3 DEF ReadFile
    <2> QED
      BY <1>0, <1>3, <2>2, <2>3, <2>4, <2>5 DEF ReadFile
  <1>4. CASE Refuse(p)
    BY <1>0, <1>4 DEF Refuse, Cleared
  <1>5. CASE TakeSlot(p)
    <2>1. SmallestFree(slots[p]) \in Nat
      BY SmallestFreeIsFree DEF Progress
    <2> QED BY <1>0, <1>5, <2>1 DEF TakeSlot, Cleared
  <1>6. CASE CreateFile(p)
    BY <1>0, <1>6 DEF CreateFile
  <1>7. CASE FillFile(p)
    <2>1. slot[p] \in Nat
      BY <1>7 DEF FillFile, Progress, NoSlot
    <2> QED BY <1>0, <1>7, <2>1 DEF FillFile
  <1>8. CASE RemoveLock(p)
    BY <1>0, <1>8 DEF RemoveLock
  <1> QED BY <1>1, <1>2, <1>3, <1>4, <1>5, <1>6, <1>7, <1>8 DEF Register

LEMMA TypeStep ==
  ASSUME TypeOK, Progress, Next
  PROVE  TypeOK'
  <1> USE DEF TypeOK, PCs, Registering, Running, Pids, folder, memory, world,
              Step, Pid, Returned
  <1>0. crossed' \subseteq SUBSET Procs /\ lost' \subseteq Procs
    BY Noted DEF Next
  <1>1. ASSUME NEW p \in Procs, Fork(p) \/ Exit(p) \/ Crash(p)
        PROVE  TypeOK'
    BY <1>0, <1>1 DEF Fork, Exit, Crash
  <1>2. ASSUME NEW p \in Procs, UpdatePidFile(p)
        PROVE  TypeOK'
    <2>1. <<p, "front">> \in Pids /\ <<p, "back">> \in Pids
      OBVIOUS
    <2>2. files' \in [Pids -> {"none", "empty", "full"}]
      BY <1>2, <2>1 DEF UpdatePidFile, Renamed
    <2>3. content' \in [Pids -> Slots]
      <3>1. \/ content' = content
            \/ content' = [content EXCEPT ![<<p, "back">>] =
                                             content[<<p, "front">>]]
        BY <1>2 DEF UpdatePidFile, Renamed
      <3> HIDE DEF Pids
      <3> QED BY <2>1, <3>1
    <2> QED BY <1>0, <1>2, <2>2, <2>3 DEF UpdatePidFile
  <1>3. ASSUME NEW p \in Procs, Stop(p)
        PROVE  TypeOK'
    BY <1>0, <1>3 DEF Stop
  <1>4. ASSUME NEW p \in Procs, Interrupt(p)
        PROVE  TypeOK'
    BY <1>0, <1>4 DEF Interrupt
  <1>5. ASSUME NEW i \in Pids, ReusePid(i)
        PROVE  TypeOK'
    BY <1>0, <1>5 DEF ReusePid
  <1> QED BY <1>1, <1>2, <1>3, <1>4, <1>5, TypeRegister DEF Next, Agent

-----------------------------------------------------------------------------
(* What a step does to an agent it does not move.                          *)

Own(q) ==
    \/ Register(q) \/ Fork(q) \/ UpdatePidFile(q)
    \/ Stop(q) \/ Interrupt(q) \/ Exit(q) \/ Crash(q)

LEMMA Moves ==
  ASSUME TypeOK, Next, NEW q \in Procs
  PROVE  at'[q] = at[q] \/ Own(q)
  <1>1. ASSUME NEW p \in Procs, Own(p), p # q
        PROVE  at'[q] = at[q]
    <2>1. \/ at' = at
          \/ \E x : at' = [at EXCEPT ![p] = x]
      BY <1>1 DEF Own, Register, CheckLock, ClearLock, OpenLock, ListFiles,
         ReadFile, Refuse, TakeSlot, CreateFile, FillFile, RemoveLock, Fork,
         UpdatePidFile, Stop, Interrupt, Exit, Crash, Step
    <2> QED BY <1>1, <2>1 DEF TypeOK
  <1>2. ASSUME NEW i \in Pids, ReusePid(i)
        PROVE  at'[q] = at[q]
    BY <1>2 DEF ReusePid
  <1>3. (\E p \in Procs : Own(p)) \/ \E i \in Pids : ReusePid(i)
    BY DEF Next, Agent, Own
  <1> QED BY <1>1, <1>2, <1>3

\* Nobody is taken for dead under the pid it has.
LEMMA NoneCleared ==
  ASSUME RegistrationInv, NEW p \in Procs, NEW D \in SUBSET dead[p],
         NEW q \in Procs, at[q] # "gone"
  PROVE  Cleared(D)[Pid(q)] = files[Pid(q)]
  <1>1. Pid(q) \in Pids
    BY DEF RegistrationInv, TypeOK, Pid, Pids
  <1> QED BY <1>1 DEF RegistrationInv, NotDead, Cleared

\* What is left as it is by a step of others.
Same(q) ==
    /\ pid'[q] = pid[q] /\ slot'[q] = slot[q]
    /\ \A k \in {"front", "back"} :
          /\ content'[<<q, k>>] = content[<<q, k>>]
          /\ files'[<<q, k>>] \in {files[<<q, k>>], "none"}
    /\ at[q] # "gone" => files'[Pid(q)] = files[Pid(q)]

LEMMA OthersLeave ==
  ASSUME RegistrationInv, NEW p \in Procs, Own(p), NEW q \in Procs, p # q
  PROVE  Same(q)
  <1> USE DEF RegistrationInv, TypeOK, Step, folder, memory, world
  <1>1. pid'[q] = pid[q] /\ slot'[q] = slot[q]
    <2>1. pid' = pid \/ \E x : pid' = [pid EXCEPT ![p] = x]
      BY DEF Own, Register, CheckLock, ClearLock, OpenLock, ListFiles,
         ReadFile, Refuse, TakeSlot, CreateFile, FillFile, RemoveLock, Fork,
         UpdatePidFile, Stop, Interrupt, Exit, Crash
    <2>2. slot' = slot \/ \E x : slot' = [slot EXCEPT ![p] = x]
      BY DEF Own, Register, CheckLock, ClearLock, OpenLock, ListFiles,
         ReadFile, Refuse, TakeSlot, CreateFile, FillFile, RemoveLock, Fork,
         UpdatePidFile, Stop, Interrupt, Exit, Crash
    <2> QED BY <2>1, <2>2
  <1>2. \A k \in {"front", "back"} :
          <<q, k>> \in Pids /\ \A j : <<q, k>> # <<p, j>>
    BY DEF Pids
  <1>3. Pid(q) \in Pids /\ \E k \in {"front", "back"} : Pid(q) = <<q, k>>
    BY DEF Pids, Pid
  <1>4. CASE Refuse(p) \/ TakeSlot(p)
    <2>1. PICK D \in SUBSET dead[p] : files' = Cleared(D)
      BY <1>4 DEF Refuse, TakeSlot
    <2>2. content' = content
      BY <1>4 DEF Refuse, TakeSlot
    <2>3. at[q] # "gone" => files'[Pid(q)] = files[Pid(q)]
      BY <2>1, NoneCleared
    <2>4. \A i \in Pids : files'[i] \in {files[i], "none"}
      BY <2>1 DEF Cleared
    <2> QED BY <1>1, <1>2, <2>2, <2>3, <2>4 DEF Same
  <1>5. CASE ~Refuse(p) /\ ~TakeSlot(p)
    <2>1. \/ files' = files
          \/ \E j, x : files' = [files EXCEPT ![<<p, j>>] = x]
          \/ \E x, y : files' = [files EXCEPT ![<<p, "back">>] = x, ![<<p, "front">>] = y]
      BY <1>5 DEF Own, Register, CheckLock, ClearLock, OpenLock, ListFiles,
         ReadFile, CreateFile, FillFile, RemoveLock, Fork,
         UpdatePidFile, Renamed, Stop, OwnFile, Pid, Interrupt, Exit, Crash
    <2>2. \/ content' = content
          \/ \E j, x : content' = [content EXCEPT ![<<p, j>>] = x]
      BY <1>5 DEF Own, Register, CheckLock, ClearLock, OpenLock, ListFiles,
         ReadFile, CreateFile, FillFile, RemoveLock, Fork,
         UpdatePidFile, Renamed, Stop, Pid, Interrupt, Exit, Crash
    <2> HIDE DEF Pid
    <2>3. ASSUME NEW i \in Pids, \A j : i # <<p, j>>
          PROVE  files'[i] = files[i] /\ content'[i] = content[i]
      <3>1. \A j : <<p, j>> # i
        BY <2>3
      <3>2. files'[i] = files[i]
        <4>1. ASSUME NEW j, NEW x, files' = [files EXCEPT ![<<p, j>>] = x]
              PROVE  files'[i] = files[i]
          BY <3>1, <4>1
        <4>2. ASSUME NEW x, NEW y,
                     files' = [files EXCEPT ![<<p, "back">>] = x, ![<<p, "front">>] = y]
              PROVE  files'[i] = files[i]
          BY <3>1, <4>2
        <4> QED BY <2>1, <4>1, <4>2
      <3>3. content'[i] = content[i]
        <4>1. ASSUME NEW j, NEW x, content' = [content EXCEPT ![<<p, j>>] = x]
              PROVE  content'[i] = content[i]
          BY <3>1, <4>1
        <4> QED BY <2>2, <4>1
      <3> QED BY <3>2, <3>3
    <2> QED BY <1>1, <1>2, <1>3, <2>3 DEF Same
  <1> QED BY <1>4, <1>5

LEMMA Untouched ==
  ASSUME RegistrationInv, Next, NEW q \in Procs, at'[q] = at[q]
  PROVE  Same(q)
  <1> USE DEF RegistrationInv, TypeOK, Step, folder, memory, world
  <1>1. ASSUME NEW p \in Procs, Own(p), p # q
        PROVE  Same(q)
    BY <1>1, OthersLeave
  <1>2. ASSUME Own(q)
        PROVE  Same(q)
    <2>1. \E i \in Pids : ReadFile(q, i)
      BY <1>2 DEF Own, Register, CheckLock, ClearLock, OpenLock, ListFiles,
         Refuse, TakeSlot, CreateFile, FillFile, RemoveLock, Fork,
         UpdatePidFile, Stop, Interrupt, Exit, Crash, PCs, Registering, Running
    <2>2. UNCHANGED <<pid, slot, files, content>>
      BY <2>1 DEF ReadFile
    <2> QED BY <2>2 DEF Same
  <1>3. ASSUME NEW i \in Pids, ReusePid(i)
        PROVE  Same(q)
    BY <1>3 DEF ReusePid, Same
  <1> QED BY <1>1, <1>2, <1>3 DEF Next, Agent, Own

\* What an agent knows is changed by its own steps.
Remembers(q) ==
    /\ listed'[q] = listed[q] /\ dead'[q] = dead[q]
    /\ slots'[q] = slots[q] /\ met'[q] = met[q]

LEMMA OthersForgetNot ==
  ASSUME TypeOK, Next, NEW q \in Procs, at'[q] = at[q],
         \A i \in Pids : ~ReadFile(q, i)
  PROVE  Remembers(q)
  <1> USE DEF TypeOK, Step, memory, world, Returned
  <1>1. ASSUME NEW p \in Procs, Own(p), p # q
        PROVE  Remembers(q)
    <2>1. listed' = listed \/ \E x : listed' = [listed EXCEPT ![p] = x]
      BY <1>1 DEF Own, Register, CheckLock, ClearLock, OpenLock, ListFiles,
         ReadFile, Refuse, TakeSlot, CreateFile, FillFile, RemoveLock, Fork,
         UpdatePidFile, Stop, Interrupt, Exit, Crash
    <2>2. dead' = dead \/ \E x : dead' = [dead EXCEPT ![p] = x]
      BY <1>1 DEF Own, Register, CheckLock, ClearLock, OpenLock, ListFiles,
         ReadFile, Refuse, TakeSlot, CreateFile, FillFile, RemoveLock, Fork,
         UpdatePidFile, Stop, Interrupt, Exit, Crash
    <2>3. slots' = slots \/ \E x : slots' = [slots EXCEPT ![p] = x]
      BY <1>1 DEF Own, Register, CheckLock, ClearLock, OpenLock, ListFiles,
         ReadFile, Refuse, TakeSlot, CreateFile, FillFile, RemoveLock, Fork,
         UpdatePidFile, Stop, Interrupt, Exit, Crash
    <2>4. met' = met \/ \E x : met' = [met EXCEPT ![p] = x]
      BY <1>1 DEF Own, Register, CheckLock, ClearLock, OpenLock, ListFiles,
         ReadFile, Refuse, TakeSlot, CreateFile, FillFile, RemoveLock, Fork,
         UpdatePidFile, Stop, Interrupt, Exit, Crash
    <2> QED BY <1>1, <2>1, <2>2, <2>3, <2>4 DEF Remembers
  <1>2. ~Own(q)
    BY DEF Own, Register, CheckLock, ClearLock, OpenLock, ListFiles,
       Refuse, TakeSlot, CreateFile, FillFile, RemoveLock, Fork,
       UpdatePidFile, Stop, Interrupt, Exit, Crash, PCs, Registering, Running
  <1>3. ASSUME NEW i \in Pids, ReusePid(i)
        PROVE  Remembers(q)
    BY <1>3 DEF ReusePid, Remembers
  <1> QED BY <1>1, <1>2, <1>3 DEF Next, Agent, Own

-----------------------------------------------------------------------------
(* One conjunct of the invariant after the other.                          *)

LEMMA CrossingsStep ==
  ASSUME RegistrationInv, Next
  PROVE  Crossings'
  <1> USE DEF RegistrationInv
  <1>0. /\ crossed \subseteq crossed' /\ Unnamed' \subseteq lost'
        /\ \A p, q \in Procs : p # q /\ Crossing(p, q) => {p, q} \in crossed'
    BY Noted DEF Next
  <1>1. ASSUME NEW p \in Procs, p \in Busy' \ Busy, NEW q \in Busy', p # q
        PROVE  {p, q} \in crossed'
    <2>1. CheckLock(p) \/ ClearLock(p)
      BY <1>1, Moves DEF Busy, Own, Register, OpenLock, ListFiles, ReadFile,
         Refuse, TakeSlot, CreateFile, FillFile, RemoveLock, Fork,
         UpdatePidFile, Stop, Interrupt, Exit, Crash, Step, TypeOK, Registering
    <2>2. at[p] = "check" /\ at' = [at EXCEPT ![p] = "open"] /\ ~lockFile'
      <3>1. CASE CheckLock(p)
        <4>1. lockFile' = lockFile
          BY <3>1 DEF CheckLock, folder
        <4> QED BY <3>1, <4>1, Zenon DEF CheckLock, Step
      <3>2. CASE ClearLock(p)
        BY <3>2, Zenon DEF ClearLock, Step
      <3> QED BY <2>1, <3>1, <3>2
    <2>3. q \in Busy
      BY <1>1, <2>2 DEF Busy, TypeOK
    <2>4. at'[p] = "open"
      BY <2>2 DEF TypeOK
    <2>5. q \in Procs
      BY <2>3 DEF Busy
    <2> QED BY <1>0, <1>1, <2>2, <2>3, <2>4, <2>5 DEF Crossing
  <1>2. ASSUME NEW p \in Busy', NEW q \in Busy', p # q
        PROVE  {p, q} \in crossed'
    <2>1. p \in Procs /\ q \in Procs
      BY <1>2 DEF Busy
    <2>2. CASE p \in Busy /\ q \in Busy
      BY <1>0, <1>2, <2>2 DEF Crossings
    <2>3. CASE p \notin Busy
      BY <1>1, <1>2, <2>1, <2>3
    <2>4. CASE q \notin Busy
      <3>1. {q, p} \in crossed'
        BY <1>1, <1>2, <2>1, <2>4
      <3>2. {q, p} = {p, q}
        OBVIOUS
      <3> QED BY <3>1, <3>2
    <2> QED BY <2>2, <2>3, <2>4
  <1>3. ASSUME NEW p \in Busy', NEW q \in Procs, at'[q] \in {"forked", "stopping"}
        PROVE  {p, q} \in crossed'
    <2>1. p \in Procs /\ p # q
      BY <1>3 DEF Busy, Registering
    <2>2. Crossing(p, q)
      BY <1>3, Zenon DEF Crossing
    <2> QED BY <1>0, <2>1, <2>2
  <1> QED BY <1>0, <1>2, <1>3 DEF Crossings

LEMMA ProgressStep ==
  ASSUME RegistrationInv, Next
  PROVE  Progress'
  <1> USE DEF RegistrationInv, TypeOK, PCs, Registering, Running, Step, folder,
              memory, world, Returned
  <1> DEFINE Good(p) ==
        /\ IsFiniteSet(slots[p])
        /\ at[p] \in {"check", "open", "list"} => dead[p] = {}
        /\ at[p] \in {"check", "open", "list", "read"} => slot[p] = NoSlot
        /\ at[p] \in {"create", "fill"} \cup Running => slot[p] # NoSlot
        /\ at[p] = "forked" => pid[p] = "back"
        /\ at[p] = "fill" => files[Pid(p)] = "empty"
  <1> SUFFICES ASSUME NEW p \in Procs PROVE Good(p)'
    BY DEF Progress
  <1>0. Good(p)
    BY DEF Progress
  <1>1. CASE at'[p] = at[p] /\ \A i \in Pids : ~ReadFile(p, i)
    <2>1. Same(p) /\ Remembers(p)
      BY <1>1, Untouched, OthersForgetNot
    <2>2. Pid(p)' = Pid(p)
      BY <2>1 DEF Pid, Same
    <2> HIDE DEF RegistrationInv, TypeOK
    <2> QED BY <1>0, <1>1, <2>1, <2>2 DEF Same, Remembers
  <1>2. ASSUME NEW i \in Pids, ReadFile(p, i)
        PROVE  Good(p)'
    <2>1. slots' = slots \/ slots' = [slots EXCEPT ![p] = @ \cup {content[i]}]
      BY <1>2 DEF ReadFile
    <2>2. IsFiniteSet(slots[p] \cup {content[i]})
      BY <1>0, FS_AddElement
    <2>3. IsFiniteSet(slots'[p])
      BY <1>0, <2>1, <2>2
    <2>4. at[p] = "read" /\ UNCHANGED <<at, pid, files, slot>>
      BY <1>2 DEF ReadFile
    <2> QED BY <1>0, <2>3, <2>4
  <1>3. CASE CheckLock(p) \/ ClearLock(p) \/ OpenLock(p) \/ ListFiles(p) \/ RemoveLock(p)
             \/ Exit(p)
    <2>1. UNCHANGED <<slot, slots, dead>> /\ at[p] \in PCs
      BY <1>3 DEF CheckLock, ClearLock, OpenLock, ListFiles, RemoveLock, Exit
    <2>2. \/ at[p] = "check" /\ at'[p] = "open"
          \/ at[p] = "open" /\ at'[p] = "list"
          \/ at[p] = "list" /\ at'[p] = "read"
          \/ at[p] = "unlock" /\ at'[p] = "gone"
          \/ at[p] = "unlock" /\ at'[p] = "front" /\ slot[p] # NoSlot
          \/ at[p] = "stopping" /\ at'[p] = "gone"
      BY <1>3 DEF CheckLock, ClearLock, OpenLock, ListFiles, RemoveLock, Exit
    <2> HIDE DEF TypeOK, RegistrationInv
    <2> QED BY <1>0, <2>1, <2>2
  <1>4. CASE Refuse(p) \/ TakeSlot(p) \/ Interrupt(p) \/ Crash(p)
    <2>1. slots'[p] = {} /\ dead'[p] = {}
      BY <1>4 DEF Refuse, TakeSlot, Interrupt, Crash
    <2>2. \/ at'[p] \in {"unlock", "gone"}
          \/ at'[p] = "create" /\ slot'[p] = SmallestFree(slots[p])
      BY <1>4 DEF Refuse, TakeSlot, Interrupt, Crash
    <2>3. SmallestFree(slots[p]) # NoSlot
      BY <1>0, SmallestFreeIsFree DEF Slots, NoSlot
    <2> HIDE DEF TypeOK, RegistrationInv
    <2> QED BY <2>1, <2>2, <2>3, FS_EmptySet
  <1>5. CASE CreateFile(p) \/ FillFile(p)
    <2>1. UNCHANGED <<pid, slot, slots, dead>>
      BY <1>5 DEF CreateFile, FillFile
    <2>2. \/ at[p] = "create" /\ at'[p] = "fill" /\ files'[Pid(p)] = "empty"
          \/ at[p] = "fill" /\ at'[p] = "unlock"
      BY <1>5 DEF CreateFile, FillFile, Pid, Pids
    <2>3. Pid(p)' = Pid(p)
      BY <2>1 DEF Pid
    <2> HIDE DEF TypeOK, RegistrationInv
    <2> QED BY <1>0, <2>1, <2>2, <2>3
  <1>6. CASE Fork(p) \/ UpdatePidFile(p) \/ Stop(p)
    <2>1. UNCHANGED <<slot, slots, dead>>
      BY <1>6 DEF Fork, UpdatePidFile, Stop
    <2>2. /\ at[p] \in {"front", "forked", "daemon"}
          /\ \/ at'[p] = "forked" /\ pid'[p] = "back"
             \/ at'[p] \in {"daemon", "stopping"}
      BY <1>6 DEF Fork, UpdatePidFile, Stop
    <2> HIDE DEF TypeOK, RegistrationInv
    <2> QED BY <1>0, <2>1, <2>2
  <1> HIDE DEF Good
  <1> QED BY <1>1, <1>2, <1>3, <1>4, <1>5, <1>6, Moves DEF Own, Register

LEMMA NoFileStep ==
  ASSUME RegistrationInv, Next
  PROVE  NoFile'
  <1> SUFFICES ASSUME NEW p \in Procs, at'[p] \in Early
               PROVE  files'[<<p, "front">>] = "none" /\ pid'[p] = "front"
    BY DEF NoFile
  <1> USE DEF RegistrationInv, TypeOK, PCs, Early, Step, Pids, folder, memory, world
  <1>1. CASE at'[p] = at[p]
    <2>1. Same(p)
      BY <1>1, Untouched
    <2> QED BY <1>1, <2>1 DEF NoFile, Same
  <1>2. CASE at'[p] # at[p]
    <2>1. CheckLock(p) \/ ClearLock(p) \/ OpenLock(p) \/ ListFiles(p) \/ TakeSlot(p)
      BY <1>2, Moves DEF Own, Register, ReadFile, Refuse, CreateFile, FillFile,
         RemoveLock, Fork, UpdatePidFile, Stop, Interrupt, Exit, Crash
    <2>2. at[p] \in Early /\ pid' = pid
      BY <2>1 DEF CheckLock, ClearLock, OpenLock, ListFiles, TakeSlot
    <2>3. \A i \in Pids : files'[i] \in {files[i], "none"}
      BY <2>1 DEF CheckLock, ClearLock, OpenLock, ListFiles, TakeSlot, Cleared
    <2> QED BY <2>2, <2>3 DEF NoFile
  <1> QED BY <1>1, <1>2

\* The ways of a pid.
LEMMA PidMoves ==
  ASSUME RegistrationInv, Next, NEW q \in Procs
  PROVE  pid'[q] = pid[q] \/ (Fork(q) /\ pid[q] = "front" /\ pid'[q] = "back")
  <1> USE DEF RegistrationInv, TypeOK, Step, world
  <1>1. CASE at'[q] = at[q]
    BY <1>1, Untouched DEF Same
  <1>2. CASE at'[q] # at[q] /\ ~Fork(q)
    BY <1>2, Moves DEF Own, Register, CheckLock, ClearLock, OpenLock, ListFiles,
       ReadFile, Refuse, TakeSlot, CreateFile, FillFile, RemoveLock,
       UpdatePidFile, Stop, Interrupt, Exit, Crash
  <1>3. CASE Fork(q)
    BY <1>3 DEF Fork
  <1> QED BY <1>1, <1>2, <1>3

\* What may be found, or taken for dead, in a step.
LEMMA Finds ==
  ASSUME RegistrationInv, Next, NEW p \in Procs
  PROVE  /\ \A i \in listed'[p] : i \in listed[p] \/ (i \in Pids /\ files[i] # "none")
         /\ \A i \in dead'[p] : i \in dead[p] \/ (i \in listed[p] /\ ~Exists(i))
  <1> USE DEF RegistrationInv, TypeOK, Step, memory, world, Returned
  <1>1. CASE at'[p] = at[p] /\ \A i \in Pids : ~ReadFile(p, i)
    BY <1>1, OthersForgetNot DEF Remembers
  <1>2. ASSUME NEW i \in Pids, ReadFile(p, i)
        PROVE  /\ listed'[p] \subseteq listed[p]
               /\ dead'[p] = dead[p] \/ (dead'[p] = dead[p] \cup {i} /\ ~Exists(i))
               /\ i \in listed[p]
    BY <1>2 DEF ReadFile
  <1>3. CASE at'[p] # at[p] /\ ~ListFiles(p)
    BY <1>3, Moves DEF Own, Register, CheckLock, ClearLock, OpenLock,
       ReadFile, Refuse, TakeSlot, CreateFile, FillFile, RemoveLock, Fork,
       UpdatePidFile, Stop, Interrupt, Exit, Crash
  <1>4. CASE ListFiles(p)
    BY <1>4 DEF ListFiles
  <1> QED BY <1>1, <1>2, <1>3, <1>4

LEMMA MadeStep ==
  ASSUME RegistrationInv, Next
  PROVE  Made'
  <1> SUFFICES ASSUME NEW q \in Procs, pid'[q] = "front"
               PROVE  /\ files'[<<q, "back">>] = "none"
                      /\ \A p \in Procs : <<q, "back">> \notin listed'[p] \cup dead'[p]
    BY DEF Made
  <1> USE DEF RegistrationInv, TypeOK, PCs, Step, folder, memory, world
  <1>1. /\ pid[q] = "front"
        /\ files[<<q, "back">>] = "none"
        /\ \A p \in Procs : <<q, "back">> \notin listed[p] \cup dead[p]
    BY PidMoves DEF Made
  <1>2. files'[<<q, "back">>] = "none"
    <2>1. CASE at'[q] = at[q]
      BY <1>1, <2>1, Untouched DEF Same
    <2>2. CASE Refuse(q) \/ TakeSlot(q)
      <3>1. \A i \in Pids : files'[i] \in {files[i], "none"}
        BY <2>2 DEF Refuse, TakeSlot, Cleared
      <3> QED BY <1>1, <3>1 DEF Pids
    <2>3. CASE at'[q] # at[q] /\ ~Refuse(q) /\ ~TakeSlot(q)
      <3>1. ~UpdatePidFile(q)
        BY <1>1 DEF UpdatePidFile, Progress
      <3>2. files' = files \/ \E x : files' = [files EXCEPT ![<<q, "front">>] = x]
        BY <1>1, <2>3, <3>1, Moves DEF Own, Register, CheckLock, ClearLock, OpenLock,
           ListFiles, ReadFile, CreateFile, FillFile, RemoveLock, Fork,
           Stop, OwnFile, Pid, Interrupt, Exit, Crash
      <3>3. <<q, "front">> # <<q, "back">> /\ <<q, "back">> \in Pids
        BY DEF Pids
      <3> QED BY <1>1, <3>2, <3>3
    <2> QED BY <2>1, <2>2, <2>3
  <1>3. ASSUME NEW p \in Procs
        PROVE  <<q, "back">> \notin listed'[p] \cup dead'[p]
    BY <1>1, Finds
  <1> QED BY <1>2, <1>3

LEMMA NotDeadStep ==
  ASSUME RegistrationInv, Next
  PROVE  NotDead'
  <1> SUFFICES ASSUME NEW p \in Procs, NEW q \in Procs, at'[q] # "gone"
               PROVE  Pid(q)' \notin dead'[p]
    BY DEF NotDead
  <1> USE DEF RegistrationInv
  <1>1. at[q] # "gone"
    BY Moves DEF Own, Register, CheckLock, ClearLock, OpenLock, ListFiles,
       ReadFile, Refuse, TakeSlot, CreateFile, FillFile, RemoveLock, Fork,
       UpdatePidFile, Stop, Interrupt, Exit, Crash, Step, TypeOK, Registering
  <1>2. CASE pid'[q] = pid[q]
    <2>1. Pid(q)' = Pid(q)
      BY <1>2 DEF Pid
    <2>2. Pid(q) \notin dead[p]
      BY <1>1 DEF NotDead
    <2>3. Exists(Pid(q))
      BY <1>1 DEF Exists, Pid
    <2> QED BY <2>1, <2>2, <2>3, Finds
  <1>3. CASE Fork(q) /\ pid[q] = "front" /\ pid'[q] = "back"
    <2>1. dead' = dead
      BY <1>3 DEF Fork, memory
    <2> QED BY <1>3, <2>1 DEF Pid, Made
  <1> QED BY <1>2, <1>3, PidMoves

LEMMA TruthfulStep ==
  ASSUME RegistrationInv, Next
  PROVE  Truthful'
  <1> DEFINE Says(q) ==
        /\ at[q] # "gone" /\ files[Pid(q)] = "full" => content[Pid(q)] = slot[q]
        /\ at[q] = "forked" /\ files[<<q, "front">>] = "full" =>
              content[<<q, "front">>] = slot[q]
  <1> SUFFICES ASSUME NEW q \in Procs PROVE Says(q)'
    BY DEF Truthful
  <1> USE DEF RegistrationInv, TypeOK, PCs, Step, folder, memory, world, Returned
  <1>0. /\ Says(q)
        /\ <<q, "front">> \in Pids /\ <<q, "back">> \in Pids /\ Pid(q) \in Pids
        /\ <<q, "front">> # <<q, "back">>
    BY DEF Truthful, Pids, Pid
  <1>1. CASE at'[q] = at[q]
    <2>1. Same(q) /\ Pid(q)' = Pid(q) /\ Pid(q) \in {<<q, "front">>, <<q, "back">>}
      BY <1>1, Untouched DEF Same, Pid
    <2> HIDE DEF RegistrationInv, TypeOK, Pid
    <2> QED BY <1>0, <1>1, <2>1 DEF Same
  <1>2. CASE \/ CheckLock(q) \/ ClearLock(q) \/ OpenLock(q) \/ ListFiles(q)
             \/ RemoveLock(q) \/ Exit(q) \/ Crash(q)
    <2>1. UNCHANGED <<files, content, slot, pid>> /\ at[q] # "gone" /\ at'[q] # "forked"
      BY <1>2 DEF CheckLock, ClearLock, OpenLock, ListFiles, RemoveLock, Exit, Crash
    <2>2. Pid(q)' = Pid(q)
      BY <2>1 DEF Pid
    <2> HIDE DEF RegistrationInv, TypeOK
    <2> QED BY <1>0, <2>1, <2>2
  <1>3. CASE Refuse(q) \/ TakeSlot(q)
    <2>1. at[q] = "read" /\ pid' = pid /\ at'[q] # "forked"
      BY <1>3 DEF Refuse, TakeSlot
    <2>2. \A i \in Pids : files'[i] \in {files[i], "none"}
      BY <1>3 DEF Refuse, TakeSlot, Cleared
    <2>3. files'[Pid(q)] = "none" /\ Pid(q)' = Pid(q)
      BY <1>0, <2>1, <2>2 DEF NoFile, Early, Pid
    <2> HIDE DEF RegistrationInv, TypeOK
    <2> QED BY <2>1, <2>3
  <1>4. CASE CreateFile(q) \/ FillFile(q) \/ Interrupt(q)
    <2>1. /\ pid' = pid /\ at'[q] # "forked"
          /\ \/ files'[Pid(q)] # "full"
             \/ content'[Pid(q)] = slot[q] /\ slot' = slot
      <3> HIDE DEF Pids
      <3> QED BY <1>0, <1>4 DEF CreateFile, FillFile, Interrupt
    <2>2. Pid(q)' = Pid(q)
      BY <2>1 DEF Pid
    <2> HIDE DEF RegistrationInv, TypeOK
    <2> QED BY <2>1, <2>2
  <1>5. CASE Fork(q)
    <2>1. /\ UNCHANGED <<files, content, slot>> /\ at[q] = "front"
          /\ pid[q] = "front" /\ Pid(q)' = <<q, "back">>
      BY <1>5 DEF Fork, Pid
    <2>2. files[<<q, "back">>] = "none" /\ Pid(q) = <<q, "front">>
      BY <2>1 DEF Made, Pid
    <2> HIDE DEF RegistrationInv, TypeOK
    <2> QED BY <1>0, <2>1, <2>2
  <1>6. CASE UpdatePidFile(q)
    <2>1. /\ at[q] = "forked" /\ at'[q] = "daemon" /\ pid' = pid /\ slot' = slot
          /\ Pid(q) = <<q, "back">> /\ Pid(q)' = <<q, "back">>
      BY <1>6 DEF UpdatePidFile, Progress, Pid
    <2>2. \/ UNCHANGED <<files, content>>
          \/ /\ files'[<<q, "back">>] = files[<<q, "front">>]
             /\ content'[<<q, "back">>] = content[<<q, "front">>]
      <3>1. Renamed(q)
        BY <1>6 DEF UpdatePidFile
      <3> HIDE DEF Pids
      <3> QED BY <1>0, <3>1 DEF Renamed
    <2> HIDE DEF RegistrationInv, TypeOK
    <2> QED BY <1>0, <2>1, <2>2
  <1>7. CASE Stop(q)
    <2>1. /\ at[q] # "gone" /\ at'[q] = "stopping"
          /\ UNCHANGED <<content, slot, pid>>
          /\ files' = [files EXCEPT ![OwnFile(q)] = "none"]
      BY <1>7 DEF Stop
    <2>2. OwnFile(q) \in Pids
      BY <1>0 DEF OwnFile, Pids
    <2>3. files'[Pid(q)] \in {files[Pid(q)], "none"}
      BY <1>0, <2>1, <2>2
    <2>4. Pid(q)' = Pid(q)
      BY <2>1 DEF Pid
    <2> HIDE DEF RegistrationInv, TypeOK
    <2> QED BY <1>0, <2>1, <2>3, <2>4
  <1> HIDE DEF Says
  <1>8. ASSUME NEW i \in Pids, ReadFile(q, i) PROVE at'[q] = at[q]
    BY <1>8 DEF ReadFile
  <1> QED BY <1>1, <1>2, <1>3, <1>4, <1>5, <1>6, <1>7, <1>8, Moves DEF Own, Register

LEMMA RecordedStep ==
  ASSUME RegistrationInv, Next
  PROVE  Recorded'
  <1> DEFINE Has(q) ==
        /\ at[q] \in {"front", "daemon"} => files[Pid(q)] = "full"
        /\ at[q] = "unlock" /\ slot[q] # NoSlot => files[Pid(q)] = "full"
        /\ at[q] = "forked" => files[<<q, "front">>] = "full"
  <1> SUFFICES ASSUME NEW q \in Procs, q \notin lost' PROVE Has(q)'
    BY DEF Recorded
  <1> USE DEF RegistrationInv, TypeOK, PCs, Step, folder, memory, world, Returned
  <1>0. /\ q \notin lost /\ Has(q) /\ q \notin Unnamed'
        /\ <<q, "front">> \in Pids /\ <<q, "back">> \in Pids /\ Pid(q) \in Pids
        /\ <<q, "front">> # <<q, "back">>
    BY Noted DEF Recorded, Next, Pids, Pid
  <1>1. CASE at'[q] = at[q]
    <2>1. Same(q) /\ Pid(q)' = Pid(q) /\ Pid(q) \in {<<q, "front">>, <<q, "back">>}
      BY <1>1, Untouched DEF Same, Pid
    <2>2. at'[q] = "forked" => files'[<<q, "front">>] # "none"
      BY <1>0 DEF Unnamed
    <2> HIDE DEF RegistrationInv, TypeOK, Pid
    <2> QED BY <1>0, <1>1, <2>1, <2>2 DEF Same
  <1>2. CASE \/ CheckLock(q) \/ ClearLock(q) \/ OpenLock(q) \/ ListFiles(q)
             \/ Refuse(q) \/ TakeSlot(q) \/ CreateFile(q)
             \/ Stop(q) \/ Interrupt(q) \/ Exit(q) \/ Crash(q)
    <2>1. /\ at'[q] \notin {"front", "forked", "daemon"}
          /\ at'[q] = "unlock" => slot'[q] = NoSlot
      BY <1>2 DEF CheckLock, ClearLock, OpenLock, ListFiles, Refuse, TakeSlot,
         CreateFile, Stop, Interrupt, Exit, Crash, Progress
    <2> HIDE DEF RegistrationInv, TypeOK
    <2> QED BY <2>1
  <1>3. CASE FillFile(q)
    <2>1. at[q] = "fill" /\ at'[q] = "unlock" /\ pid' = pid
      BY <1>3 DEF FillFile
    <2>2. files[Pid(q)] = "empty" /\ Pid(q)' = Pid(q)
      BY <2>1 DEF Progress, Pid
    <2>3. files'[Pid(q)] = "full"
      <3> HIDE DEF Pids
      <3> QED BY <1>0, <1>3, <2>2 DEF FillFile
    <2> HIDE DEF RegistrationInv, TypeOK
    <2> QED BY <2>1, <2>2, <2>3
  <1>4. CASE RemoveLock(q)
    <2>1. /\ at[q] = "unlock" /\ at'[q] = (IF slot[q] = NoSlot THEN "gone" ELSE "front")
          /\ UNCHANGED <<files, pid>> /\ Pid(q)' = Pid(q)
      BY <1>4 DEF RemoveLock, Pid
    <2> HIDE DEF RegistrationInv, TypeOK
    <2> QED BY <1>0, <2>1
  <1>5. CASE Fork(q)
    <2>1. /\ at[q] = "front" /\ at'[q] = "forked" /\ files' = files
          /\ Pid(q) = <<q, "front">>
      BY <1>5 DEF Fork, Pid
    <2> HIDE DEF RegistrationInv, TypeOK
    <2> QED BY <1>0, <2>1
  <1>6. CASE UpdatePidFile(q)
    <2>1. at[q] = "forked" /\ at'[q] = "daemon" /\ Pid(q)' = <<q, "back">>
      BY <1>6 DEF UpdatePidFile, Progress, Pid
    <2>2. files[<<q, "front">>] = "full"
      BY <1>0, <2>1
    <2>3. Renamed(q)
      BY <1>6 DEF UpdatePidFile
    <2>4. files'[<<q, "back">>] = "full"
      <3> HIDE DEF Pids
      <3> QED BY <1>0, <2>2, <2>3 DEF Renamed
    <2> HIDE DEF RegistrationInv, TypeOK
    <2> QED BY <2>1, <2>4
  <1> HIDE DEF Has
  <1>7. ASSUME NEW i \in Pids, ReadFile(q, i) PROVE at'[q] = at[q]
    BY <1>7 DEF ReadFile
  <1> QED BY <1>1, <1>2, <1>3, <1>4, <1>5, <1>6, <1>7, Moves DEF Own, Register

\* While an agent is busy, those that run, and that it does not cross, stay
\* what they are.
LEMMA UpIsStable ==
  ASSUME RegistrationInv, Next, NEW p \in Busy, NEW q \in Up',
         {p, q} \notin crossed', q \notin lost', p # q
  PROVE  /\ q \in Up /\ q \notin lost /\ {p, q} \notin crossed
         /\ at[q] \in {"front", "daemon"}
         /\ slot'[q] = slot[q] /\ Pid(q)' = Pid(q)
         /\ files[Pid(q)] = "full" /\ content[Pid(q)] = slot[q]
  <1> USE DEF RegistrationInv
  <1>1. /\ q \in Procs /\ p \in Procs /\ {p, q} \notin crossed /\ q \notin lost
        /\ Crossings'
    BY Noted, CrossingsStep DEF Next, Up, Busy
  <1>2. q \notin Busy /\ at[q] \notin {"forked", "stopping"}
    BY <1>1 DEF Crossings
  <1>3. q \in Up
    <2>1. CASE at'[q] = at[q]
      BY <1>1, <2>1 DEF Up
    <2>2. CASE at'[q] # at[q]
      <3>1. at[q] # "gone" /\ (at[q] = "check" => at'[q] \notin Running)
        BY <1>1, <2>2, Moves DEF Own, Register, CheckLock, ClearLock, OpenLock,
           ListFiles, ReadFile, Refuse, TakeSlot, CreateFile, FillFile,
           RemoveLock, Fork, UpdatePidFile, Stop, Interrupt, Exit, Crash, Step,
           TypeOK, Registering, Running
      <3> QED BY <1>1, <1>2, <3>1 DEF Up, Busy, TypeOK, PCs
    <2> QED BY <2>1, <2>2
  <1>4. at[q] \in {"front", "daemon"}
    BY <1>2, <1>3 DEF Up, Running
  <1>5. slot'[q] = slot[q]
    <2>1. CASE at'[q] = at[q]
      BY <1>1, <2>1, Untouched DEF Same
    <2>2. CASE at'[q] # at[q]
      BY <1>1, <1>4, <2>2, Moves DEF Own, Register, CheckLock, ClearLock, OpenLock,
           ListFiles, ReadFile, Refuse, TakeSlot, CreateFile, FillFile,
           RemoveLock, Fork, UpdatePidFile, Stop, Interrupt, Exit, Crash, Step,
           memory
    <2> QED BY <2>1, <2>2
  <1>6. pid'[q] = pid[q]
    <2>1. CASE Fork(q)
      <3>1. at' = [at EXCEPT ![q] = "forked"]
        BY <2>1 DEF Fork, Step
      <3>2. p \in Busy' /\ at'[q] = "forked"
        BY <1>1, <3>1 DEF Busy, TypeOK
      <3> QED BY <1>1, <3>2 DEF Crossings
    <2> QED BY <1>1, <2>1, PidMoves
  <1>7. files[Pid(q)] = "full" /\ content[Pid(q)] = slot[q]
    BY <1>1, <1>4 DEF Recorded, Truthful
  <1> QED BY <1>1, <1>3, <1>4, <1>5, <1>6, <1>7 DEF Pid

LEMMA ReadingStep ==
  ASSUME RegistrationInv, Next
  PROVE  Reading'
  <1> SUFFICES ASSUME NEW p \in Procs, NEW q \in Up', q \notin lost',
                      at'[p] = "read", {p, q} \notin crossed'
               PROVE  \/ Pid(q)' \in listed'[p]
                      \/ slot'[q] \in slots'[p] /\ ({p, q} \subseteq Given => met'[p])
    BY DEF Reading
  <1> USE DEF RegistrationInv, TypeOK
  <1>1. q \in Procs /\ p # q
    BY DEF Up, Running
  <1>2. at[p] = "read" \/ ListFiles(p)
    BY Moves DEF Own, Register, CheckLock, ClearLock, OpenLock,
       ReadFile, Refuse, TakeSlot, CreateFile, FillFile,
       RemoveLock, Fork, UpdatePidFile, Stop, Interrupt, Exit, Crash, Step
  <1>3. p \in Busy
    BY <1>2 DEF ListFiles, Step, Busy, Registering
  <1>4. /\ q \in Up /\ q \notin lost /\ {p, q} \notin crossed
        /\ at[q] \in {"front", "daemon"}
        /\ slot'[q] = slot[q] /\ Pid(q)' = Pid(q)
        /\ files[Pid(q)] = "full" /\ content[Pid(q)] = slot[q]
    BY <1>1, <1>3, UpIsStable
  <1>5. Pid(q) \in Pids
    BY <1>1 DEF Pid, Pids
  <1>6. CASE ListFiles(p)
    BY <1>4, <1>5, <1>6 DEF ListFiles
  <1>7. ASSUME at[p] = "read", NEW i \in Pids, ReadFile(p, i)
        PROVE  \/ Pid(q)' \in listed'[p]
               \/ slot'[q] \in slots'[p] /\ ({p, q} \subseteq Given => met'[p])
    <2>1. /\ listed'[p] = listed[p] \ {i}
          /\ slots[p] \subseteq slots'[p]
          /\ met[p] => met'[p]
      <3>1. listed'[p] = listed[p] \ {i} /\ slots[p] \subseteq slots'[p]
        BY <1>7 DEF ReadFile
      <3>2. met' = met \/ met' = [met EXCEPT ![p] = @ \/ {p, i[1]} \subseteq Given]
        BY <1>7 DEF ReadFile
      <3>3. met[p] => met'[p]
        BY <3>2
      <3> QED BY <3>1, <3>3
    <2>2. CASE i # Pid(q)
      BY <1>4, <1>7, <2>1, <2>2 DEF Reading
    <2>3. CASE i = Pid(q)
      <3>1. Exists(i) /\ files[i] = "full" /\ content[i] = slot[q] /\ i[1] = q
        BY <1>4, <2>3 DEF Exists, Pid
      <3>2. /\ slots' = [slots EXCEPT ![p] = @ \cup {content[i]}]
            /\ met' = [met EXCEPT ![p] = @ \/ {p, i[1]} \subseteq Given]
        BY <1>7, <3>1 DEF ReadFile
      <3>3. slot[q] \in slots'[p]
        BY <3>1, <3>2
      <3>4. {p, q} \subseteq Given => met'[p]
        BY <3>1, <3>2
      <3> QED BY <1>4, <3>3, <3>4
    <2> QED BY <2>2, <2>3
  <1>8. CASE at[p] = "read" /\ \A i \in Pids : ~ReadFile(p, i)
    <2>1. Remembers(p)
      BY <1>8, OthersForgetNot
    <2> QED BY <1>4, <1>8, <2>1 DEF Reading, Remembers
  <1> QED BY <1>2, <1>6, <1>7, <1>8

LEMMA ChosenStep ==
  ASSUME RegistrationInv, Next
  PROVE  Chosen'
  <1> SUFFICES ASSUME NEW p \in Procs, NEW q \in Up', q \notin lost',
                      at'[p] \in {"create", "fill", "unlock"},
                      slot'[p] # NoSlot, {p, q} \notin crossed'
               PROVE  slot'[q] # slot'[p] /\ ~({p, q} \subseteq Given)
    BY DEF Chosen
  <1> USE DEF RegistrationInv, TypeOK, Step, folder, memory, world
  <1>1. q \in Procs /\ p # q
    BY DEF Up, Running
  <1>2. p \in Busy
    BY Moves DEF Own, Register, CheckLock, ClearLock, OpenLock, ListFiles,
       ReadFile, Refuse, TakeSlot, CreateFile, FillFile,
       RemoveLock, Fork, UpdatePidFile, Stop, Interrupt, Exit, Crash,
       Busy, Registering
  <1>3. /\ q \in Up /\ q \notin lost /\ {p, q} \notin crossed
        /\ slot'[q] = slot[q]
    BY <1>1, <1>2, UpIsStable
  <1>4. CASE TakeSlot(p)
    <2>1. /\ listed[p] = {} /\ at[p] = "read" /\ ~met[p]
          /\ slot'[p] = SmallestFree(slots[p])
      BY <1>4 DEF TakeSlot
    <2>2. slot[q] \in slots[p] /\ ({p, q} \subseteq Given => met[p])
      BY <1>3, <2>1 DEF Reading
    <2>3. SmallestFree(slots[p]) \notin slots[p]
      BY SmallestFreeIsFree DEF Progress, Slots
    <2> QED BY <1>3, <2>1, <2>2, <2>3
  <1>5. CASE ~TakeSlot(p)
    <2>1. CASE at'[p] = at[p]
      <3>1. Same(p)
        BY <2>1, Untouched
      <3> QED BY <1>3, <2>1, <3>1 DEF Chosen, Same
    <2>2. CASE at'[p] # at[p]
      <3>1. ~Refuse(p) /\ ~Interrupt(p)
        BY DEF Refuse, Interrupt, Progress
      <3>2. CreateFile(p) \/ FillFile(p)
        BY <1>5, <2>2, <3>1, Moves DEF Own, Register, CheckLock, ClearLock,
           OpenLock, ListFiles, ReadFile, RemoveLock, Fork, UpdatePidFile, Stop,
           Exit, Crash
      <3>3. at[p] \in {"create", "fill"} /\ slot' = slot
        BY <3>2 DEF CreateFile, FillFile
      <3> QED BY <1>3, <3>3 DEF Chosen
    <2> QED BY <2>1, <2>2
  <1> QED BY <1>4, <1>5

\* An agent comes up with a slot and an id that are nobody's.
LEMMA ApartStep ==
  ASSUME RegistrationInv, Next
  PROVE  SlotsDiffer' /\ SingleInstance'
  <1> DEFINE Apart(p, q) == slot'[p] # slot'[q] /\ ~({p, q} \subseteq Given)
  <1> SUFFICES ASSUME NEW p \in Procs, NEW q \in Procs, p \in Up', q \in Up',
                      p # q, {p, q} \notin crossed', p \notin lost', q \notin lost'
               PROVE  Apart(p, q)
    BY DEF SlotsDiffer, SingleInstance, Up, SawEachOther
  <1> USE DEF RegistrationInv, TypeOK, Step, folder, memory, world
  <1>1. ASSUME NEW r \in {p, q}, NEW s \in {p, q}, r # s, RemoveLock(r)
        PROVE  Apart(p, q)
    <2>1. r \in Busy /\ at[r] = "unlock" /\ slot' = slot /\ slot[r] # NoSlot
      BY <1>1 DEF RemoveLock, Busy, Registering, Up, Running
    <2>2. {r, s} = {p, q}
      BY <1>1
    <2>3. s \in Up /\ s \notin lost /\ {r, s} \notin crossed
      <3>1. s \in Up' /\ {r, s} \notin crossed' /\ s \notin lost'
        BY <1>1, <2>2
      <3> QED BY ONLY <1>1, <2>1, <3>1, UpIsStable, RegistrationInv, Next
    <2>4. slot[s] # slot[r] /\ ~({r, s} \subseteq Given)
      BY <1>1, <2>1, <2>3 DEF Chosen
    <2> QED BY <1>1, <2>1, <2>2, <2>4
  <1>2. ASSUME \A r \in {p, q} : ~RemoveLock(r)
        PROVE  Apart(p, q)
    <2>1. ASSUME NEW r \in {p, q}
          PROVE  r \in Up /\ slot'[r] = slot[r]
      <3>1. CASE at'[r] = at[r]
        BY <3>1, Untouched DEF Same, Up
      <3>2. CASE at'[r] # at[r]
        <4>0. Own(r) /\ at'[r] \in Running /\ ~RemoveLock(r)
          BY <1>2, <3>2, Moves DEF Up
        <4>1. Fork(r) \/ UpdatePidFile(r) \/ Stop(r)
          <5>1. r \in Procs
            OBVIOUS
          <5> QED BY ONLY <3>2, <4>0, <5>1, at \in [Procs -> PCs]
                  DEF Own, Register, CheckLock, ClearLock, OpenLock,
                     ListFiles, ReadFile, Refuse, TakeSlot, CreateFile, FillFile,
                     Interrupt, Exit, Crash, Running, Step
        <4> QED BY <4>1 DEF Fork, UpdatePidFile, Stop, Up, Running
      <3> QED BY <3>1, <3>2
    <2>2. {p, q} \notin crossed /\ p \notin lost /\ q \notin lost
      BY Noted DEF Next
    <2> QED BY <2>1, <2>2 DEF SlotsDiffer, SingleInstance, SawEachOther
  <1> QED BY <1>1, <1>2

LEMMA RegistrationStep ==
  ASSUME RegistrationInv, [Next]_vars
  PROVE  RegistrationInv'
  <1>1. CASE Next
    <2>1. TypeOK'
      BY <1>1, TypeStep DEF RegistrationInv
    <2>2. Crossings' /\ Progress' /\ NoFile' /\ Made' /\ NotDead'
      BY <1>1, CrossingsStep, ProgressStep, NoFileStep, MadeStep, NotDeadStep
    <2>3. Truthful' /\ Recorded' /\ Reading' /\ Chosen'
      BY <1>1, TruthfulStep, RecordedStep, ReadingStep, ChosenStep
    <2>4. SlotsDiffer' /\ SingleInstance'
      BY <1>1, ApartStep
    <2> QED BY <2>1, <2>2, <2>3, <2>4 DEF RegistrationInv
  <1>2. CASE UNCHANGED vars
    BY <1>2 DEF vars, folder, memory, world, RegistrationInv, TypeOK, Crossings,
       Busy, Unnamed, Progress, NoFile, Made, NotDead, Truthful, Recorded,
       Reading, Chosen, SlotsDiffer, SingleInstance, SawEachOther, Up, Pid
  <1> QED BY <1>1, <1>2

LEMMA RegistrationInit == Init => RegistrationInv
  <1> SUFFICES ASSUME Init PROVE RegistrationInv
    OBVIOUS
  <1> USE DEF Init, Running, Registering
  <1>1. TypeOK
    <2>1. at \in [Procs -> PCs] /\ pid \in [Procs -> {"front", "back"}]
      BY DEF PCs
    <2>2. /\ files \in [Pids -> {"none", "empty", "full"}]
          /\ content \in [Pids -> Slots]
      BY DEF Slots
    <2>3. /\ slot \in [Procs -> Slots \cup {NoSlot}]
          /\ slots \in [Procs -> SUBSET Slots]
          /\ met \in [Procs -> BOOLEAN]
      OBVIOUS
    <2>4. listed \in [Procs -> SUBSET Pids] /\ dead \in [Procs -> SUBSET Pids]
      OBVIOUS
    <2>5. lockFile \in BOOLEAN /\ reused \subseteq Pids /\ killed \subseteq Procs
      OBVIOUS
    <2>6. crossed \subseteq SUBSET Procs /\ lost \subseteq Procs
      OBVIOUS
    <2> HIDE DEF Init
    <2> QED BY <2>1, <2>2, <2>3, <2>4, <2>5, <2>6 DEF TypeOK
  <1>2. Up = {} /\ Busy = {} /\ Unnamed = {}
    BY DEF Up, Busy, Unnamed
  <1>3. Progress
    BY FS_EmptySet DEF Progress
  <1>4. \A p \in Procs : <<p, "front">> \in Pids /\ <<p, "back">> \in Pids /\ Pid(p) \in Pids
    BY DEF Pids, Pid
  <1>5. NoFile /\ Made /\ NotDead /\ Truthful
    BY <1>4 DEF NoFile, Made, NotDead, Truthful
  <1>6. Recorded
    BY DEF Recorded
  <1> QED
    BY <1>1, <1>2, <1>3, <1>5, <1>6
    DEF RegistrationInv, Crossings, Reading, Chosen, SlotsDiffer, SingleInstance

\* Any number of agents, kills, interrupted starts and reused pids, with every
\* window of the lock open: no two agents run under one worker id, unless they
\* passed each other in a window or one had lost its file in one.
THEOREM InstancesApart == Spec => []SingleInstance
  <1>1. RegistrationInv => SingleInstance
    BY DEF RegistrationInv
  <1>2. RegistrationInv /\ [Next]_vars => RegistrationInv'
    BY RegistrationStep
  <1> QED BY <1>1, <1>2, RegistrationInit, PTL DEF Spec

\* The variables keep their types, whatever agents leave behind.
THEOREM TypeCorrect == Spec => []TypeOK
  <1>1. RegistrationInv => TypeOK
    BY DEF RegistrationInv
  <1>2. RegistrationInv /\ [Next]_vars => RegistrationInv'
    BY RegistrationStep
  <1> QED BY <1>1, <1>2, RegistrationInit, PTL DEF Spec

\* No two agents that run have one slot, and so share no folder, unless they
\* passed each other in a window of the lock or one had lost its file there.
THEOREM SlotsApart == Spec => []SlotsDiffer
  <1>1. RegistrationInv => SlotsDiffer
    BY DEF RegistrationInv
  <1>2. RegistrationInv /\ [Next]_vars => RegistrationInv'
    BY RegistrationStep
  <1> QED BY <1>1, <1>2, RegistrationInit, PTL DEF Spec

\* Each agent that runs has its record under its own pid, with its own slot,
\* unless another deleted its file while its pid changed: nothing else that
\* agents do at any moment, cleaning up after the dead included, costs it that.
THEOREM AllOnRecord == Spec => []OnRecord
  <1>1. RegistrationInv => OnRecord
    BY DEF RegistrationInv, OnRecord, Recorded, Truthful, Up, Running
  <1>2. RegistrationInv /\ [Next]_vars => RegistrationInv'
    BY RegistrationStep
  <1> QED BY <1>1, <1>2, RegistrationInit, PTL DEF Spec

-----------------------------------------------------------------------------
(* A slot is taken by the living.                                          *)

\* Who finds a slot taken finds a file whose pid exists, which its agent wrote
\* once it had a slot.
LEMMA FoundAlive ==
  ASSUME RegistrationInv, NEW p \in Procs, NEW i \in Pids, ReadFile(p, i),
         NEW n \in slots'[p] \ slots[p]
  PROVE  \/ \E q \in Procs \ {p} : at[q] \in Registering \cup Running /\ slot[q] = n
         \/ \E j \in reused : content[j] = n
  <1> USE DEF RegistrationInv, TypeOK
  <1>1. Exists(i) /\ files[i] = "full" /\ n = content[i] /\ at[p] = "read"
    BY DEF ReadFile
  <1>2. CASE i \in reused
    BY <1>1, <1>2
  <1>3. CASE i \notin reused
    <2> DEFINE q == i[1]
    <2>1. q \in Procs /\ Pid(q) = i /\ at[q] # "gone"
      BY <1>1, <1>3 DEF Exists, Pids
    <2>2. at[q] \notin Early
      BY <1>1, <2>1 DEF NoFile, Pid
    <2>3. q # p /\ at[q] \in Registering \cup Running
      BY <1>1, <2>1, <2>2 DEF Early, PCs, Registering
    <2>4. slot[q] = n
      BY <1>1, <2>1 DEF Truthful
    <2> QED BY <2>1, <2>3, <2>4
  <1> QED BY <1>2, <1>3

TakenStep ==
    \A p \in Procs : \A n \in slots'[p] \ slots[p] :
        \/ \E q \in Procs \ {p} : at[q] \in Registering \cup Running /\ slot[q] = n
        \/ \E i \in reused : content[i] = n

LEMMA SlotsAreRead ==
  ASSUME TypeOK, Next, NEW p \in Procs, NEW n \in slots'[p] \ slots[p]
  PROVE  \E i \in Pids : ReadFile(p, i)
  <1> USE DEF TypeOK, memory, Returned
  <1> SUFFICES ASSUME \A i \in Pids : ~ReadFile(p, i) PROVE FALSE
    OBVIOUS
  <1>1. CASE at'[p] = at[p]
    BY <1>1, OthersForgetNot DEF Remembers
  <1>2. CASE at'[p] # at[p]
    <2>1. slots' = slots \/ slots' = [slots EXCEPT ![p] = {}]
      BY <1>2, Moves DEF Own, Register, CheckLock, ClearLock, OpenLock, ListFiles,
         Refuse, TakeSlot, CreateFile, FillFile, RemoveLock, Fork,
         UpdatePidFile, Stop, Interrupt, Exit, Crash
    <2> QED BY <2>1
  <1> QED BY <1>1, <1>2

\* What a killed agent leaves behind takes no slot from those that come after
\* it: a slot that is found taken is the slot of an agent that lives, or its
\* pid is another process's by now.
THEOREM DeadTakeNothing == Spec => TakenByTheLiving
  <1>1. RegistrationInv /\ [Next]_vars => [TakenStep]_vars
    BY SlotsAreRead, FoundAlive DEF TakenStep, RegistrationInv
  <1>2. RegistrationInv /\ [Next]_vars => RegistrationInv'
    BY RegistrationStep
  <1>3. [][TakenStep]_vars <=> TakenByTheLiving
    BY DEF TakenStep, TakenByTheLiving
  <1> QED BY <1>1, <1>2, <1>3, RegistrationInit, PTL DEF Spec
=============================================================================
