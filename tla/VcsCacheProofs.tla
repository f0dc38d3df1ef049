--------------------------- MODULE VcsCacheProofs ---------------------------
(* Theorems about VcsCache, for any number of agents, pushes, failures and *)
(* kills, and every configuration.                                         *)
EXTENDS VcsCache, TLAPS

\* The bounds are numbers; so are the versions below.
LEMMA Bounds == MaxPushes \in Nat /\ MaxFaults \in Nat /\ MaxCrashes \in Nat
  BY ConstantsAssumption DEF ConstantsAssumption

LEMMA Booleans == Enabled \in BOOLEAN /\ Reclone \in BOOLEAN
  BY ConstantsAssumption DEF ConstantsAssumption

LEMMA Names == Nobody \notin Agents /\ Cache \notin Agents /\ OnTimeout \subseteq {"temp", "direct"}
  BY ConstantsAssumption DEF ConstantsAssumption

USE Bounds, Names

-----------------------------------------------------------------------------
(* The types.                                                              *)

\* The parts of the type invariant that are about numbers, and the others.
Numbers ==
    /\ version \in [Folders -> 0 .. upstream]
    /\ upstream \in 0 .. MaxPushes
    /\ has \in [Agents -> 0 .. upstream]
    /\ want \in [Agents -> 0 .. upstream]
    /\ orphans \in Nat
    /\ faults \in 0 .. MaxFaults
    /\ crashes \in 0 .. MaxCrashes

Shapes ==
    /\ at \in [Agents -> PCs]
    /\ holder \in Agents \cup {Nobody}
    /\ kind \in [Folders -> Kinds]
    /\ where \in [Agents -> {"cache", "temp", "direct"}]
    /\ again \in [Agents -> BOOLEAN]
    /\ torn \in [Agents -> BOOLEAN]
    /\ dest \in [Agents -> Kinds]
    /\ got \in [Agents -> {"none", "ok", "failed"}]
    /\ faulted \in [Agents -> BOOLEAN]

LEMMA Parts == TypeOK <=> Numbers /\ Shapes
  BY DEF TypeOK, Numbers, Shapes

LEMMA WriteType ==
  ASSUME TypeOK, NEW f \in Folders, NEW k \in Kinds, Write(f, k)
  PROVE  kind' \in [Folders -> Kinds] /\ torn' \in [Agents -> BOOLEAN]
  BY DEF TypeOK, Write

LEMMA GotoType ==
  ASSUME TypeOK, NEW a \in Agents, NEW label \in PCs, Goto(a, label)
  PROVE  at' \in [Agents -> PCs]
  BY DEF TypeOK, Goto

LEMMA FolderType == \A a \in Agents : Folder(a) \in Folders /\ a \in Folders
  BY DEF Folder, Folders

LEMMA TypeStep == TypeOK /\ [Next]_vars => TypeOK'
  <1> SUFFICES ASSUME TypeOK, [Next]_vars PROVE TypeOK'
    OBVIOUS
  <1> USE FolderType
  <1>1. CASE Push
    BY <1>1 DEF Push, TypeOK, cache, copy, task
  <1>2. CASE CleanupOrphans
    BY <1>2 DEF CleanupOrphans, TypeOK, Kinds, copy, task
  <1>3. ASSUME NEW a \in Agents, Start(a) PROVE TypeOK'
    BY <1>3 DEF Start, TypeOK, Goto, PCs, cache, copy
  <1>4. ASSUME NEW a \in Agents, Acquire(a) PROVE TypeOK'
    BY <1>4 DEF Acquire, TypeOK, Goto, PCs, copy, task
  <1>5. ASSUME NEW a \in Agents, LockTimeout(a) PROVE TypeOK'
    BY <1>5 DEF LockTimeout, TypeOK, Goto, PCs, cache, copy
  <1>6. ASSUME NEW a \in Agents, Look(a) PROVE TypeOK'
    BY <1>6 DEF Look, TypeOK, Goto, PCs, cache, copy, task
  <1>7. ASSUME NEW a \in Agents, Leave(a) PROVE TypeOK'
    BY <1>7 DEF Leave, TypeOK, Goto, PCs, copy, task
  <1>8. ASSUME NEW a \in Agents, CloneRefused(a) PROVE TypeOK'
    BY <1>8 DEF CloneRefused, TypeOK, Goto, PCs, Raise, cache, copy
  <1>9. ASSUME NEW a \in Agents, CloneDirect(a) PROVE TypeOK'
    <2>1. Numbers'
      BY <1>9, Parts DEF CloneDirect, Numbers, Goto, PCs, Kinds, Raise, Fault, NoFault, cache
    <2>2. Shapes'
      BY <1>9, Parts DEF CloneDirect, Shapes, Goto, PCs, Kinds, Raise, Fault, NoFault, cache
    <2> QED BY <2>1, <2>2 DEF TypeOK, Numbers, Shapes
  <1>10. ASSUME NEW a \in Agents, PullFails(a) PROVE TypeOK'
    <2>1. Numbers'
      BY <1>10, Parts DEF PullFails, Numbers, Goto, PCs, Raise, Fault, NoFault, cache, copy
    <2>2. Shapes'
      BY <1>10, Parts DEF PullFails, Shapes, Goto, PCs, Raise, Fault, NoFault, cache, copy
    <2> QED BY <2>1, <2>2 DEF TypeOK, Numbers, Shapes
  <1>11. ASSUME NEW a \in Agents, Copy(a) PROVE TypeOK'
    BY <1>11 DEF Copy, TypeOK, Goto, PCs, cache, task
  <1>12. ASSUME NEW a \in Agents, Copied(a) PROVE TypeOK'
    BY <1>12 DEF Copied, TypeOK, Goto, PCs, Kinds, cache, task
  <1>13. ASSUME NEW a \in Agents, Checkout(a) PROVE TypeOK'
    <2>1. Numbers'
      BY <1>13, Parts DEF Checkout, Numbers, Goto, PCs, Raise, Fault, NoFault, cache, copy
    <2>2. Shapes'
      BY <1>13, Parts DEF Checkout, Shapes, Goto, PCs, Raise, Fault, NoFault, cache, copy
    <2> QED BY <2>1, <2>2 DEF TypeOK, Numbers, Shapes
  <1>14. ASSUME NEW a \in Agents, Remove(a) PROVE TypeOK'
    <2>1. PICK f \in Folders, k \in Kinds : Write(f, k)
      BY <1>14 DEF Remove, Kinds
    <2>2. kind' \in [Folders -> Kinds] /\ torn' \in [Agents -> BOOLEAN]
      BY <2>1, WriteType
    <2> QED BY <1>14, <2>2 DEF Remove, TypeOK, Goto, PCs, task
  <1>15. ASSUME NEW a \in Agents, Removed(a) PROVE TypeOK'
    <2>1. PICK f \in Folders, k \in Kinds : Write(f, k)
      BY <1>15 DEF Removed, Kinds
    <2>2. kind' \in [Folders -> Kinds] /\ torn' \in [Agents -> BOOLEAN]
      BY <2>1, WriteType
    <2> QED BY <1>15, <2>2 DEF Removed, TypeOK, Goto, PCs, task
  <1>16. ASSUME NEW a \in Agents, RemoveFails(a) PROVE TypeOK'
    <2>1. PICK f \in Folders, k \in Kinds : Write(f, k)
      BY <1>16 DEF RemoveFails, Kinds
    <2>2. kind' \in [Folders -> Kinds] /\ torn' \in [Agents -> BOOLEAN]
      BY <2>1, WriteType
    <2>3. Numbers'
      BY <1>16, Parts DEF RemoveFails, Numbers, Goto, PCs, Fault
    <2>4. Shapes'
      BY <1>16, <2>2, Parts DEF RemoveFails, Shapes, Goto, PCs, Fault
    <2> QED BY <2>3, <2>4 DEF TypeOK, Numbers, Shapes
  <1>17. ASSUME NEW a \in Agents, Clone(a) PROVE TypeOK'
    <2>1. PICK f \in Folders, k \in Kinds : Write(f, k)
      BY <1>17 DEF Clone, Kinds
    <2>2. kind' \in [Folders -> Kinds] /\ torn' \in [Agents -> BOOLEAN]
      BY <2>1, WriteType
    <2>3. Numbers'
      BY <1>17, Parts DEF Clone, Numbers, Goto, PCs, task
    <2>4. Shapes'
      BY <1>17, <2>2, Parts DEF Clone, Shapes, Goto, PCs, task
    <2> QED BY <2>3, <2>4 DEF TypeOK, Numbers, Shapes
  <1>18. ASSUME NEW a \in Agents, Cloned(a) PROVE TypeOK'
    <2>1. PICK f \in Folders, k \in Kinds : Write(f, k)
      BY <1>18 DEF Cloned, Kinds
    <2>2. kind' \in [Folders -> Kinds] /\ torn' \in [Agents -> BOOLEAN]
      BY <2>1, WriteType
    <2> QED BY <1>18, <2>2 DEF Cloned, TypeOK, Goto, PCs, task
  <1>19. ASSUME NEW a \in Agents, CloneFails(a) PROVE TypeOK'
    <2>1. PICK f \in Folders, k \in Kinds : Write(f, k)
      BY <1>19 DEF CloneFails, Kinds
    <2>2. kind' \in [Folders -> Kinds] /\ torn' \in [Agents -> BOOLEAN]
      BY <2>1, WriteType
    <2>3. Numbers'
      BY <1>19, Parts DEF CloneFails, Numbers, Goto, PCs, Raise, Fault
    <2>4. Shapes'
      BY <1>19, <2>2, Parts DEF CloneFails, Shapes, Goto, PCs, Raise, Fault
    <2> QED BY <2>3, <2>4 DEF TypeOK, Numbers, Shapes
  <1>20. ASSUME NEW a \in Agents, Pull(a) PROVE TypeOK'
    <2>1. PICK f \in Folders, k \in Kinds : Write(f, k)
      BY <1>20 DEF Pull, Kinds
    <2>2. kind' \in [Folders -> Kinds] /\ torn' \in [Agents -> BOOLEAN]
      BY <2>1, WriteType
    <2>3. Numbers'
      BY <1>20, Parts DEF Pull, Numbers, Goto, PCs, task
    <2>4. Shapes'
      BY <1>20, <2>2, Parts DEF Pull, Shapes, Goto, PCs, task
    <2> QED BY <2>3, <2>4 DEF TypeOK, Numbers, Shapes
  <1>21. ASSUME NEW a \in Agents, RemoveTemp(a) PROVE TypeOK'
    <2>1. PICK f \in Folders, k \in Kinds : Write(f, k)
      BY <1>21 DEF RemoveTemp, Kinds
    <2>2. kind' \in [Folders -> Kinds] /\ torn' \in [Agents -> BOOLEAN]
      BY <2>1, WriteType
    <2>3. Numbers'
      BY <1>21, Parts DEF RemoveTemp, Numbers, Goto, PCs, task
    <2>4. Shapes'
      BY <1>21, <2>2, Parts DEF RemoveTemp, Shapes, Goto, PCs, task
    <2> QED BY <2>3, <2>4 DEF TypeOK, Numbers, Shapes
  <1>22. ASSUME NEW a \in Agents, Crash(a) PROVE TypeOK'
    <2>1. CASE at[a] \in {"rmtree", "cloning", "pull"}
      <3>1. PICK k \in Kinds : Write(Folder(a), k)
        BY <1>22, <2>1 DEF Crash, LeftBy, Kinds, TypeOK
      <3>2. kind' \in [Folders -> Kinds] /\ torn' \in [Agents -> BOOLEAN]
        BY <3>1, WriteType
      <3>3. Numbers'
        BY <1>22, Parts DEF Crash, Numbers, Goto, PCs, task
      <3>4. Shapes'
        BY <1>22, <3>2, Parts DEF Crash, Shapes, Goto, PCs, task
      <3> QED BY <3>3, <3>4 DEF TypeOK, Numbers, Shapes
    <2>2. CASE at[a] \notin {"rmtree", "cloning", "pull"}
      BY <1>22, <2>2 DEF Crash, TypeOK, Goto, PCs, task
    <2> QED BY <2>1, <2>2
  <1>23. ASSUME NEW a \in Agents, CopyFails(a) PROVE TypeOK'
    <2>1. Numbers'
      BY <1>23, Parts DEF CopyFails, Numbers, Goto, PCs, Raise, Fault, cache, copy
    <2>2. Shapes'
      BY <1>23, Parts DEF CopyFails, Shapes, Goto, PCs, Raise, Fault, cache, copy
    <2> QED BY <2>1, <2>2 DEF TypeOK, Numbers, Shapes
  <1>24. CASE UNCHANGED vars
    BY <1>24 DEF vars, TypeOK, cache, copy, task
  <1> QED BY <1>1, <1>2, <1>3, <1>4, <1>5, <1>6, <1>7, <1>8, <1>9, <1>10, <1>11, <1>12, <1>13, <1>14, <1>15, <1>16, <1>17, <1>18, <1>19, <1>20, <1>21, <1>22, <1>23, <1>24 DEF Next, AgentStep

\* The state keeps its shape, whatever is killed or fails.
THEOREM TypeCorrect == Spec => []TypeOK
  <1>1. Init => TypeOK
    BY DEF Init, TypeOK, PCs, Kinds
  <1> QED BY <1>1, TypeStep, PTL DEF Spec

-----------------------------------------------------------------------------
(* The invariant.  An agent at work in the shared folder has the lock, and *)
(* any other works in a folder of its own: no two agents at work have the  *)
(* same folder.  So what an agent knows of its folder stays true.          *)

Working == {"look", "remove", "rmtree", "clone", "cloning", "pull", "copy",
            "copying", "checkout"}

\* Where an agent is, and that it has not ended yet.
Placed(b) ==
    /\ at[b] \in Working \cup {"leave"} /\ where[b] = "cache" => holder = b
    /\ where[b] = "direct" =>
         at[b] \notin {"look", "remove", "rmtree", "cloning", "pull", "copy", "copying"}
    /\ at[b] = "lock" => where[b] = "cache"
    /\ at[b] = "untemp" => where[b] = "temp"
    /\ at[b] \in Working \cup {"lock"} => got[b] = "none"

\* What it knows of its folder.
Sound(b) ==
    /\ at[b] = "copying" => ~ torn[b]
    /\ at[b] \in {"copy", "copying"} => kind[Folder(b)] \in {"whole", "jammed"}
    /\ at[b] = "clone" /\ where[b] # "direct" => kind[Folder(b)] = "none" \/ faulted[b]
    /\ at[b] = "pull" /\ ~ Enabled => kind[Folder(b)] = "whole"

\* What it knows of the versions.
Fresh(b) ==
    /\ at[b] \in {"cloning", "copy", "copying"} => version[Folder(b)] >= want[b]
    /\ at[b] = "checkout" => has[b] >= want[b]

\* Why it fails.
Excused(b) ==
    /\ at[b] = "checkout" => dest[b] = "whole" \/ (dest[b] = "jammed" /\ crashes > 0)
    /\ got[b] = "failed" =>
         faulted[b] \/ ~ Reclone \/ (crashes > 0 /\ dest[b] = "jammed")

\* A jammed folder is one that is being removed, or was left by a kill.
Jams ==
    \A f \in Folders :
        kind[f] = "jammed" =>
            crashes > 0 \/ \E a \in Agents : at[a] = "rmtree" /\ Folder(a) = f

Inv ==
    /\ TypeOK
    /\ \A b \in Agents : Placed(b) /\ Sound(b) /\ Fresh(b) /\ Excused(b)
    /\ Jams

\* What one step of agent a must leave of what agent b knows.
Same(b) ==
    /\ at'[b] = at[b] /\ where'[b] = where[b] /\ got'[b] = got[b]
    /\ faulted'[b] = faulted[b] /\ dest'[b] = dest[b]
    /\ has'[b] = has[b] /\ want'[b] = want[b]
    /\ holder = b => holder' = b
    /\ crashes > 0 => crashes' > 0
    /\ at[b] \in Working =>
         /\ kind'[Folder(b)] = kind[Folder(b)]
         /\ version'[Folder(b)] = version[Folder(b)]
         /\ torn'[b] = torn[b]

Kept(a) ==
    /\ \A b \in Agents \ {a} : Same(b)
    /\ Placed(a)' /\ Sound(a)' /\ Fresh(a)' /\ Excused(a)'
    /\ Jams'

LEMMA SameIsEnough ==
  ASSUME NEW b \in Agents, Same(b), Placed(b), Sound(b), Fresh(b), Excused(b)
  PROVE  Placed(b)' /\ Sound(b)' /\ Fresh(b)' /\ Excused(b)'
  <1>1. Folder(b)' = Folder(b)
    BY DEF Same, Folder
  <1>2. Placed(b)'
    BY DEF Same, Placed, Working
  <1>3. Sound(b)'
    BY <1>1 DEF Same, Sound, Working
  <1>4. Fresh(b)'
    BY <1>1 DEF Same, Fresh, Working
  <1>5. Excused(b)'
    BY DEF Same, Excused
  <1> QED BY <1>2, <1>3, <1>4, <1>5

LEMMA KeptIsEnough ==
  ASSUME Inv, TypeOK', NEW a \in Agents, Kept(a)
  PROVE  Inv'
  <1>1. ASSUME NEW b \in Agents PROVE Placed(b)' /\ Sound(b)' /\ Fresh(b)' /\ Excused(b)'
    <2>1. CASE b = a
      BY <2>1 DEF Kept
    <2>2. CASE b # a
      BY <2>2, SameIsEnough DEF Kept, Inv
    <2> QED BY <2>1, <2>2
  <1> QED BY <1>1 DEF Kept, Inv

\* No two agents at work have the same folder.
LEMMA Alone ==
  ASSUME Inv, NEW a \in Agents, NEW b \in Agents, a # b,
         at[a] \in Working \cup {"untemp"}, at[b] \in Working
  PROVE  Folder(a) # Folder(b)
  BY DEF Inv, Placed, Folder, Working

\* Who writes to a folder tears no copy: its own is not under way.
LEMMA WriteFrame ==
  ASSUME Inv, NEW a \in Agents, at[a] \in (Working \cup {"untemp"}) \ {"copying"},
         NEW k \in Kinds, Write(Folder(a), k)
  PROVE  /\ \A b \in Agents \ {a} : at[b] \in Working =>
              kind'[Folder(b)] = kind[Folder(b)] /\ torn'[b] = torn[b]
         /\ kind'[Folder(a)] = k
         /\ \A f \in Folders \ {Folder(a)} : kind'[f] = kind[f]
  <1>1. /\ kind' = [kind EXCEPT ![Folder(a)] = k]
        /\ torn' = [b \in Agents |-> torn[b] \/ (at[b] = "copying" /\ Folder(b) = Folder(a))]
    BY DEF Write
  <1>2. kind \in [Folders -> Kinds] /\ torn \in [Agents -> BOOLEAN]
    BY DEF Inv, TypeOK
  <1>3. ASSUME NEW b \in Agents \ {a}, at[b] \in Working
        PROVE  kind'[Folder(b)] = kind[Folder(b)] /\ torn'[b] = torn[b]
    <2>1. Folder(a) # Folder(b)
      BY <1>3, Alone
    <2> QED BY <1>1, <1>2, <2>1, FolderType
  <1> QED BY <1>1, <1>2, <1>3, FolderType

LEMMA StartKeeps ==
  ASSUME Inv, NEW a \in Agents, Start(a), TypeOK'
  PROVE  Kept(a)
  <1> USE FolderType
  <1>1. \A b \in Agents \ {a} : Same(b)
    BY DEF Start, Goto, cache, copy, Same, Inv, TypeOK
  <1>2. Placed(a)'
    BY DEF Start, Goto, cache, copy, Placed, Inv, TypeOK, Working
  <1>3. Sound(a)'
    BY DEF Start, Goto, cache, copy, Sound, Placed, Inv, TypeOK, Folder, Working
  <1>4. Fresh(a)'
    BY DEF Start, Goto, cache, copy, Fresh, Placed, Inv, TypeOK, Folder, Working
  <1>5. Excused(a)'
    BY DEF Start, Goto, cache, copy, Excused, Placed, Sound, Inv, TypeOK, Working
  <1>6. Jams'
    BY DEF Start, Goto, cache, copy, Jams, Inv, TypeOK, Folder
  <1> QED BY <1>1, <1>2, <1>3, <1>4, <1>5, <1>6 DEF Kept

LEMMA AcquireKeeps ==
  ASSUME Inv, NEW a \in Agents, Acquire(a), TypeOK'
  PROVE  Kept(a)
  <1> USE FolderType
  <1>1. \A b \in Agents \ {a} : Same(b)
    BY DEF Acquire, Goto, copy, task, Same, Inv, TypeOK
  <1>2. Placed(a)'
    BY DEF Acquire, Goto, copy, task, Placed, Inv, TypeOK, Working
  <1>3. Sound(a)'
    BY DEF Acquire, Goto, copy, task, Sound, Placed, Inv, TypeOK, Folder, Working
  <1>4. Fresh(a)'
    BY DEF Acquire, Goto, copy, task, Fresh, Placed, Inv, TypeOK, Folder, Working
  <1>5. Excused(a)'
    BY DEF Acquire, Goto, copy, task, Excused, Placed, Sound, Inv, TypeOK, Working
  <1>6. Jams'
    BY DEF Acquire, Goto, copy, task, Jams, Inv, TypeOK, Folder
  <1> QED BY <1>1, <1>2, <1>3, <1>4, <1>5, <1>6 DEF Kept

LEMMA LockTimeoutKeeps ==
  ASSUME Inv, NEW a \in Agents, LockTimeout(a), TypeOK'
  PROVE  Kept(a)
  <1> USE FolderType
  <1>1. \A b \in Agents \ {a} : Same(b)
    BY DEF LockTimeout, Goto, cache, copy, Same, Inv, TypeOK
  <1>2. Placed(a)'
    BY DEF LockTimeout, Goto, cache, copy, Placed, Inv, TypeOK, Working
  <1>3. Sound(a)'
    BY DEF LockTimeout, Goto, cache, copy, Sound, Placed, Inv, TypeOK, Folder, Working
  <1>4. Fresh(a)'
    BY DEF LockTimeout, Goto, cache, copy, Fresh, Placed, Inv, TypeOK, Folder, Working
  <1>5. Excused(a)'
    BY DEF LockTimeout, Goto, cache, copy, Excused, Placed, Sound, Inv, TypeOK, Working
  <1>6. Jams'
    BY DEF LockTimeout, Goto, cache, copy, Jams, Inv, TypeOK, Folder
  <1> QED BY <1>1, <1>2, <1>3, <1>4, <1>5, <1>6 DEF Kept

LEMMA LookKeeps ==
  ASSUME Inv, NEW a \in Agents, Look(a), TypeOK'
  PROVE  Kept(a)
  <1> USE FolderType
  <1>1. \A b \in Agents \ {a} : Same(b)
    BY DEF Look, Goto, cache, copy, task, Same, Inv, TypeOK
  <1>2. Placed(a)'
    BY DEF Look, Goto, cache, copy, task, Placed, Inv, TypeOK, Working
  <1>3. Sound(a)'
    BY DEF Look, Goto, cache, copy, task, Sound, Placed, Inv, TypeOK, Folder, Working
  <1>4. Fresh(a)'
    BY DEF Look, Goto, cache, copy, task, Fresh, Placed, Inv, TypeOK, Folder, Working
  <1>5. Excused(a)'
    BY DEF Look, Goto, cache, copy, task, Excused, Placed, Sound, Inv, TypeOK, Working
  <1>6. Jams'
    BY DEF Look, Goto, cache, copy, task, Jams, Inv, TypeOK, Folder
  <1> QED BY <1>1, <1>2, <1>3, <1>4, <1>5, <1>6 DEF Kept

LEMMA RemoveKeeps ==
  ASSUME Inv, NEW a \in Agents, Remove(a), TypeOK'
  PROVE  Kept(a)
  <1> USE FolderType
  <1>1. PICK k \in {"none", "broken", "jammed"} : Write(Folder(a), k)
    BY DEF Remove, Kinds
  <1>2. /\ \A b \in Agents \ {a} : at[b] \in Working =>
             kind'[Folder(b)] = kind[Folder(b)] /\ torn'[b] = torn[b]
        /\ kind'[Folder(a)] = k
        /\ \A f \in Folders \ {Folder(a)} : kind'[f] = kind[f]
    BY <1>1, WriteFrame DEF Remove, Kinds, Working
  <1>3. \A b \in Agents \ {a} : Same(b)
    BY <1>2 DEF Remove, Goto, task, Same, Inv, TypeOK
  <1>4. Placed(a)'
    BY <1>2 DEF Remove, Goto, task, Placed, Inv, TypeOK, Working
  <1>5. Sound(a)'
    BY <1>2 DEF Remove, Goto, task, Sound, Placed, Inv, TypeOK, Folder, Working
  <1>6. Fresh(a)'
    BY <1>2 DEF Remove, Goto, task, Fresh, Placed, Inv, TypeOK, Folder, Working
  <1>7. Excused(a)'
    BY <1>2 DEF Remove, Goto, task, Excused, Placed, Sound, Inv, TypeOK, Working
  <1>8. Jams'
    BY <1>2 DEF Remove, Goto, task, Jams, Inv, TypeOK, Folder
  <1> QED BY <1>3, <1>4, <1>5, <1>6, <1>7, <1>8 DEF Kept

LEMMA RemovedKeeps ==
  ASSUME Inv, NEW a \in Agents, Removed(a), TypeOK'
  PROVE  Kept(a)
  <1> USE FolderType
  <1>1. PICK k \in {"none"} : Write(Folder(a), k)
    BY DEF Removed, Kinds
  <1>2. /\ \A b \in Agents \ {a} : at[b] \in Working =>
             kind'[Folder(b)] = kind[Folder(b)] /\ torn'[b] = torn[b]
        /\ kind'[Folder(a)] = k
        /\ \A f \in Folders \ {Folder(a)} : kind'[f] = kind[f]
    BY <1>1, WriteFrame DEF Removed, Kinds, Working
  <1>3. \A b \in Agents \ {a} : Same(b)
    BY <1>2 DEF Removed, Goto, task, Same, Inv, TypeOK
  <1>4. Placed(a)'
    BY <1>2 DEF Removed, Goto, task, Placed, Inv, TypeOK, Working
  <1>5. Sound(a)'
    BY <1>2 DEF Removed, Goto, task, Sound, Placed, Inv, TypeOK, Folder, Working
  <1>6. Fresh(a)'
    BY <1>2 DEF Removed, Goto, task, Fresh, Placed, Inv, TypeOK, Folder, Working
  <1>7. Excused(a)'
    BY <1>2 DEF Removed, Goto, task, Excused, Placed, Sound, Inv, TypeOK, Working
  <1>8. Jams'
    BY <1>2 DEF Removed, Goto, task, Jams, Inv, TypeOK, Folder
  <1> QED BY <1>3, <1>4, <1>5, <1>6, <1>7, <1>8 DEF Kept

LEMMA RemoveFailsKeeps ==
  ASSUME Inv, NEW a \in Agents, RemoveFails(a), TypeOK'
  PROVE  Kept(a)
  <1> USE FolderType
  <1>1. PICK k \in {"broken"} : Write(Folder(a), k)
    BY DEF RemoveFails, Kinds
  <1>2. /\ \A b \in Agents \ {a} : at[b] \in Working =>
             kind'[Folder(b)] = kind[Folder(b)] /\ torn'[b] = torn[b]
        /\ kind'[Folder(a)] = k
        /\ \A f \in Folders \ {Folder(a)} : kind'[f] = kind[f]
    BY <1>1, WriteFrame DEF RemoveFails, Kinds, Working
  <1>3. \A b \in Agents \ {a} : Same(b)
    BY <1>2 DEF RemoveFails, Goto, Fault, Same, Inv, TypeOK
  <1>4. Placed(a)'
    BY <1>2 DEF RemoveFails, Goto, Fault, Placed, Inv, TypeOK, Working
  <1>5. Sound(a)'
    BY <1>2 DEF RemoveFails, Goto, Fault, Sound, Placed, Inv, TypeOK, Folder, Working
  <1>6. Fresh(a)'
    BY <1>2 DEF RemoveFails, Goto, Fault, Fresh, Placed, Inv, TypeOK, Folder, Working
  <1>7. Excused(a)'
    BY <1>2 DEF RemoveFails, Goto, Fault, Excused, Placed, Sound, Inv, TypeOK, Working
  <1>8. Jams'
    BY <1>2 DEF RemoveFails, Goto, Fault, Jams, Inv, TypeOK, Folder
  <1> QED BY <1>3, <1>4, <1>5, <1>6, <1>7, <1>8 DEF Kept

LEMMA CloneKeeps ==
  ASSUME Inv, NEW a \in Agents, Clone(a), TypeOK'
  PROVE  Kept(a)
  <1> USE FolderType
  <1>1. PICK k \in {"growing"} : Write(Folder(a), k)
    BY DEF Clone, Kinds
  <1>2. /\ \A b \in Agents \ {a} : at[b] \in Working =>
             kind'[Folder(b)] = kind[Folder(b)] /\ torn'[b] = torn[b]
        /\ kind'[Folder(a)] = k
        /\ \A f \in Folders \ {Folder(a)} : kind'[f] = kind[f]
    BY <1>1, WriteFrame DEF Clone, Kinds, Working
  <1>3. \A b \in Agents \ {a} : Same(b)
    BY <1>2 DEF Clone, Goto, task, Same, Inv, TypeOK
  <1>4. Placed(a)'
    BY <1>2 DEF Clone, Goto, task, Placed, Inv, TypeOK, Working
  <1>5. Sound(a)'
    BY <1>2 DEF Clone, Goto, task, Sound, Placed, Inv, TypeOK, Folder, Working
  <1>6. Fresh(a)'
    BY <1>2 DEF Clone, Goto, task, Fresh, Placed, Inv, TypeOK, Folder, Working
  <1>7. Excused(a)'
    BY <1>2 DEF Clone, Goto, task, Excused, Placed, Sound, Inv, TypeOK, Working
  <1>8. Jams'
    BY <1>2 DEF Clone, Goto, task, Jams, Inv, TypeOK, Folder
  <1> QED BY <1>3, <1>4, <1>5, <1>6, <1>7, <1>8 DEF Kept

LEMMA ClonedKeeps ==
  ASSUME Inv, NEW a \in Agents, Cloned(a), TypeOK'
  PROVE  Kept(a)
  <1> USE FolderType
  <1>1. PICK k \in {"whole"} : Write(Folder(a), k)
    BY DEF Cloned, Kinds
  <1>2. /\ \A b \in Agents \ {a} : at[b] \in Working =>
             kind'[Folder(b)] = kind[Folder(b)] /\ torn'[b] = torn[b]
        /\ kind'[Folder(a)] = k
        /\ \A f \in Folders \ {Folder(a)} : kind'[f] = kind[f]
    BY <1>1, WriteFrame DEF Cloned, Kinds, Working
  <1>3. \A b \in Agents \ {a} : Same(b)
    BY <1>2 DEF Cloned, Goto, task, Same, Inv, TypeOK
  <1>4. Placed(a)'
    BY <1>2 DEF Cloned, Goto, task, Placed, Inv, TypeOK, Working
  <1>5. Sound(a)'
    BY <1>2 DEF Cloned, Goto, task, Sound, Placed, Inv, TypeOK, Folder, Working
  <1>6. Fresh(a)'
    BY <1>2 DEF Cloned, Goto, task, Fresh, Placed, Inv, TypeOK, Folder, Working
  <1>7. Excused(a)'
    BY <1>2 DEF Cloned, Goto, task, Excused, Placed, Sound, Inv, TypeOK, Working
  <1>8. Jams'
    BY <1>2 DEF Cloned, Goto, task, Jams, Inv, TypeOK, Folder
  <1> QED BY <1>3, <1>4, <1>5, <1>6, <1>7, <1>8 DEF Kept

LEMMA CloneFailsKeeps ==
  ASSUME Inv, NEW a \in Agents, CloneFails(a), TypeOK'
  PROVE  Kept(a)
  <1> USE FolderType
  <1>1. PICK k \in {"none", "partial"} : Write(Folder(a), k)
    BY DEF CloneFails, Kinds
  <1>2. /\ \A b \in Agents \ {a} : at[b] \in Working =>
             kind'[Folder(b)] = kind[Folder(b)] /\ torn'[b] = torn[b]
        /\ kind'[Folder(a)] = k
        /\ \A f \in Folders \ {Folder(a)} : kind'[f] = kind[f]
    BY <1>1, WriteFrame DEF CloneFails, Kinds, Working
  <1>3. \A b \in Agents \ {a} : Same(b)
    BY <1>2 DEF CloneFails, Goto, Fault, Raise, Same, Inv, TypeOK
  <1>4. Placed(a)'
    BY <1>2 DEF CloneFails, Goto, Fault, Raise, Placed, Inv, TypeOK, Working
  <1>5. Sound(a)'
    BY <1>2 DEF CloneFails, Goto, Fault, Raise, Sound, Placed, Inv, TypeOK, Folder, Working
  <1>6. Fresh(a)'
    BY <1>2 DEF CloneFails, Goto, Fault, Raise, Fresh, Placed, Inv, TypeOK, Folder, Working
  <1>7. Excused(a)'
    BY <1>2 DEF CloneFails, Goto, Fault, Raise, Excused, Placed, Sound, Inv, TypeOK, Working
  <1>8. Jams'
    BY <1>2 DEF CloneFails, Goto, Fault, Raise, Jams, Inv, TypeOK, Folder
  <1> QED BY <1>3, <1>4, <1>5, <1>6, <1>7, <1>8 DEF Kept

LEMMA CloneRefusedKeeps ==
  ASSUME Inv, NEW a \in Agents, CloneRefused(a), TypeOK'
  PROVE  Kept(a)
  <1> USE FolderType
  <1>1. \A b \in Agents \ {a} : Same(b)
    BY DEF CloneRefused, Goto, Raise, cache, copy, Same, Inv, TypeOK
  <1>2. Placed(a)'
    BY DEF CloneRefused, Goto, Raise, cache, copy, Placed, Inv, TypeOK, Working
  <1>3. Sound(a)'
    BY DEF CloneRefused, Goto, Raise, cache, copy, Sound, Placed, Inv, TypeOK, Folder, Working
  <1>4. Fresh(a)'
    BY DEF CloneRefused, Goto, Raise, cache, copy, Fresh, Placed, Inv, TypeOK, Folder, Working
  <1>5. Excused(a)'
    BY DEF CloneRefused, Goto, Raise, cache, copy, Excused, Placed, Sound, Inv, TypeOK, Working
  <1>6. Jams'
    BY DEF CloneRefused, Goto, Raise, cache, copy, Jams, Inv, TypeOK, Folder
  <1> QED BY <1>1, <1>2, <1>3, <1>4, <1>5, <1>6 DEF Kept

LEMMA CloneDirectKeeps ==
  ASSUME Inv, NEW a \in Agents, CloneDirect(a), TypeOK'
  PROVE  Kept(a)
  <1> USE FolderType
  <1>1. \A b \in Agents \ {a} : Same(b)
    BY DEF CloneDirect, Goto, Raise, Fault, NoFault, cache, Same, Inv, TypeOK
  <1>2. Placed(a)'
    BY DEF CloneDirect, Goto, Raise, Fault, NoFault, cache, Placed, Inv, TypeOK, Working
  <1>3. Sound(a)'
    BY DEF CloneDirect, Goto, Raise, Fault, NoFault, cache, Sound, Placed, Inv, TypeOK, Folder, Working
  <1>4. Fresh(a)'
    BY DEF CloneDirect, Goto, Raise, Fault, NoFault, cache, Fresh, Placed, Inv, TypeOK, Folder, Working
  <1>5. Excused(a)'
    BY DEF CloneDirect, Goto, Raise, Fault, NoFault, cache, Excused, Placed, Sound, Inv, TypeOK, Working
  <1>6. Jams'
    BY DEF CloneDirect, Goto, Raise, Fault, NoFault, cache, Jams, Inv, TypeOK, Folder
  <1> QED BY <1>1, <1>2, <1>3, <1>4, <1>5, <1>6 DEF Kept

LEMMA PullKeeps ==
  ASSUME Inv, NEW a \in Agents, Pull(a), TypeOK'
  PROVE  Kept(a)
  <1> USE FolderType
  <1>1. PICK k \in {"whole", "jammed"} : Write(Folder(a), k)
    BY DEF Pull, Kinds
  <1>2. /\ \A b \in Agents \ {a} : at[b] \in Working =>
             kind'[Folder(b)] = kind[Folder(b)] /\ torn'[b] = torn[b]
        /\ kind'[Folder(a)] = k
        /\ \A f \in Folders \ {Folder(a)} : kind'[f] = kind[f]
    BY <1>1, WriteFrame DEF Pull, Kinds, Working
  <1>3. \A b \in Agents \ {a} : Same(b)
    BY <1>2, Alone DEF Pull, Goto, task, Same, Inv, TypeOK, Working
  <1>4. Placed(a)'
    BY <1>2 DEF Pull, Goto, task, Placed, Inv, TypeOK, Working
  <1>5. Sound(a)'
    BY <1>2 DEF Pull, Goto, task, Sound, Placed, Inv, TypeOK, Folder, Working
  <1>6. Fresh(a)'
    BY <1>2 DEF Pull, Goto, task, Fresh, Placed, Inv, TypeOK, Folder, Working
  <1>7. Excused(a)'
    BY <1>2 DEF Pull, Goto, task, Excused, Placed, Sound, Inv, TypeOK, Working
  <1>8. Jams'
    <2>1. kind'[Folder(a)] = "jammed" => kind[Folder(a)] = "jammed"
      BY DEF Pull, Write, Inv, TypeOK
    <2> QED BY <1>2, <2>1 DEF Pull, Goto, task, Jams, Inv, TypeOK, Folder
  <1> QED BY <1>3, <1>4, <1>5, <1>6, <1>7, <1>8 DEF Kept

LEMMA PullFailsKeeps ==
  ASSUME Inv, NEW a \in Agents, PullFails(a), TypeOK'
  PROVE  Kept(a)
  <1> USE FolderType
  <1>1. \A b \in Agents \ {a} : Same(b)
    BY DEF PullFails, Goto, Raise, Fault, NoFault, cache, copy, Same, Inv, TypeOK
  <1>2. Placed(a)'
    BY DEF PullFails, Goto, Raise, Fault, NoFault, cache, copy, Placed, Inv, TypeOK, Working
  <1>3. Sound(a)'
    BY DEF PullFails, Goto, Raise, Fault, NoFault, cache, copy, Sound, Placed, Inv, TypeOK, Folder, Working
  <1>4. Fresh(a)'
    BY DEF PullFails, Goto, Raise, Fault, NoFault, cache, copy, Fresh, Placed, Inv, TypeOK, Folder, Working
  <1>5. Excused(a)'
    BY DEF PullFails, Goto, Raise, Fault, NoFault, cache, copy, Excused, Placed, Sound, Inv, TypeOK, Working
  <1>6. Jams'
    BY DEF PullFails, Goto, Raise, Fault, NoFault, cache, copy, Jams, Inv, TypeOK, Folder
  <1> QED BY <1>1, <1>2, <1>3, <1>4, <1>5, <1>6 DEF Kept

LEMMA CopyKeeps ==
  ASSUME Inv, NEW a \in Agents, Copy(a), TypeOK'
  PROVE  Kept(a)
  <1> USE FolderType
  <1>1. \A b \in Agents \ {a} : Same(b)
    BY DEF Copy, Goto, cache, task, Same, Inv, TypeOK
  <1>2. Placed(a)'
    BY DEF Copy, Goto, cache, task, Placed, Inv, TypeOK, Working
  <1>3. Sound(a)'
    BY DEF Copy, Goto, cache, task, Sound, Placed, Inv, TypeOK, Folder, Working
  <1>4. Fresh(a)'
    BY DEF Copy, Goto, cache, task, Fresh, Placed, Inv, TypeOK, Folder, Working
  <1>5. Excused(a)'
    BY DEF Copy, Goto, cache, task, Excused, Placed, Sound, Inv, TypeOK, Working
  <1>6. Jams'
    BY DEF Copy, Goto, cache, task, Jams, Inv, TypeOK, Folder
  <1> QED BY <1>1, <1>2, <1>3, <1>4, <1>5, <1>6 DEF Kept

LEMMA CopiedKeeps ==
  ASSUME Inv, NEW a \in Agents, Copied(a), TypeOK'
  PROVE  Kept(a)
  <1> USE FolderType
  <1>1. \A b \in Agents \ {a} : Same(b)
    BY DEF Copied, Goto, cache, task, Same, Inv, TypeOK
  <1>2. Placed(a)'
    BY DEF Copied, Goto, cache, task, Placed, Inv, TypeOK, Working
  <1>3. Sound(a)'
    BY DEF Copied, Goto, cache, task, Sound, Placed, Inv, TypeOK, Folder, Working
  <1>4. Fresh(a)'
    BY DEF Copied, Goto, cache, task, Fresh, Placed, Inv, TypeOK, Folder, Working
  <1>5. Excused(a)'
    <2>1. kind[Folder(a)] = "jammed" => crashes > 0
      <3>1. ASSUME NEW c \in Agents, at[c] = "rmtree", Folder(c) = Folder(a) PROVE FALSE
        BY <3>1, Alone DEF Copied, Working
      <3> QED BY <3>1 DEF Inv, Jams
    <2>2. at[a] = "copying" /\ ~ torn[a] /\ kind[Folder(a)] \in {"whole", "jammed"}
      BY DEF Copied, Inv, Sound
    <2> QED BY <2>1, <2>2 DEF Copied, Goto, cache, task, Excused, Placed, Inv, TypeOK, Working
  <1>6. Jams'
    BY DEF Copied, Goto, cache, task, Jams, Inv, TypeOK, Folder
  <1> QED BY <1>1, <1>2, <1>3, <1>4, <1>5, <1>6 DEF Kept

LEMMA CopyFailsKeeps ==
  ASSUME Inv, NEW a \in Agents, CopyFails(a), TypeOK'
  PROVE  Kept(a)
  <1> USE FolderType
  <1>1. \A b \in Agents \ {a} : Same(b)
    BY DEF CopyFails, Goto, Raise, Fault, cache, copy, Same, Inv, TypeOK
  <1>2. Placed(a)'
    BY DEF CopyFails, Goto, Raise, Fault, cache, copy, Placed, Inv, TypeOK, Working
  <1>3. Sound(a)'
    BY DEF CopyFails, Goto, Raise, Fault, cache, copy, Sound, Placed, Inv, TypeOK, Folder, Working
  <1>4. Fresh(a)'
    BY DEF CopyFails, Goto, Raise, Fault, cache, copy, Fresh, Placed, Inv, TypeOK, Folder, Working
  <1>5. Excused(a)'
    BY DEF CopyFails, Goto, Raise, Fault, cache, copy, Excused, Placed, Fresh, Inv, TypeOK, Working
  <1>6. Jams'
    BY DEF CopyFails, Goto, Raise, Fault, cache, copy, Jams, Inv, TypeOK, Folder
  <1> QED BY <1>1, <1>2, <1>3, <1>4, <1>5, <1>6 DEF Kept

LEMMA CheckoutKeeps ==
  ASSUME Inv, NEW a \in Agents, Checkout(a), TypeOK'
  PROVE  Kept(a)
  <1> USE FolderType
  <1>1. \A b \in Agents \ {a} : Same(b)
    BY DEF Checkout, Goto, Raise, Fault, NoFault, cache, copy, Same, Inv, TypeOK
  <1>2. Placed(a)'
    BY DEF Checkout, Goto, Raise, Fault, NoFault, cache, copy, Placed, Inv, TypeOK, Working
  <1>3. Sound(a)'
    BY DEF Checkout, Goto, Raise, Fault, NoFault, cache, copy, Sound, Placed, Inv, TypeOK, Folder, Working
  <1>4. Fresh(a)'
    BY DEF Checkout, Goto, Raise, Fault, NoFault, cache, copy, Fresh, Placed, Inv, TypeOK, Folder, Working
  <1>5. Excused(a)'
    BY DEF Checkout, Goto, Raise, Fault, NoFault, cache, copy, Excused, Placed, Fresh, Inv, TypeOK, Working
  <1>6. Jams'
    BY DEF Checkout, Goto, Raise, Fault, NoFault, cache, copy, Jams, Inv, TypeOK, Folder
  <1> QED BY <1>1, <1>2, <1>3, <1>4, <1>5, <1>6 DEF Kept

LEMMA LeaveKeeps ==
  ASSUME Inv, NEW a \in Agents, Leave(a), TypeOK'
  PROVE  Kept(a)
  <1> USE FolderType
  <1>1. \A b \in Agents \ {a} : Same(b)
    BY DEF Leave, Goto, copy, task, Same, Inv, TypeOK
  <1>2. Placed(a)'
    BY DEF Leave, Goto, copy, task, Placed, Inv, TypeOK, Working
  <1>3. Sound(a)'
    BY DEF Leave, Goto, copy, task, Sound, Placed, Inv, TypeOK, Folder, Working
  <1>4. Fresh(a)'
    BY DEF Leave, Goto, copy, task, Fresh, Placed, Inv, TypeOK, Folder, Working
  <1>5. Excused(a)'
    BY DEF Leave, Goto, copy, task, Excused, Placed, Sound, Inv, TypeOK, Working
  <1>6. Jams'
    BY DEF Leave, Goto, copy, task, Jams, Inv, TypeOK, Folder
  <1> QED BY <1>1, <1>2, <1>3, <1>4, <1>5, <1>6 DEF Kept

LEMMA RemoveTempKeeps ==
  ASSUME Inv, NEW a \in Agents, RemoveTemp(a), TypeOK'
  PROVE  Kept(a)
  <1> USE FolderType
  <1>1. PICK k \in {"none"} : Write(Folder(a), k)
    BY DEF RemoveTemp, Kinds, Inv, Placed, Folder
  <1>2. /\ \A b \in Agents \ {a} : at[b] \in Working =>
             kind'[Folder(b)] = kind[Folder(b)] /\ torn'[b] = torn[b]
        /\ kind'[Folder(a)] = k
        /\ \A f \in Folders \ {Folder(a)} : kind'[f] = kind[f]
    BY <1>1, WriteFrame DEF RemoveTemp, Kinds, Working
  <1>3. \A b \in Agents \ {a} : Same(b)
    BY <1>2 DEF RemoveTemp, Goto, task, Same, Inv, TypeOK
  <1>4. Placed(a)'
    BY <1>2 DEF RemoveTemp, Goto, task, Placed, Inv, TypeOK, Working
  <1>5. Sound(a)'
    BY <1>2 DEF RemoveTemp, Goto, task, Sound, Placed, Inv, TypeOK, Folder, Working
  <1>6. Fresh(a)'
    BY <1>2 DEF RemoveTemp, Goto, task, Fresh, Placed, Inv, TypeOK, Folder, Working
  <1>7. Excused(a)'
    BY <1>2 DEF RemoveTemp, Goto, task, Excused, Placed, Sound, Inv, TypeOK, Working
  <1>8. Jams'
    BY <1>2 DEF RemoveTemp, Goto, task, Jams, Inv, TypeOK, Folder
  <1> QED BY <1>3, <1>4, <1>5, <1>6, <1>7, <1>8 DEF Kept

LEMMA CrashKeeps ==
  ASSUME Inv, NEW a \in Agents, Crash(a), TypeOK'
  PROVE  Kept(a)
  <1> USE FolderType
  <1>1. \/ UNCHANGED <<kind, torn>>
        \/ /\ \A b \in Agents \ {a} : at[b] \in Working =>
                kind'[Folder(b)] = kind[Folder(b)] /\ torn'[b] = torn[b]
    <2>1. CASE at[a] \in {"rmtree", "cloning", "pull"}
      <3>1. PICK k \in Kinds : Write(Folder(a), k)
        BY <2>1 DEF Crash, LeftBy, Kinds, Inv, TypeOK
      <3> QED BY <2>1, <3>1, WriteFrame DEF Working
    <2>2. CASE at[a] \notin {"rmtree", "cloning", "pull"}
      BY <2>2 DEF Crash
    <2> QED BY <2>1, <2>2
  <1>2. crashes' > 0
    BY DEF Crash, Inv, TypeOK
  <1>3. \A b \in Agents \ {a} : Same(b)
    BY <1>1, <1>2 DEF Crash, Goto, task, Same, Inv, TypeOK
  <1>4. at'[a] = "gone"
    BY DEF Crash, Goto, Inv, TypeOK
  <1>5. Placed(a)' /\ Sound(a)' /\ Fresh(a)'
    BY <1>4 DEF Placed, Sound, Fresh, Working
  <1>6. Excused(a)'
    BY <1>2, <1>4 DEF Crash, task, Excused, Inv
  <1>7. Jams'
    BY <1>2 DEF Jams
  <1> QED BY <1>3, <1>5, <1>6, <1>7 DEF Kept

LEMMA PushKeeps ==
  ASSUME Inv, Push, TypeOK'
  PROVE  Inv'
  <1>1. ASSUME NEW b \in Agents PROVE Same(b)
    BY DEF Push, Same, cache, copy, task
  <1>2. Jams'
    BY DEF Push, Inv, Jams, Folder, cache, copy, task
  <1> QED BY <1>1, <1>2, SameIsEnough DEF Inv

LEMMA CleanupKeeps ==
  ASSUME Inv, CleanupOrphans, TypeOK'
  PROVE  Inv'
  <1>1. ASSUME NEW b \in Agents PROVE Same(b)
    <2>1. at[b] \in Working => kind'[Folder(b)] = kind[Folder(b)]
      BY FolderType DEF CleanupOrphans, Working, Folder, Inv, TypeOK
    <2> QED BY <2>1 DEF CleanupOrphans, Same, copy, task
  <1>2. \A f \in Folders : kind'[f] = "jammed" => kind[f] = "jammed"
    BY DEF CleanupOrphans
  <1>3. Jams'
    BY <1>2 DEF CleanupOrphans, Inv, Jams, Folder, copy, task
  <1> QED BY <1>1, <1>3, SameIsEnough DEF Inv

LEMMA InvStep == Inv /\ [Next]_vars => Inv'
  <1> SUFFICES ASSUME Inv, [Next]_vars PROVE Inv'
    OBVIOUS
  <1>1. TypeOK'
    BY TypeStep DEF Inv
  <1>2. CASE Push
    BY <1>1, <1>2, PushKeeps
  <1>3. CASE CleanupOrphans
    BY <1>1, <1>3, CleanupKeeps
  <1>4. ASSUME NEW a \in Agents, AgentStep(a) PROVE Inv'
    <2>1. Kept(a)
      BY <1>1, <1>4, StartKeeps, AcquireKeeps, LockTimeoutKeeps, LookKeeps,
         RemoveKeeps, RemovedKeeps, RemoveFailsKeeps, CloneKeeps, ClonedKeeps,
         CloneFailsKeeps, CloneRefusedKeeps, CloneDirectKeeps, PullKeeps,
         PullFailsKeeps, CopyKeeps, CopiedKeeps, CopyFailsKeeps,
         CheckoutKeeps, LeaveKeeps,
         RemoveTempKeeps, CrashKeeps DEF AgentStep
    <2> QED BY <1>1, <2>1, KeptIsEnough
  <1>5. CASE UNCHANGED vars
    BY <1>5 DEF vars, Inv, TypeOK, Placed, Sound, Fresh, Excused, Jams, Folder,
                cache, copy, task
  <1> QED BY <1>2, <1>3, <1>4, <1>5 DEF Next

LEMMA InvHolds == Spec => []Inv
  <1>1. Init => Inv
    BY DEF Init, Inv, TypeOK, PCs, Kinds, Placed, Sound, Fresh, Excused, Jams,
           Working
  <1> QED BY <1>1, InvStep, PTL DEF Spec

\* No agent copies a folder that another writes to, whoever gets the lock, gives
\* it up or is killed with it.
THEOREM CopiesAreWhole == Spec => []CopiedWhole
  <1>1. Inv => CopiedWhole
    BY DEF Inv, Sound, CopiedWhole
  <1> QED BY <1>1, InvHolds, PTL

\* What a task gets from the cache is never older than what it asks for.
THEOREM CopiesAreFresh == Spec => []CopiedFresh
  <1>1. Inv => CopiedFresh
    BY DEF Inv, Fresh, CopiedFresh
  <1> QED BY <1>1, InvHolds, PTL

\* With clone_on_pull_fail an agent fails for its own git commands only, but
\* for a cache that a kill left jammed.
THEOREM FailuresAreOwn == Spec => []OwnFaultsOnly
  <1>1. Inv => OwnFaultsOnly
    BY DEF Inv, Excused, OwnFaultsOnly
  <1> QED BY <1>1, InvHolds, PTL


-----------------------------------------------------------------------------
(* Temporary folders.                                                      *)

\* TempGone for one agent, where agents without a cache may be, and that an
\* agent gives up the shared folder only as it waits for the lock.
Tidy(b) ==
    /\ kind[b] # "none" => at[b] = "gone" \/ (where[b] = "temp" /\ at[b] # "idle")
    /\ where[b] = "direct" => at[b] \in {"idle", "clone", "checkout", "leave", "gone"}
    /\ at[b] = "lock" => where[b] = "cache"

\* A step of an agent writes to the shared folder or to its own.
LEMMA TidyFrame ==
  ASSUME TypeOK, NEW a \in Agents, AgentStep(a), NEW b \in Agents \ {a}
  PROVE  kind'[b] = kind[b] /\ at'[b] = at[b] /\ where'[b] = where[b]
  <1> USE DEF TypeOK, Folders, Folder, Write, Goto, Raise, cache, copy, task
  <1>1. CASE Start(a) BY <1>1 DEF Start
  <1>2. CASE Acquire(a) BY <1>2 DEF Acquire
  <1>3. CASE LockTimeout(a) BY <1>3 DEF LockTimeout
  <1>4. CASE Look(a) BY <1>4 DEF Look
  <1>5. CASE Remove(a) BY <1>5 DEF Remove
  <1>6. CASE Removed(a) BY <1>6 DEF Removed
  <1>7. CASE RemoveFails(a) BY <1>7 DEF RemoveFails
  <1>8. CASE Clone(a) BY <1>8 DEF Clone
  <1>9. CASE Cloned(a) BY <1>9 DEF Cloned
  <1>10. CASE CloneFails(a) BY <1>10 DEF CloneFails
  <1>11. CASE CloneRefused(a) BY <1>11 DEF CloneRefused
  <1>12. CASE CloneDirect(a) BY <1>12 DEF CloneDirect
  <1>13. CASE Pull(a) BY <1>13 DEF Pull
  <1>14. CASE PullFails(a) BY <1>14 DEF PullFails
  <1>15. CASE Copy(a) BY <1>15 DEF Copy
  <1>16. CASE Copied(a) BY <1>16 DEF Copied
  <1>17. CASE Checkout(a) BY <1>17 DEF Checkout
  <1>18. CASE Leave(a) BY <1>18 DEF Leave
  <1>19. CASE RemoveTemp(a) BY <1>19 DEF RemoveTemp
  <1>20. CASE Crash(a) BY <1>20 DEF Crash
  <1>21. CASE CopyFails(a) BY <1>21 DEF CopyFails, Fault
  <1> QED BY <1>1, <1>2, <1>3, <1>4, <1>5, <1>6, <1>7, <1>8, <1>9, <1>10,
             <1>11, <1>12, <1>13, <1>14, <1>15, <1>16, <1>17, <1>18, <1>19, <1>20,
             <1>21
          DEF AgentStep

LEMMA TidyStep ==
  ASSUME TypeOK, NEW a \in Agents, AgentStep(a), Tidy(a)
  PROVE  Tidy(a)'
  <1> USE DEF TypeOK, Tidy, Folders, Folder, Write, Goto, Raise, cache, copy, task
  <1>1. CASE Start(a) BY <1>1 DEF Start
  <1>2. CASE Acquire(a) BY <1>2 DEF Acquire
  <1>3. CASE LockTimeout(a) BY <1>3 DEF LockTimeout
  <1>4. CASE Look(a) BY <1>4 DEF Look
  <1>5. CASE Remove(a) BY <1>5 DEF Remove
  <1>6. CASE Removed(a) BY <1>6 DEF Removed
  <1>7. CASE RemoveFails(a) BY <1>7 DEF RemoveFails
  <1>8. CASE Clone(a) BY <1>8 DEF Clone
  <1>9. CASE Cloned(a) BY <1>9 DEF Cloned
  <1>10. CASE CloneFails(a) BY <1>10 DEF CloneFails
  <1>11. CASE CloneRefused(a) BY <1>11 DEF CloneRefused
  <1>12. CASE CloneDirect(a) BY <1>12 DEF CloneDirect
  <1>13. CASE Pull(a) BY <1>13 DEF Pull
  <1>14. CASE PullFails(a) BY <1>14 DEF PullFails
  <1>15. CASE Copy(a) BY <1>15 DEF Copy
  <1>16. CASE Copied(a) BY <1>16 DEF Copied
  <1>17. CASE Checkout(a) BY <1>17 DEF Checkout
  <1>18. CASE Leave(a) BY <1>18 DEF Leave
  <1>19. CASE RemoveTemp(a) BY <1>19 DEF RemoveTemp
  <1>20. CASE Crash(a) BY <1>20 DEF Crash
  <1>21. CASE CopyFails(a) BY <1>21 DEF CopyFails, Fault
  <1> QED BY <1>1, <1>2, <1>3, <1>4, <1>5, <1>6, <1>7, <1>8, <1>9, <1>10,
             <1>11, <1>12, <1>13, <1>14, <1>15, <1>16, <1>17, <1>18, <1>19, <1>20,
             <1>21
          DEF AgentStep

AllTidy == \A b \in Agents : Tidy(b)

\* Only rm_tree leaves an orphan, and only when it fails.
LEMMA FewStep ==
  ASSUME TypeOK, [Next]_vars, orphans <= faults
  PROVE  (orphans <= faults)'
  <1> DEFINE Level == orphans' = orphans /\ faults' \in {faults, faults + 1}
  <1>1. orphans \in Nat /\ faults \in Nat
    BY DEF TypeOK
  <1>2. Level => (orphans <= faults)'
    BY <1>1
  <1>3. CASE Push \/ UNCHANGED vars
    BY <1>2, <1>3 DEF Push, vars
  <1>4. CASE CleanupOrphans
    BY <1>1, <1>4 DEF CleanupOrphans
  <1>5. ASSUME NEW a \in Agents, AgentStep(a) PROVE (orphans <= faults)'
    <2>1. CASE RemoveTemp(a)
      BY <1>1, <2>1 DEF RemoveTemp
    <2>2. CASE RemoveFails(a) \/ CloneFails(a) \/ CopyFails(a)
      BY <1>2, <2>2 DEF RemoveFails, CloneFails, CopyFails, Fault
    <2>3. CASE CloneDirect(a) \/ PullFails(a) \/ Checkout(a)
      BY <1>2, <2>3 DEF CloneDirect, PullFails, Checkout, Fault, NoFault
    <2> QED BY <1>2, <1>5, <2>1, <2>2, <2>3
            DEF AgentStep, Start, Acquire, LockTimeout, Look, Remove, Removed, Clone,
                Cloned, CloneRefused, Pull, Copy, Copied, Leave, Crash
  <1> QED BY <1>3, <1>4, <1>5 DEF Next

\* A temporary folder is gone with the operation that made it, whatever fails in
\* between and whoever else works on the cache, unless its agent was killed or
\* rm_tree passed over some of it.
THEOREM TempFoldersGo == Spec => []TempGone
  <1>1. Init => AllTidy /\ orphans <= faults
    BY DEF Init, AllTidy, Tidy, Folders
  <1>2. TypeOK /\ AllTidy /\ [Next]_vars => AllTidy'
    <2> SUFFICES ASSUME TypeOK, AllTidy, [Next]_vars, NEW b \in Agents PROVE Tidy(b)'
      BY DEF AllTidy
    <2>1. CASE Push \/ UNCHANGED vars
      BY <2>1 DEF Push, vars, cache, copy, task, AllTidy, Tidy
    <2>2. CASE CleanupOrphans
      BY <2>2 DEF CleanupOrphans, copy, task, AllTidy, Tidy, TypeOK, Folders
    <2>3. ASSUME NEW a \in Agents, AgentStep(a) PROVE Tidy(b)'
      <3>1. CASE a = b BY <2>3, <3>1, TidyStep DEF AllTidy
      <3>2. CASE a # b BY <2>3, <3>2, TidyFrame DEF AllTidy, Tidy
      <3> QED BY <3>1, <3>2
    <2> QED BY <2>1, <2>2, <2>3 DEF Next
  <1>3. AllTidy /\ orphans <= faults => TempGone
    BY DEF AllTidy, Tidy, TempGone
  <1>4. TypeOK /\ orphans <= faults /\ [Next]_vars => (orphans <= faults)'
    BY FewStep
  <1> QED BY <1>1, <1>2, <1>3, <1>4, TypeCorrect, PTL DEF Spec
=============================================================================
