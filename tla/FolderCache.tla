---------------------------- MODULE FolderCache ----------------------------
(***************************************************************************)
(* The cache of virtual environments that the agents of a machine share    *)
(* (clearml_agent/helper/os/folder_cache.py, with the lock of              *)
(* helper/os/locks.py).  An entry is a folder whose name joins the keys of *)
(* the environment in it.  An agent copies an entry under a shared lock;   *)
(* it renames an entry, when it knows more keys of it, and removes old     *)
(* ones, under an exclusive lock; it adds one by filling a temporary       *)
(* folder and moving that to the entry's name, under no lock.              *)
(*                                                                         *)
(* A step is one operation on the file system that others can see the      *)
(* state before and after of; to copy or to remove a tree takes two.       *)
(***************************************************************************)
EXTENDS Integers, FiniteSets, Sequences, SequencesExt

CONSTANTS
    Agents,
    Keys,           \* hashes of requirements
    Environments,   \* the keys of each environment that a task may ask for
    MaxEntries,     \* max_cache_entries
    MaxAdds,        \* bound: environments added
    MaxCrashes      \* bound: agents killed without notice

ASSUME ConstantsAssumption ==
    /\ IsFiniteSet(Agents) /\ IsFiniteSet(Keys)
    /\ Environments \subseteq SUBSET Keys /\ {} \notin Environments
    /\ MaxEntries \in Nat \ {0}
    /\ MaxAdds \in Nat /\ MaxCrashes \in Nat

\* An entry is named by its keys; {} is no entry.
Names == (SUBSET Keys) \ {{}}

\* "nested" holds a whole environment and, in a folder of it, another.
\* "torn" lacks files, whatever it holds in a folder of it.
Folders == {"whole", "nested", "torn"}
Kinds == Folders \cup {"none", "file"}

Copying == {"lockCopy", "lookup", "copy"}
Adding == {"find", "touch", "lockMerge", "merge", "list", "lockRemove",
           "remove", "rmtree", "space", "fill", "publish"}
PCs == {"idle", "gone"} \cup Copying \cup Adding

VARIABLES
    at,         \* [Agents -> PCs]
    lock,       \* [Agents -> {"free", "shared", "exclusive"}]
    kind,       \* [Names -> Kinds]
    recent,     \* Seq(Names): the folders, last modified first
    keys,       \* [Agents -> SUBSET Keys]: of what it copies or adds
    entry,      \* [Agents -> SUBSET Keys]: the entry it found, or removes
    doomed,     \* [Agents -> SUBSET Names]: the entries it is to remove
    clearing,   \* [Agents -> BOOLEAN]: it clears the cache for lack of space
    torn,       \* [Agents -> BOOLEAN]: what it copied so far lacks files
    got,        \* [Agents -> {"none", "whole", "torn"}]: the copy it has
    adds,       \* additions so far
    crashes

cache == <<kind, recent>>
work == <<keys, entry, doomed, clearing, torn, got>>
bounds == <<adds, crashes>>
vars == <<at, lock, cache, work, bounds>>

Init ==
    /\ at = [a \in Agents |-> "idle"]
    /\ lock = [a \in Agents |-> "free"]
    /\ kind = [n \in Names |-> "none"]
    /\ recent = <<>>
    /\ keys = [a \in Agents |-> {}]
    /\ entry = [a \in Agents |-> {}]
    /\ doomed = [a \in Agents |-> {}]
    /\ clearing = [a \in Agents |-> FALSE]
    /\ torn = [a \in Agents |-> FALSE]
    /\ got = [a \in Agents |-> "none"]
    /\ adds = 0
    /\ crashes = 0

IsDir(n) == kind[n] \in Folders

Without(n) == RemoveFirst(recent, n)     \* no folder is listed twice
Touched(n) == <<n>> \o Without(n)

Step(a, from, to) == at[a] = from /\ at' = [at EXCEPT ![a] = to]

\* An operation ends: what is left is the copy it made.
Done(a, from, copy) ==
    /\ Step(a, from, "idle")
    /\ got' = [got EXCEPT ![a] = copy]
    /\ keys' = [keys EXCEPT ![a] = {}]
    /\ entry' = [entry EXCEPT ![a] = {}]
    /\ doomed' = [doomed EXCEPT ![a] = {}]
    /\ clearing' = [clearing EXCEPT ![a] = FALSE]
    /\ torn' = [torn EXCEPT ![a] = FALSE]

-----------------------------------------------------------------------------
(* FileLock, over flock: the file is polled until the timeout.             *)

Acquire(a, mode) ==
    /\ \A b \in Agents \ {a} :
         lock[b] = "free" \/ {mode, lock[b]} = {"shared"}
    /\ lock' = [lock EXCEPT ![a] = mode]

Release(a) == lock' = [lock EXCEPT ![a] = "free"]

\* Mutant: the lock is waited for without a timeout.
LockTimeoutMutant(a) == FALSE /\ UNCHANGED lock

\* The timeout passes: another has the lock.
LockTimeout(a) ==
    /\ \E b \in Agents \ {a} : lock[b] # "free"
    /\ UNCHANGED lock

-----------------------------------------------------------------------------
(* get_entry: the folders that have one of the keys, in no order.          *)

Matches(a) == {n \in Names : IsDir(n) /\ n \cap keys[a] # {}}

-----------------------------------------------------------------------------
(* copy_cached_entry                                                       *)

Copy(a, K) ==
    /\ Step(a, "idle", "lockCopy")
    /\ keys' = [keys EXCEPT ![a] = K]
    /\ got' = [got EXCEPT ![a] = "none"]
    /\ UNCHANGED <<lock, cache, entry, doomed, clearing, torn, bounds>>

LockCopy(a) ==
    \/ /\ Step(a, "lockCopy", "lookup")
       /\ Acquire(a, "shared")
       /\ UNCHANGED <<cache, work, bounds>>
    \/ /\ Done(a, "lockCopy", "none")
       /\ LockTimeout(a)
       /\ UNCHANGED <<cache, bounds>>

\* The entry is touched, and the first of its files copied.
Lookup(a) ==
    \E n \in Matches(a) :
        /\ Step(a, "lookup", "copy")
        /\ entry' = [entry EXCEPT ![a] = n]
        /\ torn' = [torn EXCEPT ![a] = kind[n] = "torn"]
        /\ recent' = Touched(n)
        /\ UNCHANGED <<lock, kind, keys, doomed, clearing, got, bounds>>

NotCached(a) ==
    /\ Done(a, "lookup", "none")
    /\ Matches(a) = {}
    /\ Release(a)
    /\ UNCHANGED <<cache, bounds>>

\* The last file is copied.
CopyTree(a) ==
    /\ Done(a, "copy", IF torn[a] \/ kind[entry[a]] \notin {"whole", "nested"}
                       THEN "torn" ELSE "whole")
    /\ Release(a)
    /\ UNCHANGED <<cache, bounds>>

\* Mutant: the lock is kept when the copy fails.
CopyFailsMutant(a) ==
    /\ Done(a, "copy", "none")
    /\ UNCHANGED <<lock, cache, bounds>>

CopyFails(a) ==
    /\ Done(a, "copy", "none")
    /\ Release(a)
    /\ UNCHANGED <<cache, bounds>>

-----------------------------------------------------------------------------
(* add_entry                                                               *)

\* An agent built an environment: it has copied none.
Add(a, K) ==
    /\ Step(a, "idle", "find")
    /\ adds < MaxAdds
    /\ adds' = adds + 1
    /\ keys' = [keys EXCEPT ![a] = K]
    /\ got' = [got EXCEPT ![a] = "none"]
    /\ UNCHANGED <<lock, cache, entry, doomed, clearing, torn, crashes>>

\* Here no lock is held, and the entry found may go before it is touched.
Find(a) ==
    \/ \E n \in Matches(a) :
        /\ Step(a, "find", "touch")
        /\ entry' = [entry EXCEPT ![a] = n]
        /\ UNCHANGED <<lock, cache, keys, doomed, clearing, torn, got, bounds>>
    \/ /\ Step(a, "find", "list")
       /\ Matches(a) = {}
       /\ UNCHANGED <<lock, cache, work, bounds>>

\* Path.touch creates a file when there is nothing to touch.
Touch(a) ==
    LET n == entry[a]
    IN  /\ at[a] = "touch"
        /\ kind' = [kind EXCEPT ![n] = IF @ = "none" THEN "file" ELSE @]
        /\ recent' = IF IsDir(n) THEN Touched(n) ELSE recent
        /\ IF keys[a] \subseteq n
           THEN Done(a, "touch", "none")
           ELSE Step(a, "touch", "lockMerge") /\ UNCHANGED work
        /\ UNCHANGED <<lock, bounds>>

LockMerge(a) ==
    \/ /\ Step(a, "lockMerge", "merge")
       /\ Acquire(a, "exclusive")
       /\ UNCHANGED <<cache, work, bounds>>
    \/ /\ Done(a, "lockMerge", "none")
       /\ LockTimeout(a)
       /\ UNCHANGED <<cache, bounds>>

\* shutil.move onto a folder moves into it.
Into(n) == IF kind[n] = "torn" THEN "torn" ELSE "nested"

\* Mutant: the entry gets the keys of the new one only.
MergedNameMutant(a) == keys[a]

MergedName(a) == entry[a] \cup keys[a]

Merge(a) ==
    LET src == entry[a]
        dst == MergedName(a)
    IN  /\ at[a] = "merge"
        /\ IF kind[src] = "none" \/ (IsDir(src) /\ kind[dst] = "file")
           THEN UNCHANGED cache                         \* the move fails
           ELSE IF IsDir(dst)
           THEN /\ kind' = [kind EXCEPT ![src] = "none", ![dst] = Into(dst)]
                /\ recent' = <<dst>> \o RemoveFirst(Without(src), dst)
           ELSE /\ kind' = [kind EXCEPT ![src] = "none", ![dst] = kind[src]]
                /\ recent' = [i \in DOMAIN recent |->
                                IF recent[i] = src THEN dst ELSE recent[i]]
        /\ Release(a)
        /\ Done(a, "merge", "none")
        /\ UNCHANGED bounds

\* _remove_old_entries lists the folders, under no lock.
Oldest(count) == {recent[i] : i \in (count + 1)..Len(recent)}

List(a) ==
    LET old == Oldest(MaxEntries - 1)
    IN  /\ Step(a, "list", IF old = {} THEN "space" ELSE "lockRemove")
        /\ doomed' = [doomed EXCEPT ![a] = old]
        /\ UNCHANGED <<lock, cache, keys, entry, clearing, torn, got, bounds>>

\* A folder that is removed or renamed meanwhile has no stat(): the add ends.
ListRaises(a) ==
    /\ at[a] \in {"list", "space"}
    /\ \E b \in Agents \ {a} : lock[b] = "exclusive"
    /\ Done(a, at[a], "none")
    /\ UNCHANGED <<lock, cache, bounds>>

\* Mutant: old entries are removed without the lock.
LockRemoveMutant(a) ==
    /\ Step(a, "lockRemove", "remove")
    /\ UNCHANGED <<lock, cache, work, bounds>>

LockRemove(a) ==
    \/ /\ Step(a, "lockRemove", "remove")
       /\ Acquire(a, "exclusive")
       /\ UNCHANGED <<cache, work, bounds>>
    \/ /\ LockTimeout(a)
       /\ IF clearing[a]
          THEN Done(a, "lockRemove", "none")
          ELSE /\ Step(a, "lockRemove", "space")
               /\ doomed' = [doomed EXCEPT ![a] = {}]
               /\ UNCHANGED <<keys, entry, clearing, torn, got>>
       /\ UNCHANGED <<cache, bounds>>

\* rmtree, which ignores errors, deletes the first of the files, which changes
\* the folder's time; or there is nothing, or nothing that it can delete.
RemoveEntry(a) ==
    \E n \in doomed[a] :
        /\ at[a] = "remove"
        /\ doomed' = [doomed EXCEPT ![a] = @ \ {n}]
        /\ \/ /\ IsDir(n)
              /\ Step(a, "remove", "rmtree")
              /\ entry' = [entry EXCEPT ![a] = n]
              /\ kind' = [kind EXCEPT ![n] = "torn"]
              /\ recent' = Touched(n)
           \/ UNCHANGED <<at, entry, kind, recent>>
        /\ UNCHANGED <<lock, keys, clearing, torn, got, bounds>>

\* It deletes the files it listed and then the folder, unless one of them
\* cannot be deleted or another environment was moved into it.
RmTree(a) ==
    /\ Step(a, "rmtree", "remove")
    /\ LET n == entry[a]
       IN  \/ /\ kind' = [kind EXCEPT ![n] = "none"]
              /\ recent' = Without(n)
           \/ /\ kind' = [kind EXCEPT ![n] = "torn"]
              /\ recent' = Touched(n)
    /\ entry' = [entry EXCEPT ![a] = {}]
    /\ UNCHANGED <<lock, keys, doomed, clearing, torn, got, bounds>>

Removed(a) ==
    /\ at[a] = "remove"
    /\ doomed[a] = {}
    /\ Release(a)
    /\ IF clearing[a]
       THEN Done(a, "remove", "none")
       ELSE Step(a, "remove", "space") /\ UNCHANGED work
    /\ UNCHANGED <<cache, bounds>>

\* Too little free space: all entries are removed and none is added.
Clear(a) ==
    /\ IF recent = <<>>
       THEN Done(a, "space", "none")
       ELSE /\ Step(a, "space", "lockRemove")
            /\ clearing' = [clearing EXCEPT ![a] = TRUE]
            /\ doomed' = [doomed EXCEPT ![a] = ToSet(recent)]
            /\ UNCHANGED <<keys, entry, torn, got>>
    /\ UNCHANGED <<lock, cache, bounds>>

\* The temporary folder, that no other agent looks at, is filled.
Fill(a) ==
    /\ Step(a, "space", "publish")
    /\ UNCHANGED <<lock, cache, work, bounds>>

\* The move to the name of the keys; one onto a file fails.
Publish(a) ==
    LET n == keys[a]
    IN  /\ at[a] = "publish"
        /\ kind' = [kind EXCEPT ![n] = IF @ = "none" THEN "whole"
                                       ELSE IF @ = "file" THEN "file" ELSE Into(n)]
        /\ recent' = IF kind[n] = "file" THEN recent ELSE Touched(n)
        /\ Done(a, "publish", "none")
        /\ UNCHANGED <<lock, bounds>>

FillFails(a) ==
    /\ Done(a, "publish", "none")
    /\ UNCHANGED <<lock, cache, bounds>>

-----------------------------------------------------------------------------
\* flock is the process's: it goes with it.
Crash(a) ==
    /\ at[a] \notin {"idle", "gone"}
    /\ crashes < MaxCrashes
    /\ crashes' = crashes + 1
    /\ at' = [at EXCEPT ![a] = "gone"]
    /\ Release(a)
    /\ UNCHANGED <<cache, work, adds>>

CopyStep(a) ==
    LockCopy(a) \/ Lookup(a) \/ NotCached(a) \/ CopyTree(a) \/ CopyFails(a)

AddStep(a) ==
    \/ Find(a) \/ Touch(a) \/ LockMerge(a) \/ Merge(a)
    \/ List(a) \/ ListRaises(a) \/ LockRemove(a) \/ RemoveEntry(a) \/ RmTree(a)
    \/ Removed(a) \/ Clear(a) \/ Fill(a) \/ Publish(a) \/ FillFails(a)

Next ==
    \E a \in Agents :
        \/ \E K \in Environments : Copy(a, K) \/ Add(a, K)
        \/ CopyStep(a) \/ AddStep(a) \/ Crash(a)

Spec == Init /\ [][Next]_vars

FairSpec == Spec /\ \A a \in Agents : WF_vars(CopyStep(a) \/ AddStep(a))

-----------------------------------------------------------------------------
(* What it is for.                                                         *)

\* The entries that lack files though nobody is removing them: one of their
\* files could not be deleted, or their removal was killed, or an environment
\* was moved into what was being removed.
LeftTorn ==
    {n \in Names : /\ kind[n] = "torn"
                   /\ \A a \in Agents : at[a] = "rmtree" => entry[a] # n}

\* No entry is found while it is removed, or loses files while it is copied: a
\* copy lacks files only when it is made of one that was left so before it was
\* found, and is so still.
WholeStep ==
    \A a \in Agents :
        got[a] # "torn" /\ got'[a] = "torn" => torn[a] /\ entry[a] \in LeftTorn
CopiedWhole == [][WholeStep]_vars

\* A lock is held by those who use it, and one of a kind: a failure, a crash
\* or a timeout leaves none behind, which would stop all caching.
HeldInUse ==
    \A a \in Agents :
        /\ lock[a] = "shared" => at[a] \in {"lookup", "copy"}
        /\ lock[a] = "exclusive" => at[a] \in {"merge", "remove", "rmtree"}
        /\ lock[a] = "exclusive" =>
             \A b \in Agents \ {a} : lock[b] = "free"

\* A key that is cached stays so until an old entry is removed: to rename an
\* entry, or to add one, takes no key away.
Cached == UNION ToSet(recent)
KeysKept ==
    [][\A k \in Cached \ Cached' :
         \E a \in Agents : at[a] = "rmtree" /\ k \in entry[a]]_vars

\* Whatever others do, and whoever is killed, an operation ends.
OpsEnd == \A a \in Agents : at[a] \in Copying \cup Adding ~> at[a] \in {"idle", "gone"}

-----------------------------------------------------------------------------
(* What one could expect, and the code does not keep (README, `Refuted').  *)

\* max_cache_entries: `maximum number of cached venvs' (docs/clearml.conf:237).
\* An agent that cannot lock the folder in time adds without removing.
Bounded == Len(recent) <= MaxEntries

\* A task runs in a whole environment.  A removal that could not delete every
\* file, or was killed, leaves an entry that is found and copied.
NeverTorn == \A a \in Agents : got[a] # "torn"

\* An entry is one environment.  Of two agents that add one at the same time,
\* the second moves its own into the first's.
OneEach == \A n \in Names : kind[n] # "nested"

\* The cache folder has folders in it.  An entry that is removed before it is
\* touched becomes a file, and stays one.
NoStray == \A n \in Names : kind[n] # "file"
=============================================================================
