------------------------------ MODULE VcsCache ------------------------------
(***************************************************************************)
(* The cache of repositories that the agents of a machine share            *)
(* (clone_repository_cached and cleanup_vcs_cache_orphans in               *)
(* clearml_agent/helper/repo.py), for one repository.                      *)
(*                                                                         *)
(* Under the repository's lock an agent clones into the cache, or finds a  *)
(* clone there, pulls, copies it to its destination and checks out the     *)
(* revision of its task in the copy.  An agent that does not get the lock  *)
(* in time clones into a temporary folder of the cache, or straight to its *)
(* destination, under no lock.  git runs as a child process and fails when *)
(* the network does; an agent may be killed at any step.                   *)
(***************************************************************************)
EXTENDS Integers, FiniteSets

CONSTANTS
    Agents,
    Nobody,         \* who has the lock when it is free
    Cache,          \* the name of the shared folder
    Enabled,        \* vcs_cache.enabled: a clone that is there is used
    Reclone,        \* vcs_cache.clone_on_pull_fail
    OnTimeout,      \* temp_cache_on_lock_timeout, as the agents have it:
                    \* "temp", "direct" or both
    MaxPushes,      \* bound: new revisions of the repository
    MaxFaults,      \* bound: git commands, copies and removals that fail
    MaxCrashes      \* bound: agents killed

ASSUME ConstantsAssumption ==
    /\ Nobody \notin Agents /\ Cache \notin Agents
    /\ {Enabled, Reclone} \subseteq BOOLEAN
    /\ OnTimeout \subseteq {"temp", "direct"} /\ OnTimeout # {}
    /\ {MaxPushes, MaxFaults, MaxCrashes} \subseteq Nat

\* The temporary folder of an agent goes by the agent's name.
Folders == Agents \cup {Cache}

\* "partial": a pull completes it.  "broken": a pull fails in it.  "jammed": a
\* pull succeeds and a checkout in a copy fails (say, git left its index.lock).
Kinds == {"none", "growing", "partial", "whole", "broken", "jammed"}

PCs == {"idle", "lock", "look", "remove", "rmtree", "clone", "cloning", "pull",
        "copy", "copying", "checkout", "leave", "untemp", "gone"}

VARIABLES
    at,         \* [Agents -> PCs]
    holder,     \* who has the lock of the repository
    kind,       \* [Folders -> Kinds]
    version,    \* [Folders -> Nat]: of the repository, in the folder
    upstream,   \* the version of the remote repository
    where,      \* [Agents -> {"cache", "temp", "direct"}]: cached_repo_path
    again,      \* [Agents -> BOOLEAN]: it clones because a pull failed
    torn,       \* [Agents -> BOOLEAN]: its source changed while it copied
    dest,       \* [Agents -> Kinds]: its copy
    has,        \* [Agents -> Nat]: the version in its copy
    want,       \* [Agents -> Nat]: the version its task asks for
    got,        \* [Agents -> {"none", "ok", "failed"}]: how it ended
    faulted,    \* [Agents -> BOOLEAN]: one of its own commands failed
    orphans,    \* temporary folders that could not be removed altogether
    faults, crashes

cache == <<holder, kind, version>>
copy == <<torn, dest, has>>
task == <<where, again, want, got, faulted>>
vars == <<at, cache, upstream, copy, task, orphans, faults, crashes>>

Init ==
    /\ at = [a \in Agents |-> "idle"]
    /\ holder = Nobody
    /\ kind = [f \in Folders |-> "none"]
    /\ version = [f \in Folders |-> 0]
    /\ upstream = 0
    /\ where = [a \in Agents |-> "cache"]
    /\ again = [a \in Agents |-> FALSE]
    /\ torn = [a \in Agents |-> FALSE]
    /\ dest = [a \in Agents |-> "none"]
    /\ has = [a \in Agents |-> 0]
    /\ want = [a \in Agents |-> 0]
    /\ got = [a \in Agents |-> "none"]
    /\ faulted = [a \in Agents |-> FALSE]
    /\ orphans = 0
    /\ faults = 0 /\ crashes = 0

-----------------------------------------------------------------------------
Goto(a, label) == at' = [at EXCEPT ![a] = label]

Folder(a) == IF where[a] = "cache" THEN Cache ELSE a

\* Who copies a folder that is written to gets some of both.
Write(f, k) ==
    /\ kind' = [kind EXCEPT ![f] = k]
    /\ torn' = [b \in Agents |-> torn[b] \/ (at[b] = "copying" /\ Folder(b) = f)]

NoFault == UNCHANGED <<faulted, faults>>

Fault(a) ==
    /\ faults < MaxFaults
    /\ faults' = faults + 1
    /\ faulted' = [faulted EXCEPT ![a] = TRUE]

\* An exception: the lock is left, and `finally' follows.
Raise(a) ==
    /\ Goto(a, "leave")
    /\ got' = [got EXCEPT ![a] = "failed"]

Push ==
    /\ upstream < MaxPushes
    /\ upstream' = upstream + 1
    /\ UNCHANGED <<at, cache, copy, task, faults, orphans, crashes>>

-----------------------------------------------------------------------------
(* The lock, and the folder to work in.                                    *)

\* The task asks for a revision that is there by now.
Start(a) ==
    /\ at[a] = "idle"
    /\ Goto(a, "lock")
    /\ want' = [want EXCEPT ![a] = upstream]
    /\ where' = [where EXCEPT ![a] = "cache"]
    /\ again' = [again EXCEPT ![a] = FALSE]
    /\ got' = [got EXCEPT ![a] = "none"]
    /\ faulted' = [faulted EXCEPT ![a] = FALSE]
    /\ UNCHANGED <<cache, upstream, copy, faults, orphans, crashes>>

Acquire(a) ==
    /\ at[a] = "lock"
    /\ holder = Nobody
    /\ holder' = a
    /\ Goto(a, "look")
    /\ UNCHANGED <<kind, version, upstream, copy, task, faults, orphans, crashes>>

\* Mutant: the lock is not had, and the shared folder is used all the same.
LockTimeoutMutant(a) ==
    /\ at[a] = "lock"
    /\ Goto(a, "look")
    /\ UNCHANGED <<cache, upstream, copy, task, faults, orphans, crashes>>

\* It is not had in time, or an error keeps it from being had at all.
LockTimeout(a) ==
    /\ at[a] = "lock"
    /\ \E w \in OnTimeout :
         /\ where' = [where EXCEPT ![a] = w]
         /\ Goto(a, IF w = "temp" THEN "look" ELSE "clone")
    /\ UNCHANGED <<cache, upstream, copy, again, want, got, faulted, faults, orphans, crashes>>

\* Mutant: a clone that is there needs no pull.
LookMutant(a) ==
    /\ at[a] = "look"
    /\ Goto(a, IF Enabled /\ kind[Folder(a)] # "none" THEN "copy" ELSE "remove")
    /\ UNCHANGED <<cache, upstream, copy, task, faults, orphans, crashes>>

Look(a) ==
    /\ at[a] = "look"
    /\ Goto(a, IF Enabled /\ kind[Folder(a)] # "none" THEN "pull" ELSE "remove")
    /\ UNCHANGED <<cache, upstream, copy, task, faults, orphans, crashes>>

-----------------------------------------------------------------------------
(* rm_tree, clone and pull in the cache.                                   *)

\* A folder that is not there is none to remove.
Remove(a) ==
    /\ at[a] = "remove"
    /\ \E k \in {"broken", "jammed"} :
         Write(Folder(a), IF kind[Folder(a)] = "none" THEN "none" ELSE k)
    /\ Goto(a, "rmtree")
    /\ UNCHANGED <<holder, version, upstream, dest, has, task, faults, orphans, crashes>>

Removed(a) ==
    /\ at[a] = "rmtree"
    /\ Write(Folder(a), "none")
    /\ Goto(a, "clone")
    /\ UNCHANGED <<holder, version, upstream, dest, has, task, faults, orphans, crashes>>

\* rm_tree passes over what it cannot remove.
RemoveFails(a) ==
    /\ at[a] = "rmtree"
    /\ kind[Folder(a)] # "none"
    /\ Fault(a)
    /\ Write(Folder(a), "broken")
    /\ Goto(a, "clone")
    /\ UNCHANGED <<holder, version, upstream, dest, has, where, again, want, got,
                   orphans, crashes>>

\* git clones into a folder that is not there; it asks for the versions first.
Clone(a) ==
    /\ at[a] = "clone" /\ where[a] # "direct"
    /\ kind[Folder(a)] = "none"
    /\ Write(Folder(a), "growing")
    /\ version' = [version EXCEPT ![Folder(a)] = upstream]
    /\ Goto(a, "cloning")
    /\ UNCHANGED <<holder, upstream, dest, has, task, faults, orphans, crashes>>

Cloned(a) ==
    /\ at[a] = "cloning"
    /\ Write(Folder(a), "whole")
    /\ Goto(a, IF again[a] THEN "copy" ELSE "pull")
    /\ UNCHANGED <<holder, version, upstream, dest, has, task, faults, orphans, crashes>>

\* git removes what it made, but not if only a submodule fails.
CloneFails(a) ==
    /\ at[a] = "cloning"
    /\ Fault(a)
    /\ \E k \in {"none", "partial"} : Write(Folder(a), k)
    /\ Raise(a)
    /\ UNCHANGED <<holder, version, upstream, dest, has, where, again, want, orphans, crashes>>

\* The old folder is in the way.
CloneRefused(a) ==
    /\ at[a] = "clone" /\ where[a] # "direct"
    /\ kind[Folder(a)] # "none"
    /\ Raise(a)
    /\ UNCHANGED <<cache, upstream, copy, where, again, want, faulted, faults, orphans, crashes>>

\* Without the cache: into the destination, where nobody else looks.
CloneDirect(a) ==
    /\ at[a] = "clone" /\ where[a] = "direct"
    /\ \/ /\ dest' = [dest EXCEPT ![a] = "whole"]
          /\ has' = [has EXCEPT ![a] = upstream]
          /\ Goto(a, "checkout")
          /\ UNCHANGED got /\ NoFault
       \/ Fault(a) /\ Raise(a) /\ UNCHANGED <<dest, has>>
    /\ UNCHANGED <<cache, upstream, torn, where, again, want, orphans, crashes>>

Pull(a) ==
    /\ at[a] = "pull"
    /\ kind[Folder(a)] \in {"whole", "partial", "jammed"}
    /\ Write(Folder(a), IF kind[Folder(a)] = "jammed" THEN "jammed" ELSE "whole")
    /\ version' = [version EXCEPT ![Folder(a)] = upstream]
    /\ Goto(a, "copy")
    /\ UNCHANGED <<holder, upstream, dest, has, task, faults, orphans, crashes>>

PullFails(a) ==
    /\ at[a] = "pull"
    /\ \/ kind[Folder(a)] \in {"none", "growing", "broken"} /\ NoFault
       \/ Fault(a)
    /\ IF Enabled /\ Reclone
         THEN /\ Goto(a, "remove")
              /\ again' = [again EXCEPT ![a] = TRUE]
              /\ UNCHANGED got
         ELSE Raise(a) /\ UNCHANGED again
    /\ UNCHANGED <<cache, upstream, copy, where, want, orphans, crashes>>

-----------------------------------------------------------------------------
(* The copy, and the way out.                                              *)

Copy(a) ==
    /\ at[a] = "copy"
    /\ torn' = [torn EXCEPT ![a] = kind[Folder(a)] \notin {"whole", "jammed"}]
    /\ Goto(a, "copying")
    /\ UNCHANGED <<cache, upstream, dest, has, task, faults, orphans, crashes>>

Copied(a) ==
    /\ at[a] = "copying"
    /\ dest' = [dest EXCEPT ![a] = IF torn[a] THEN "broken" ELSE kind[Folder(a)]]
    /\ has' = [has EXCEPT ![a] = version[Folder(a)]]
    /\ Goto(a, "checkout")
    /\ UNCHANGED <<cache, upstream, torn, task, faults, orphans, crashes>>

\* The destination could not be emptied, or not be filled.
CopyFails(a) ==
    /\ at[a] \in {"copy", "copying"}
    /\ Fault(a)
    /\ Raise(a)
    /\ UNCHANGED <<cache, upstream, copy, where, again, want, orphans, crashes>>

\* The task may also name a revision that does not exist: a failure of its own.
Checkout(a) ==
    /\ at[a] = "checkout"
    /\ \/ /\ dest[a] = "whole" /\ has[a] >= want[a]
          /\ got' = [got EXCEPT ![a] = "ok"]
          /\ Goto(a, "leave") /\ NoFault
       \/ ~ (dest[a] = "whole" /\ has[a] >= want[a]) /\ Raise(a) /\ NoFault
       \/ Fault(a) /\ Raise(a)
    /\ UNCHANGED <<cache, upstream, copy, where, again, want, orphans, crashes>>

\* Mutant: the temporary folder is removed only if all went well.
LeaveMutant(a) ==
    /\ at[a] = "leave"
    /\ holder' = IF holder = a THEN Nobody ELSE holder
    /\ Goto(a, IF where[a] = "temp" /\ got[a] = "ok" THEN "untemp" ELSE "idle")
    /\ UNCHANGED <<kind, version, upstream, copy, task, faults, orphans, crashes>>

Leave(a) ==
    /\ at[a] = "leave"
    /\ holder' = IF holder = a THEN Nobody ELSE holder
    /\ Goto(a, IF where[a] = "temp" THEN "untemp" ELSE "idle")
    /\ UNCHANGED <<kind, version, upstream, copy, task, faults, orphans, crashes>>

\* What rm_tree passes over stays, by a random name that nobody uses again.
RemoveTemp(a) ==
    /\ at[a] = "untemp"
    /\ Write(a, "none")
    /\ \/ UNCHANGED <<orphans, faults>>
       \/ /\ kind[a] # "none"
          /\ faults < MaxFaults
          /\ faults' = faults + 1
          /\ orphans' = orphans + 1
    /\ Goto(a, "idle")
    /\ UNCHANGED <<holder, version, upstream, dest, has, task, crashes>>

-----------------------------------------------------------------------------
(* Agents that are killed, and the daemon that cleans up after them.       *)

\* What a kill leaves of a folder that git or rm_tree was at work in.
LeftBy(a) ==
    IF at[a] = "pull" THEN {kind[Folder(a)], "broken"}
                      ELSE {"none", "partial", "broken", "jammed"}

\* The lock goes with the process.
Crash(a) ==
    /\ at[a] \notin {"idle", "gone"}
    /\ crashes < MaxCrashes
    /\ crashes' = crashes + 1
    /\ IF at[a] \in {"rmtree", "cloning", "pull"}
         THEN \E k \in LeftBy(a) : Write(Folder(a), k)
         ELSE UNCHANGED <<kind, torn>>
    /\ holder' = IF holder = a THEN Nobody ELSE holder
    /\ Goto(a, "gone")
    /\ UNCHANGED <<version, upstream, dest, has, task, orphans, faults>>

\* A daemon that starts removes temporary folders that are days old, if it can.
CleanupOrphans ==
    /\ \E dead \in SUBSET {b \in Agents : at[b] = "gone" /\ kind[b] # "none"} :
         kind' = [f \in Folders |-> IF f \in dead THEN "none" ELSE kind[f]]
    /\ orphans' \in 0 .. orphans
    /\ UNCHANGED <<at, holder, version, upstream, copy, task, faults, crashes>>

AgentStep(a) ==
    \/ Start(a) \/ Acquire(a) \/ LockTimeout(a) \/ Look(a) \/ Remove(a)
    \/ Removed(a) \/ RemoveFails(a) \/ Clone(a) \/ Cloned(a) \/ CloneFails(a)
    \/ CloneRefused(a)
    \/ CloneDirect(a) \/ Pull(a) \/ PullFails(a) \/ Copy(a) \/ Copied(a) \/ CopyFails(a)
    \/ Checkout(a) \/ Leave(a) \/ RemoveTemp(a) \/ Crash(a)

Next == Push \/ CleanupOrphans \/ \E a \in Agents : AgentStep(a)

Spec == Init /\ [][Next]_vars

-----------------------------------------------------------------------------
(* Properties.                                                             *)

\* The state is of the shape the program keeps it in.
TypeOK ==
    /\ at \in [Agents -> PCs]
    /\ holder \in Agents \cup {Nobody}
    /\ kind \in [Folders -> Kinds]
    /\ version \in [Folders -> 0 .. upstream]
    /\ upstream \in 0 .. MaxPushes
    /\ where \in [Agents -> {"cache", "temp", "direct"}]
    /\ again \in [Agents -> BOOLEAN]
    /\ torn \in [Agents -> BOOLEAN]
    /\ dest \in [Agents -> Kinds]
    /\ has \in [Agents -> 0 .. upstream]
    /\ want \in [Agents -> 0 .. upstream]
    /\ got \in [Agents -> {"none", "ok", "failed"}]
    /\ faulted \in [Agents -> BOOLEAN]
    /\ orphans \in Nat
    /\ faults \in 0 .. MaxFaults
    /\ crashes \in 0 .. MaxCrashes

\* An agent fails for what went wrong with its own commands, never for
\* what another did to the cache.  It needs clone_on_pull_fail for that, and
\* even then a kill may leave the cache jammed for everybody.
OwnFaultsOnly ==
    \A a \in Agents :
        got[a] = "failed" =>
            faulted[a] \/ ~ Reclone \/ (crashes > 0 /\ dest[a] = "jammed")

\* The copy is never torn: nobody writes to a folder another agent copies.
CopiedWhole == \A a \in Agents : at[a] = "copying" => ~ torn[a]

\* What is copied from the cache has the version the task asks for.
CopiedFresh == \A a \in Agents : at[a] \in {"copy", "copying"} => version[Folder(a)] >= want[a]

\* Temporary folders do not pile up: however an operation ends, its folder is
\* gone with it, unless the agent was killed or rm_tree passed over some of it.
TempGone ==
    /\ \A a \in Agents :
         kind[a] # "none" => at[a] = "gone" \/ (where[a] = "temp" /\ at[a] # "idle")
    /\ orphans <= faults

==================================================================================
