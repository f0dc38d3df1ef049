----------------------------- MODULE Singleton -----------------------------
(***************************************************************************)
(* How the agents of one machine tell each other apart                     *)
(* (clearml_agent/helper/singleton.py, and its callers in                  *)
(* commands/worker.py): each keeps a file in the temporary folder, named   *)
(* by its pid and holding its worker id and its instance slot.  An agent   *)
(* that starts reads all files under a lock file, clears those of dead     *)
(* processes, refuses to run next to a live one with its worker id, and    *)
(* takes the smallest free slot, which names its working folders.          *)
(*                                                                         *)
(* Every file operation is a step.  A daemon that goes to the background   *)
(* forks, so its pid changes, and then renames its file.  The lock is a    *)
(* file that is looked for and then written, that is cleared after a       *)
(* timeout, and that covers the start only: agents may pass each other in  *)
(* these windows, and do so here.  "crossed" and "lost" note whom it       *)
(* happened to; the properties speak of all the others.                    *)
(***************************************************************************)
EXTENDS Integers, FiniteSets

CONSTANTS
    Procs,          \* the agents that are started, each once
    Given,          \* those with an agent.worker_id in the configuration, all
                    \* the same; the id of another is the machine's name and
                    \* its slot
    MaxKills        \* bound: agents killed without notice or while they start

ASSUME ConstantsAssumption ==
    /\ IsFiniteSet(Procs)
    /\ Given \subseteq Procs
    /\ MaxKills \in Nat

NoSlot == -1
Slots == Nat

\* A process has one pid, and another once it is in the background.
Pids == Procs \X {"front", "back"}

Registering == {"list", "read", "create", "fill", "unlock"}
Running == {"front", "forked", "daemon", "stopping"}
\* "check": it has not looked for the lock file yet, if it is started at all.
PCs == {"check", "open", "gone"} \cup Registering \cup Running

VARIABLES
    at,         \* [Procs -> PCs]
    pid,        \* [Procs -> {"front", "back"}]
    lockFile,   \* does the lock file exist
    files,      \* [Pids -> {"none", "empty", "full"}]: the pid files
    content,    \* [Pids -> Slots]: the slot in a full one
    slot,       \* [Procs -> Slots \cup {NoSlot}]: instance_slot
    listed,     \* [Procs -> SUBSET Pids]: the files still to be read
    slots,      \* [Procs -> SUBSET Slots]: the slots of live instances
    met,        \* [Procs -> BOOLEAN]: one of them has our worker id
    dead,       \* [Procs -> SUBSET Pids]: files whose pid does not exist
    reused,     \* the pids of killed agents that other processes have now
    killed,     \* the agents killed without notice or while they started
    crossed,    \* sets of two agents, of which one registered while the other
                \* was registering too, changed its pid, or shut down
    lost        \* the agents whose file was deleted while they changed their pid

folder == <<lockFile, files, content>>
memory == <<slot, listed, slots, met, dead>>
world == <<pid, reused, killed>>
vars == <<at, folder, memory, world, crossed, lost>>

TypeOK ==
    /\ at \in [Procs -> PCs]
    /\ pid \in [Procs -> {"front", "back"}]
    /\ lockFile \in BOOLEAN
    /\ files \in [Pids -> {"none", "empty", "full"}]
    /\ content \in [Pids -> Slots]
    /\ slot \in [Procs -> Slots \cup {NoSlot}]
    /\ listed \in [Procs -> SUBSET Pids]
    /\ slots \in [Procs -> SUBSET Slots]
    /\ met \in [Procs -> BOOLEAN]
    /\ dead \in [Procs -> SUBSET Pids]
    /\ reused \subseteq Pids
    /\ killed \subseteq Procs
    /\ crossed \subseteq SUBSET Procs
    /\ lost \subseteq Procs

Init ==
    /\ at = [p \in Procs |-> "check"]
    /\ pid = [p \in Procs |-> "front"]
    /\ lockFile = FALSE
    /\ files = [i \in Pids |-> "none"]
    /\ content = [i \in Pids |-> 0]
    /\ slot = [p \in Procs |-> NoSlot]
    /\ listed = [p \in Procs |-> {}]
    /\ slots = [p \in Procs |-> {}]
    /\ met = [p \in Procs |-> FALSE]
    /\ dead = [p \in Procs |-> {}]
    /\ reused = {}
    /\ killed = {} /\ crossed = {} /\ lost = {}

Pid(p) == <<p, pid[p]>>

Step(p, from, to) == at[p] = from /\ at' = [at EXCEPT ![p] = to]

\* Mutant: the pid in the file's name is not looked up.
ExistsMutant(i) == TRUE

\* psutil.pid_exists
Exists(i) ==
    \/ i \in reused
    \/ at[i[1]] # "gone" /\ Pid(i[1]) = i

\* Between the look for the lock file and its removal.
Busy == {p \in Procs : at[p] \in {"open"} \cup Registering}

\* The windows of the lock: p finds no lock file, or clears it, while q is busy;
\* p is busy while q has another pid than its file says, or no file any more.
Crossing(p, q) ==
    \/ at[p] = "check" /\ at'[p] = "open" /\ ~lockFile' /\ q \in Busy
    \/ p \in Busy' /\ at'[q] \in {"forked", "stopping"}

Unnamed == {p \in Procs : at[p] = "forked" /\ files[<<p, "front">>] = "none"}

Note ==
    /\ crossed' = crossed \cup
           {{x[1], x[2]} : x \in {y \in Procs \X Procs : y[1] # y[2] /\ Crossing(y[1], y[2])}}
    /\ lost' = lost \cup Unnamed'

-----------------------------------------------------------------------------
(* register_instance                                                       *)

\* Mutant: the lock is not waited for.
CheckLockMutant(p) ==
    /\ Step(p, "check", "open")
    /\ UNCHANGED <<folder, memory, world>>

\* The file is looked for, and only then opened.
CheckLock(p) ==
    /\ Step(p, "check", "open")
    /\ ~lockFile
    /\ UNCHANGED <<folder, memory, world>>

\* Mutant: the lock is waited for without a timeout.
ClearLockMutant(p) == FALSE /\ UNCHANGED vars

\* _lock_timeout: the lock is cleared, whoever's it is.
ClearLock(p) ==
    /\ Step(p, "check", "open")
    /\ lockFile
    /\ lockFile' = FALSE
    /\ UNCHANGED <<files, content, memory, world>>

OpenLock(p) ==
    /\ Step(p, "open", "list")
    /\ lockFile' = TRUE
    /\ UNCHANGED <<files, content, memory, world>>

\* get_running_pids: glob() lists the files.
ListFiles(p) ==
    /\ Step(p, "list", "read")
    /\ listed' = [listed EXCEPT ![p] = {i \in Pids : files[i] # "none"}]
    /\ UNCHANGED <<folder, slot, slots, met, dead, world>>

\* A file's pid is looked up and its content read, if it is there and full.
ReadFile(p, i) ==
    /\ at[p] = "read"
    /\ i \in listed[p]
    /\ listed' = [listed EXCEPT ![p] = @ \ {i}]
    /\ CASE ~Exists(i) ->
              /\ dead' = [dead EXCEPT ![p] = @ \cup {i}]
              /\ UNCHANGED <<slots, met>>
         [] Exists(i) /\ files[i] = "full" ->
              /\ slots' = [slots EXCEPT ![p] = @ \cup {content[i]}]
              /\ met' = [met EXCEPT ![p] = @ \/ {p, i[1]} \subseteq Given]
              /\ UNCHANGED dead
         [] OTHER -> UNCHANGED <<slots, met, dead>>
    /\ UNCHANGED <<at, folder, slot, world>>

\* What _register_instance found is forgotten once it returns.
Returned(p) ==
    /\ dead' = [dead EXCEPT ![p] = {}]
    /\ slots' = [slots EXCEPT ![p] = {}]
    /\ listed' = [listed EXCEPT ![p] = {}]

\* the files of dead processes are deleted
Cleared(D) == [i \in Pids |-> IF i \in D THEN "none" ELSE files[i]]

\* Mutant: the slot is the number of live instances.
SmallestFreeMutant(S) == Cardinality(S)

SmallestFree(S) ==
    CHOOSE n \in 0..Cardinality(S) :
        n \notin S /\ \A m \in 0..Cardinality(S) : m < n => m \in S

\* Another instance has our worker id: the loop over the files ends there.
Refuse(p) ==
    /\ Step(p, "read", "unlock")
    /\ listed[p] = {} /\ met[p]
    /\ \E D \in SUBSET dead[p] : files' = Cleared(D)
    /\ Returned(p)
    /\ UNCHANGED <<lockFile, content, slot, met, world>>

TakeSlot(p) ==
    /\ Step(p, "read", "create")
    /\ listed[p] = {} /\ ~met[p]
    /\ files' = Cleared(dead[p])
    /\ slot' = [slot EXCEPT ![p] = SmallestFree(slots[p])]
    /\ Returned(p)
    /\ UNCHANGED <<lockFile, content, met, world>>

CreateFile(p) ==
    /\ Step(p, "create", "fill")
    /\ files' = [files EXCEPT ![Pid(p)] = "empty"]
    /\ UNCHANGED <<lockFile, content, memory, world>>

FillFile(p) ==
    /\ Step(p, "fill", "unlock")
    /\ files' = [files EXCEPT ![Pid(p)] = IF @ = "empty" THEN "full" ELSE @]
    /\ content' = [content EXCEPT ![Pid(p)] = slot[p]]
    /\ UNCHANGED <<lockFile, memory, world>>

\* An agent that got no worker id exits.
RemoveLock(p) ==
    /\ Step(p, "unlock", IF slot[p] = NoSlot THEN "gone" ELSE "front")
    /\ lockFile' = FALSE
    /\ UNCHANGED <<files, content, memory, world>>

-----------------------------------------------------------------------------
(* The agent's life after that.                                            *)

\* daemonize_process: the second child goes on, under its own pid.
Fork(p) ==
    /\ Step(p, "front", "forked")
    /\ pid[p] = "front"
    /\ pid' = [pid EXCEPT ![p] = "back"]
    /\ UNCHANGED <<folder, memory, reused, killed>>

\* Mutant: the file keeps the name it has.
RenamedMutant(p) == UNCHANGED <<files, content>>

\* The renamed file; a rename that fails is ignored.
Renamed(p) ==
    LET old == <<p, "front">>
        new == <<p, "back">>
    IN  IF files[old] = "none"
        THEN UNCHANGED <<files, content>>
        ELSE /\ files' = [files EXCEPT ![new] = files[old], ![old] = "none"]
             /\ content' = [content EXCEPT ![new] = content[old]]

UpdatePidFile(p) ==
    /\ Step(p, "forked", "daemon")
    /\ Renamed(p)
    /\ UNCHANGED <<lockFile, memory, world>>

\* The file the agent has under its name, which an agent that forked has not
\* changed yet.
OwnFile(p) == <<p, IF at[p] = "forked" THEN "front" ELSE pid[p]>>

\* SIGTERM, from `daemon --stop' or another sender.  The handler removes the
\* file first: the agent is still to unregister and to leave what it is doing.
Stop(p) ==
    /\ at[p] \in {"front", "forked", "daemon"}
    /\ at' = [at EXCEPT ![p] = "stopping"]
    /\ files' = [files EXCEPT ![OwnFile(p)] = "none"]
    /\ UNCHANGED <<lockFile, content, memory, world>>

\* SIGTERM while it registers: the exception is taken for a failure once the
\* lock file is there, which is then removed, and ends the agent elsewhere.
Interrupt(p) ==
    /\ at[p] \in {"check", "open"} \cup Registering
    /\ Cardinality(killed) < MaxKills
    /\ killed' = killed \cup {p}
    /\ files' = [files EXCEPT ![Pid(p)] = "none"]
    /\ IF at[p] \in {"list", "read", "create", "fill"}
         THEN /\ at' = [at EXCEPT ![p] = "unlock"]
              /\ slot' = [slot EXCEPT ![p] = NoSlot]
         ELSE at' = [at EXCEPT ![p] = "gone"] /\ UNCHANGED slot
    /\ Returned(p)
    /\ UNCHANGED <<lockFile, content, met, pid, reused>>

Exit(p) ==
    /\ Step(p, "stopping", "gone")
    /\ UNCHANGED <<folder, memory, world>>

\* killed, or the machine went down
Crash(p) ==
    /\ at[p] # "gone"
    /\ Cardinality(killed) < MaxKills
    /\ at' = [at EXCEPT ![p] = "gone"]
    /\ killed' = killed \cup {p}
    /\ Returned(p)
    /\ UNCHANGED <<folder, slot, met, pid, reused>>

\* Some other process gets the pid of an agent that left its file behind.
ReusePid(i) ==
    /\ files[i] # "none"
    /\ ~Exists(i)
    /\ reused' = reused \cup {i}
    /\ UNCHANGED <<at, folder, memory, pid, killed>>

Register(p) ==
    \/ CheckLock(p) \/ ClearLock(p) \/ OpenLock(p) \/ ListFiles(p)
    \/ (\E i \in Pids : ReadFile(p, i))
    \/ Refuse(p) \/ TakeSlot(p) \/ CreateFile(p)
    \/ FillFile(p) \/ RemoveLock(p)

Agent ==
    \/ \E p \in Procs :
         \/ Register(p) \/ Fork(p) \/ UpdatePidFile(p)
         \/ Stop(p) \/ Interrupt(p) \/ Exit(p) \/ Crash(p)
    \/ \E i \in Pids : ReusePid(i)

Next == Agent /\ Note

Spec == Init /\ [][Next]_vars

\* A process runs on, until it is killed.
Fairness ==
    \A p \in Procs :
        WF_vars(Register(p) /\ Note) /\ WF_vars(Exit(p) /\ Note)
FairSpec == Spec /\ Fairness

-----------------------------------------------------------------------------
(* What it is for.                                                         *)

Up == {p \in Procs : at[p] \in Running}

\* They registered one after the other, while the other's file told of it.
SawEachOther(p, q) == {p, q} \notin crossed /\ {p, q} \cap lost = {}

\* `make sure we only have a single instance' (worker.py:2295): no two agents
\* run under one worker id, which would be one worker to the server, unless one
\* registered in a window of the lock, or after a window had cost the other its
\* file.  Files of killed agents, reused pids and interrupted starts never do it.
SingleInstance ==
    \A p, q \in Up \cap Given : p # q => ~SawEachOther(p, q)

\* The agents of a machine have slots of their own, with that exception: two
\* with one slot build their virtual environments in one folder
\* (session.create_cache_folders).
SlotsDiffer ==
    \A p, q \in Up : p # q /\ SawEachOther(p, q) => slot[p] # slot[q]

\* An agent that runs is on record under its pid, so that `daemon --stop' and
\* the next agent to start find it, but for the moment its pid changes and
\* once it shuts down, and unless another that was registering at that moment
\* took its file for a dead agent's.
OnRecord ==
    \A p \in Up \ lost : at[p] \notin {"forked", "stopping"} =>
        files[Pid(p)] = "full" /\ content[Pid(p)] = slot[p]

\* Without the exceptions: refuted by each window of the lock.
AlwaysSingle == \A p, q \in Up \cap Given : p = q
AlwaysOnRecord ==
    \A p \in Up : at[p] \notin {"forked", "stopping"} => files[Pid(p)] = "full"

\* The slot that an agent finds taken is a live agent's, so that it is
\* refused for cause: files that killed agents left behind do not count,
\* unless another process has the pid.
TakenByTheLiving ==
    [][\A p \in Procs : \A n \in slots'[p] \ slots[p] :
        \/ \E q \in Procs \ {p} : at[q] \in Registering \cup Running /\ slot[q] = n
        \/ \E i \in reused : content[i] = n]_vars

\* Whatever an agent that was killed left behind, a lock file or a pid file,
\* the next one comes up, unless it is killed itself or found another alive.
ComesUp ==
    \A p \in Procs :
        at[p] = "check" ~>
            \/ p \in Up
            \/ at[p] = "gone" /\ (p \in killed \/ met[p])

=============================================================================
