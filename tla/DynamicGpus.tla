---------------------------- MODULE DynamicGpus ----------------------------
(***************************************************************************)
(* `clearml-agent daemon --dynamic-gpus': one daemon shares its GPUs among *)
(* the tasks of several queues (clearml_agent/commands/worker.py,          *)
(* run_tasks_loop, _dynamic_gpu_get_available and the reservation ledger). *)
(*                                                                         *)
(* The daemon has no table of what it gave away: on each pass it asks the  *)
(* server which workers are registered, reads the GPUs out of their names  *)
(* ("<host>:gpu0,1", "<host>:gpu0.5a"), and adds the launches it remembers *)
(* that have not registered yet.  Containers boot, register, end and die   *)
(* between any two of its steps.                                           *)
(*                                                                         *)
(* Fractions are integers: Unit is one whole GPU.  Time is two events: a   *)
(* reservation outlives its TTL, the server forgets a worker not heard of  *)
(* for last_seen seconds.                                                  *)
(***************************************************************************)
EXTENDS Integers, Sequences, FiniteSets, FiniteSetsExt

CONSTANTS
    Tasks,          \* the tasks that users enqueue
    NoTask,         \* what the daemon holds between two tasks
    Gpus,           \* the indexes of --gpus
    Unit,           \* one whole GPU
    Letters,        \* the length of ascii_lowercase
    MinMax,         \* gpu_queues: <<min, max>> of each queue, by priority
    OrderFairness,  \* --order-fairness: round robin instead of priority
    Prompt,         \* live containers register before the TTL, and report
    MaxFaults       \* bound: failed requests and failed launches

ASSUME ConstantsAssumption ==
    /\ NoTask \notin Tasks
    /\ Gpus \subseteq Nat /\ IsFiniteSet(Gpus)
    /\ Unit \in Nat \ {0}
    /\ Letters \in Nat
    /\ MinMax \in Seq((Nat \ {0}) \X (Nat \ {0})) /\ MinMax # <<>>
    /\ \A q \in DOMAIN MinMax :
          /\ MinMax[q][1] <= MinMax[q][2]
          \* _parse_dynamic_gpus: `fractional gpu cannot be > 1'
          /\ \A i \in 1..2 : MinMax[q][i] > Unit => MinMax[q][i] % Unit = 0
    /\ OrderFairness \in BOOLEAN
    /\ Prompt \in BOOLEAN
    /\ MaxFaults \in Nat

Queues == DOMAIN MinMax
MinGpu(q) == MinMax[q][1]
MaxGpu(q) == MinMax[q][2]

\* A GPU suffix of a worker's name: "0" is a whole GPU, "0.5a" a fraction
\* of GPU 0; letter 0 stands for the name left without one.
Slots == [gpu : Gpus, size : 1..Unit, letter : 0..Letters]
WholeSlot(g) == [gpu |-> g, size |-> Unit, letter |-> 0]
IsWhole(s) == s.size = Unit

VARIABLES
    \* the server
    queue,      \* [Queues -> SUBSET Tasks]
    known,      \* the registered workers, each the set of slots of its name
    published,  \* runtime property available_gpus: does it name any GPU
    \* the daemon
    pc,         \* where run_tasks_loop is
    qi,         \* the queue of the pass
    held,       \* the task between the pull and the end of run_one_task
    seen,       \* the answer of workers.get_all
    available,  \* available_gpus: [SUBSET Gpus -> Int]
    allocated,  \* the keys of allocated_gpus
    reserved,   \* the keys of _dynamic_gpus_reservations
    expired,    \* those held longer than _dynamic_gpus_reservation_ttl
    owner,      \* dict_task_gpus_ids: [SUBSET Slots -> Tasks]
    \* the containers
    child,      \* [Tasks -> ChildStates]
    slots,      \* [Tasks -> SUBSET Slots]: the worker name given to each
    missed,     \* those that `docker ps' or `docker stop' failed to end
    faults      \* failures so far

serverVars == <<queue, known, published>>
ledgerVars == <<allocated, reserved, expired, owner>>
childVars == <<child, slots, missed>>
vars == <<serverVars, pc, qi, held, seen, available, ledgerVars, childVars,
          faults>>

\* "boot": the daemon follows the container's log until the agent inside
\* takes over ("run"); "shut": the daemon stopped it while leaving the loop.
ChildStates == {"none", "boot", "run", "done", "shut"}
Live == {t \in Tasks : child[t] \in {"boot", "run"}}

\* the tasks with GPUs of their own: running, or about to
Holding == {t \in Tasks : t \in Live \/ t = held}

PCs == {"setup", "top", "account", "props", "peek", "pull", "alloc", "launch",
        "boot"}

TypeOK ==
    /\ queue \in [Queues -> SUBSET Tasks]
    /\ known \subseteq SUBSET Slots
    /\ published \in BOOLEAN
    /\ pc \in PCs
    /\ qi \in Queues
    /\ held \in Tasks \cup {NoTask}
    /\ seen \subseteq SUBSET Slots
    /\ DOMAIN available \subseteq Gpus
    /\ \A g \in DOMAIN available : available[g] \in -Unit..Unit
    /\ allocated \subseteq Slots
    /\ reserved \subseteq Slots
    /\ expired \subseteq reserved
    /\ DOMAIN owner \subseteq Slots
    /\ \A s \in DOMAIN owner : owner[s] \in Tasks
    /\ child \in [Tasks -> ChildStates]
    /\ slots \in [Tasks -> SUBSET Slots]
    /\ missed \subseteq Tasks
    /\ faults \in 0..MaxFaults

\* The daemon has published all its GPUs (_register_dynamic_gpus).
Init ==
    /\ queue = [q \in Queues |-> {}]
    /\ known = {}
    /\ published = TRUE
    /\ pc = "setup"
    /\ qi = 1
    /\ held = NoTask
    /\ seen = {}
    /\ available = <<>>
    /\ allocated = {}
    /\ reserved = {}
    /\ expired = {}
    /\ owner = <<>>
    /\ child = [t \in Tasks |-> "none"]
    /\ slots = [t \in Tasks |-> {}]
    /\ missed = {}
    /\ faults = 0

Fault ==
    /\ faults < MaxFaults
    /\ faults' = faults + 1

\* A slot as the units it takes of its GPU; the sum of sizes is their number.
Units(S) == {u \in S \X (1..Unit) : u[2] <= u[1].size}
SumSizes(S) == Cardinality(Units(S))
On(g, S) == {s \in S : s.gpu = g}

-----------------------------------------------------------------------------
(* Users and the other agents of the queues.                               *)

New(t) ==
    /\ child[t] = "none"
    /\ slots[t] = {}
    /\ held # t
    /\ \A q \in Queues : t \notin queue[q]

Enqueue(t, q) ==
    /\ New(t)
    /\ queue' = [queue EXCEPT ![q] = @ \cup {t}]
    /\ UNCHANGED <<known, published, pc, qi, held, seen, available,
                   ledgerVars, childVars, faults>>

\* Another agent pulls the entry, or a user dequeues the task.
Taken(t, q) ==
    /\ t \in queue[q]
    /\ queue' = [queue EXCEPT ![q] = @ \ {t}]
    /\ child' = [child EXCEPT ![t] = "done"]
    /\ UNCHANGED <<known, published, pc, qi, held, seen, available,
                   ledgerVars, slots, missed, faults>>

-----------------------------------------------------------------------------
(* The daemon.                                                             *)

\* The containers the daemon has a record of.
Recorded == {t \in Live : \E s \in DOMAIN owner : owner[s] = t}

\* The exception leaves run_tasks_loop: its `finally' stops every container
\* it has a record of, and daemon() enters it again.  shutdown_docker_process
\* passes over what fails: such a container goes on, and is forgotten.
Crash ==
    /\ pc' = "setup"
    /\ held' = NoTask
    /\ \E left \in SUBSET Recorded :
          /\ child' = [t \in Tasks |->
                          IF t \in Recorded \ left THEN "shut" ELSE child[t]]
          /\ missed' = missed \cup left
    /\ owner' = <<>>

\* _setup_dynamic_gpus parses the published value; of an empty one, the
\* unpacking of ''.split('_') raises, and daemon() tries again.
Setup ==
    /\ pc = "setup"
    /\ published
    /\ pc' = "top"
    /\ UNCHANGED <<serverVars, qi, held, seen, available, ledgerVars,
                   childVars, faults>>

QueryWorkers ==
    /\ pc = "top"
    /\ \/ /\ seen' = known
          /\ pc' = "account"
          /\ UNCHANGED faults
       \/ /\ Fault      \* sleep, and start over
          /\ UNCHANGED <<seen, pc>>
    /\ UNCHANGED <<serverVars, qi, held, available, ledgerVars, childVars>>

\* What the names of the registered workers say of GPU g.  The name of a
\* fraction without a letter reads as a MIG slice, a GPU of its own.
Registered(g) ==
    LET mine == On(g, UNION seen)
    IN  IF \E s \in mine : IsWhole(s)
        THEN Unit
        ELSE SumSizes({s \in mine : s.letter # 0})

\* Mutants: the ledger is forgotten; a registered worker keeps its
\* reservation; a reservation has no TTL.
StillPendingForgotten == {}
StillPendingDoubled == {s \in reserved : s \notin expired}
StillPendingForever == {s \in reserved : s \notin UNION seen}

StillPending == {s \in reserved : s \notin UNION seen /\ s \notin expired}

\* Mutant: the pass begins whatever is free.
EnterPassMutant(free) == pc' = "props" /\ qi' = 1

EnterPass(free) ==
    IF free = {} THEN pc' = "top" /\ UNCHANGED qi
                 ELSE pc' = "props" /\ qi' = 1

AccountReservations ==
    /\ pc = "account"
    /\ LET used(g) == Registered(g) + SumSizes(On(g, StillPending))
           free == {g \in Gpus : used(g) < Unit}
       IN  /\ available' = [g \in free |-> Unit - used(g)]
           /\ EnterPass(free)
    /\ reserved' = StillPending
    /\ expired' = {}
    /\ allocated' = (UNION seen) \cup StillPending
    /\ UNCHANGED <<serverVars, held, seen, owner, childVars, faults>>

\* get_worker_properties is not guarded: its failure leaves the loop.
GetProperties ==
    /\ pc = "props"
    /\ \/ /\ pc' = "peek"
          /\ UNCHANGED <<held, child, missed, owner, faults>>
       \/ Fault /\ Crash
    /\ UNCHANGED <<serverVars, qi, seen, available, allocated, reserved,
                   expired, slots>>

NextQueue ==
    IF qi + 1 \in Queues
    THEN qi' = qi + 1 /\ pc' = "peek"
    ELSE pc' = "top" /\ UNCHANGED qi

Whole == {g \in DOMAIN available : available[g] >= Unit}

\* the largest share one GPU offers, or all the whole GPUs together
MostAvailable ==
    Max({available[g] : g \in DOMAIN available} \cup {Cardinality(Whole) * Unit})

\* Mutant: a GPU partly taken counts as a whole one.
NotEnoughMutant(q) == MinGpu(q) > Cardinality(DOMAIN available) * Unit

NotEnough(q) == MinGpu(q) > MostAvailable

Peek ==
    /\ pc = "peek"
    /\ \/ /\ Fault      \* start over from the highest priority queue
          /\ pc' = "top"
          /\ UNCHANGED <<qi, held, child, missed, owner>>
       \/ /\ queue[qi] = {}
          /\ NextQueue
          /\ UNCHANGED <<held, child, missed, owner, faults>>
       \/ /\ queue[qi] # {}
          /\ DOMAIN available = {}      \* max() of an empty list raises
          /\ Crash
          /\ UNCHANGED <<qi, faults>>
       \/ /\ queue[qi] # {}
          /\ DOMAIN available # {}
          /\ pc' = IF NotEnough(qi) THEN "top" ELSE "pull"
          /\ UNCHANGED <<qi, held, child, missed, owner, faults>>
    /\ UNCHANGED <<serverVars, seen, available, allocated, reserved, expired,
                   slots>>

\* get_next_task and the `pulled by agent' mark.  The queue may be empty by
\* now, the request may fail, the owner's login may be refused after it, or
\* raise, which get_task_session does not catch.
GetNextTask ==
    /\ pc = "pull"
    /\ \/ \E t \in queue[qi] :
             /\ queue' = [queue EXCEPT ![qi] = @ \ {t}]
             /\ \/ /\ held' = t
                   /\ pc' = "alloc"
                   /\ UNCHANGED <<qi, child, missed, owner, faults>>
                \/ /\ Fault
                   /\ child' = [child EXCEPT ![t] = "done"]
                   /\ NextQueue
                   /\ UNCHANGED <<held, missed, owner>>
                \/ Fault /\ Crash /\ UNCHANGED qi
       \/ /\ \/ queue[qi] = {} /\ UNCHANGED faults
             \/ Fault
          /\ NextQueue
          /\ UNCHANGED <<queue, held, child, missed, owner>>
    /\ UNCHANGED <<known, published, seen, available, allocated, reserved,
                   expired, slots>>

-----------------------------------------------------------------------------
(* The choice of the GPUs for a task pulled from queue q.                  *)

\* the first GPUs of the list, as many as the queue may take
FirstWhole(q) ==
    LET n == Min({MaxGpu(q) \div Unit, Cardinality(Whole)})
    IN  CHOOSE S \in SUBSET Whole :
           /\ Cardinality(S) = n
           /\ \A g \in S, h \in Whole \ S : g < h

Request(q) == Min({MaxGpu(q), Unit})

\* the fullest GPU that still has room for the queue's maximum
BestFit(q) ==
    LET fit == {g \in DOMAIN available : /\ available[g] >= MinGpu(q)
                                         /\ available[g] >= Request(q)}
    IN  IF fit = {}
        THEN {}
        ELSE {CHOOSE g \in fit : \A h \in fit :
                 \/ available[g] < available[h]
                 \/ available[g] = available[h] /\ g <= h}

\* no GPU has it: the emptiest one that has the queue's minimum
Emptiest(q) ==
    LET enough == {g \in DOMAIN available : available[g] >= MinGpu(q)}
    IN  CHOOSE g \in enough : \A h \in enough :
           \/ available[g] > available[h]
           \/ available[g] = available[h] /\ g >= h

\* avail_fract, in eighths of a GPU
Eighths(g) == (available[g] * 8) \div Unit

\* `fractions = [avail_fract/float(avail_fract)]'
PartialShare(g) == Unit

\* Mutants: always the letter `a'; the letter by the count of the names.
NamedAlike(g, size) == [gpu |-> g, size |-> size, letter |-> 1]
NamedByCount(g, size) ==
    [gpu |-> g, size |-> size, letter |-> Cardinality(allocated) + 1]

Named(g, size) ==
    LET free == {x \in 1..Letters :
                    [gpu |-> g, size |-> size, letter |-> x] \notin allocated}
    IN  [gpu |-> g, size |-> size, letter |-> IF free = {} THEN 0 ELSE Min(free)]

SlotsOfShare(g, size) ==
    IF size < Unit THEN {Named(g, size)} ELSE {WholeSlot(g)}

Reduced(g, size) == [available EXCEPT ![g] = @ - size]

\* Mutant: the record keeps the first task of a suffix.
GrantMutant(S, left) ==
    /\ slots' = [slots EXCEPT ![held] = S]
    /\ available' = left
    /\ published' = (DOMAIN left # {})
    /\ allocated' = allocated \cup {s \in S : ~IsWhole(s)}
    /\ reserved' = reserved \cup S
    /\ expired' = expired \ S
    /\ owner' = [s \in S \cup DOMAIN owner |->
                    IF s \in DOMAIN owner THEN owner[s] ELSE held]
    /\ pc' = "launch"
    /\ UNCHANGED <<held, child, missed>>

Grant(S, left) ==
    /\ slots' = [slots EXCEPT ![held] = S]
    /\ available' = left
    /\ published' = (DOMAIN left # {})
    /\ allocated' = allocated \cup {s \in S : ~IsWhole(s)}
    /\ reserved' = reserved \cup S
    /\ expired' = expired \ S
    /\ owner' = [s \in S \cup DOMAIN owner |->
                    IF s \in S THEN held ELSE owner[s]]
    /\ pc' = "launch"
    /\ UNCHANGED <<held, child, missed>>

TakeWhole(q) ==
    /\ MaxGpu(q) >= Unit
    /\ Whole # {}
    /\ LET G == FirstWhole(q)
       IN  Grant({WholeSlot(g) : g \in G},
                 [g \in DOMAIN available \ G |-> available[g]])

TakeFraction(q) ==
    /\ MaxGpu(q) < Unit \/ Whole = {}
    /\ \E g \in BestFit(q) :
          Grant(SlotsOfShare(g, Request(q)), Reduced(g, Request(q)))

TakePartial(q) ==
    /\ MaxGpu(q) < Unit \/ Whole = {}
    /\ BestFit(q) = {}
    /\ LET g == Emptiest(q)
       IN  IF Eighths(g) = 0
           THEN \* division by zero
                /\ Crash
                /\ UNCHANGED <<published, available, allocated, reserved,
                               expired, slots>>
           ELSE Grant(SlotsOfShare(g, PartialShare(g)),
                      Reduced(g, PartialShare(g)))

\* clearml_agent_fractional_gpu cannot be loaded: the exception goes on.
FractionFails(q) ==
    /\ MaxGpu(q) < Unit \/ Whole = {}
    /\ Fault
    /\ Crash
    /\ UNCHANGED <<published, available, allocated, reserved, expired, slots>>

Allocate ==
    /\ pc = "alloc"
    /\ \/ FractionFails(qi)
       \/ /\ TakeWhole(qi) \/ TakeFraction(qi) \/ TakePartial(qi)
          /\ UNCHANGED faults
    /\ UNCHANGED <<queue, known, qi, seen>>

-----------------------------------------------------------------------------
(* run_one_task                                                            *)

\* back in the loop: priority starts over, round robin goes on
AfterRun ==
    /\ held' = NoTask
    /\ IF OrderFairness /\ qi + 1 \in Queues
       THEN qi' = qi + 1 /\ pc' = "props"
       ELSE pc' = "top" /\ UNCHANGED qi

Launch ==
    /\ pc = "launch"
    /\ \/ /\ child' = [child EXCEPT ![held] = "boot"]
          /\ pc' = "boot"
          /\ UNCHANGED <<qi, held, missed, owner, faults>>
       \/ /\ Fault      \* `started' refused: the task is skipped
          /\ AfterRun
          /\ UNCHANGED <<child, missed, owner>>
       \/ /\ Fault      \* run_one_task raises
          /\ Crash
          /\ UNCHANGED qi
    /\ UNCHANGED <<serverVars, seen, available, allocated, reserved, expired,
                   slots>>

\* The agent in the container took over, or the container is gone.
RunReturns ==
    /\ pc = "boot"
    /\ child[held] # "boot"
    /\ AfterRun
    /\ UNCHANGED <<serverVars, seen, available, ledgerVars, childVars, faults>>

-----------------------------------------------------------------------------
(* The containers, and the server's list of workers.                       *)

TakesOver(t) ==
    /\ child[t] = "boot"
    /\ child' = [child EXCEPT ![t] = "run"]
    /\ UNCHANGED <<serverVars, pc, qi, held, seen, available, ledgerVars,
                   slots, missed, faults>>

\* the first report of the agent in the container
Register(t) ==
    /\ t \in Live
    /\ slots[t] \notin known
    /\ known' = known \cup {slots[t]}
    /\ UNCHANGED <<queue, published, pc, qi, held, seen, available,
                   ledgerVars, childVars, faults>>

\* The task ends and its agent unregisters, or all of it dies.
End(t) ==
    /\ t \in Live
    /\ child' = [child EXCEPT ![t] = "done"]
    /\ known' \in {known, known \ {slots[t]}}
    /\ UNCHANGED <<queue, published, pc, qi, held, seen, available,
                   ledgerVars, slots, missed, faults>>

\* last_seen=600
Forget(w) ==
    /\ w \in known
    /\ Prompt => \A t \in Live : slots[t] # w
    /\ known' = known \ {w}
    /\ UNCHANGED <<queue, published, pc, qi, held, seen, available,
                   ledgerVars, childVars, faults>>

\* A prompt container is registered by then, and soon enough for an answer of
\* the server that is being read to list it.
Expire(s) ==
    /\ s \in reserved \ expired
    /\ Prompt =>
          /\ \A t \in Holding : s \in slots[t] => slots[t] \in known
          /\ pc = "account" => \A w \in known \ seen : s \notin w
    /\ expired' = expired \cup {s}
    /\ UNCHANGED <<serverVars, pc, qi, held, seen, available, allocated,
                   reserved, owner, childVars, faults>>

Daemon == \/ Setup \/ QueryWorkers \/ AccountReservations \/ GetProperties
          \/ Peek \/ GetNextTask \/ Allocate \/ Launch \/ RunReturns

Next ==
    \/ Daemon
    \/ \E t \in Tasks : \/ TakesOver(t) \/ Register(t) \/ End(t)
                        \/ \E q \in Queues : Enqueue(t, q) \/ Taken(t, q)
    \/ \E w \in known : Forget(w)
    \/ \E s \in reserved : Expire(s)

Spec == Init /\ [][Next]_vars

\* The daemon is one process that never blocks, a container ends, and the
\* server's clock and the daemon's go on.
Fairness ==
    /\ WF_vars(Daemon)
    /\ \A t \in Tasks : WF_vars(TakesOver(t)) /\ WF_vars(End(t))
    /\ WF_vars(\E w \in known : Forget(w))
    /\ WF_vars(\E s \in reserved : Expire(s))

FairSpec == Spec /\ Fairness

-----------------------------------------------------------------------------
(* What the allocation promises.                                           *)

\* The shares of the tasks that run on a GPU, or are about to, never add up
\* to more than the GPU: _reserve_dynamic_gpus is there for `preventing the
\* daemon from over-pulling tasks onto a GPU' while a container has not
\* registered yet, and the server's list must take over from it seamlessly.
NoOverPull ==
    \A g \in Gpus :
        Cardinality(UNION {{t} \X Units(On(g, slots[t])) : t \in Holding}) <= Unit

\* A task is launched on at least the GPUs its queue demands and at most
\* what it allows: the check made before the pull still covers the
\* allocation made after it.
EnoughGpus ==
    pc = "launch" =>
        /\ SumSizes(slots[held]) >= MinGpu(qi)
        /\ SumSizes(slots[held]) <= MaxGpu(qi)

\* No two containers get the same suffix: their workers would be one entry
\* in the server's list, counted once.
SuffixesDiffer ==
    \A t, u \in Holding : t # u => slots[t] \cap slots[u] = {}

\* A pass starts with all of a GPU that no slot in use, listed by the server
\* or reserved claims: a container that registered is not charged a second
\* time for its reservation.
ChargedOnce ==
    pc = "props" /\ qi = 1 =>
        LET claims == (UNION {slots[t] : t \in Live}) \cup (UNION seen) \cup reserved
        IN  \A g \in Gpus :
                LET free == Unit - SumSizes(On(g, claims))
                IN  free > 0 => g \in DOMAIN available /\ available[g] >= free

\* The daemon that leaves its loop stops every container it launched
\* (`shutdown all active runs'), but for those that docker failed to stop: the
\* record of who got which suffix, dict_task_gpus_ids, has lost none by then.
AllShutDown == pc = "setup" => Live \subseteq missed

\* Without the exception: refuted, no failure of docker is reported.
NoneLeftRunning == pc = "setup" => Live = {}

\* While every request is answered, the daemon never stops a container it
\* launched: an allocation that leaves no GPU free makes it wait, not fail.
NothingShutDown ==
    MaxFaults = 0 => \A t \in Tasks : child[t] # "shut"

\* Every task in a queue is pulled in the end: GPUs of containers that
\* ended, died or never came up are found free again.
EventuallyPulled ==
    \A t \in Tasks, q \in Queues : t \in queue[q] ~> t \notin queue[q]

\* `the --dynamic-gpus setup recovers as soon as the server does': after a
\* failure the daemon enters its loop again.
SetupRecovers == pc = "setup" ~> pc = "top"
=============================================================================
