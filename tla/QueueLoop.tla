------------------------------ MODULE QueueLoop ------------------------------
(***************************************************************************)
(* The queue loop of a worker daemon (run_tasks_loop and the loop of       *)
(* daemon() around it, clearml_agent/commands/worker.py): which queue is   *)
(* asked next, when a worker may take tasks at all, how many services it   *)
(* keeps, and what an exception does to the loop.  The dynamic-GPU variant *)
(* of the loop is module DynamicGpus; what becomes of one task is module   *)
(* TaskLifecycle.                                                          *)
(*                                                                         *)
(* A pass of the loop counts the services that run, reads the tags of the  *)
(* queues and the worker's runtime properties, and visits the queues in    *)
(* order.  After a task it starts over (priority order) or goes on to the  *)
(* next queue (--order-fairness).  Users tag and delete queues and force   *)
(* the worker on and off meanwhile; requests fail; the clock moves.        *)
(***************************************************************************)
EXTENDS Integers

CONSTANTS
    LastQueue,      \* the daemon serves the queues 1..LastQueue, in this order
    Orders,         \* --order-fairness, as daemons are started: TRUE, FALSE
    Limits,         \* --services-mode <limit> in docker; 0: no services mode
    CrashBackoff,   \* agent.crash_backoff
    MaxDelay,       \* the longest back-off, 60 in the code
    MaxServices,    \* bound: containers of services at a time
    MaxSwitches,    \* bound: changes by users to tags and to the force flag
    MaxFaults       \* bound: requests and commands that fail

ASSUME ConstantsAssumption ==
    /\ LastQueue \in Nat \ {0} /\ MaxDelay \in Nat \ {0}
    /\ Orders \subseteq BOOLEAN /\ CrashBackoff \in BOOLEAN
    /\ Limits \subseteq Nat /\ {MaxServices, MaxSwitches, MaxFaults} \subseteq Nat

Queues == 1 .. LastQueue
Flags == {"none", "on", "off"}

VARIABLES
    roundRobin,     \* the order the daemon was started with ...
    limit,          \* ... and its limit
    filled,         \* the queues that hold a task
    tag,            \* force_workers:on or :off on a queue; "gone": deleted
    force,          \* the worker's runtime property "force"
    hours,          \* the configured uptime covers the present hour
    pc,             \* where the daemon is: "setup", "count", "look", "pull",
                    \* "run" or "backoff"
    pos,            \* the queue of the for loop
    known,          \* queue_tags and runtime_props are both set ...
    tagSeen,        \* ... and these are the values that were read
    forceSeen,
    support,        \* _runtime_props_support: "untested", "yes" or "no"
    limited,        \* max_num_instances is positive
    services,       \* containers of services
    booted,         \* the current service has had its container
    delay,          \* crash_backoff_sec
    switches, faults,   \* counters of the bounds
    \* For the properties:
    blind,          \* the services were not counted before this pass
    overrun,        \* tasks taken since all queues are closed
    quick           \* crashes since the loop last ran for a minute

options == <<roundRobin, limit>>
userVars == <<filled, tag, force, hours, switches>>
readVars == <<known, tagSeen, forceSeen>>
backoffVars == <<delay, quick>>
loopVars == <<pc, pos, readVars, support, limited, booted, backoffVars, blind>>
vars == <<options, userVars, loopVars, services, faults, overrun>>

Services == limit > 0

\* should_be_currently_active: the tag of the queue, then the worker's flag,
\* then the schedule.
Active(t, f) ==
    \/ t = "on"
    \/ t = "none" /\ f = "on"
    \/ t = "none" /\ f = "none" /\ hours

\* What the daemon would decide if it read everything now.
Open(q) == Active(tag[q], IF support = "no" THEN "none" ELSE force)

Init ==
    /\ roundRobin \in Orders /\ limit \in Limits
    /\ filled = {} /\ tag = [q \in Queues |-> "none"]
    /\ force = "none" /\ hours \in BOOLEAN
    /\ pc = "setup" /\ pos = 1
    /\ known = FALSE /\ forceSeen = "none"
    /\ tagSeen = [q \in Queues |-> "none"]
    /\ support = "untested" /\ limited = FALSE
    /\ services = 0 /\ booted = FALSE
    /\ delay = 1 /\ quick = 0
    /\ switches = 0 /\ faults = 0
    /\ blind = FALSE /\ overrun = 0

-----------------------------------------------------------------------------
(* Users, the clock, and the services that run.                            *)

Enqueue(q) ==
    /\ q \notin filled /\ tag[q] # "gone"
    /\ filled' = filled \cup {q}
    /\ UNCHANGED <<tag, force, hours, switches, loopVars, services, faults>>

UserSwitches ==
    /\ switches < MaxSwitches /\ switches' = switches + 1
    /\ UNCHANGED <<hours, loopVars, services, faults>>

SetTag(q, t) ==
    /\ UserSwitches
    /\ tag[q] \notin {t, "gone"} /\ tag' = [tag EXCEPT ![q] = t]
    /\ UNCHANGED <<filled, force>>

DeleteQueue(q) ==
    /\ UserSwitches
    /\ tag[q] # "gone" /\ tag' = [tag EXCEPT ![q] = "gone"]
    /\ filled' = filled \ {q}
    /\ UNCHANGED force

SetForce(f) ==
    /\ UserSwitches
    /\ force # f /\ force' = f
    /\ UNCHANGED <<filled, tag>>

Clock ==
    /\ hours' = ~hours
    /\ UNCHANGED <<filled, tag, force, switches, loopVars, services, faults>>

ServiceEnds ==
    /\ services > 0 /\ services' = services - 1
    /\ UNCHANGED <<userVars, loopVars, faults>>

Environment ==
    \/ \E q \in Queues : Enqueue(q) \/ DeleteQueue(q)
    \/ \E q \in Queues, t \in Flags : SetTag(q, t)
    \/ \E f \in Flags : SetForce(f)
    \/ Clock
    \/ ServiceEnds

-----------------------------------------------------------------------------
(* Parts of the daemon's steps.                                            *)

Fault == faults < MaxFaults /\ faults' = faults + 1

\* queue_tags = runtime_props = None.
Forget ==
    /\ known' = FALSE /\ forceSeen' = "none"
    /\ tagSeen' = [q \in Queues |-> "none"]

\* The for loop goes on; after the last queue the daemon sleeps, and the while
\* loop starts over.
GoOn ==
    IF pos = LastQueue
    THEN pc' = "count" /\ pos' = 1
    ELSE pc' = "look" /\ pos' = pos + 1

Visit(t, f) ==
    IF Active(t, f) THEN pc' = "pull" /\ UNCHANGED pos ELSE GoOn

\* An exception leaves run_tasks_loop.  daemon() sleeps for the back-off, that
\* starts over from a second when the loop had run for more than a minute.
\* The containers of services stay.
CrashMutant ==
    /\ \E healthy \in BOOLEAN :
         /\ delay' = IF ~CrashBackoff THEN 1 ELSE delay   \* Mutant: no reset.
         /\ quick' = IF healthy THEN 0 ELSE quick
    /\ pc' = "backoff" /\ pos' = 1 /\ booted' = FALSE
    /\ Forget
    /\ UNCHANGED <<limited, services, blind>>
Crash ==
    /\ \E healthy \in BOOLEAN :
         /\ delay' = IF healthy \/ ~CrashBackoff THEN 1 ELSE delay
         /\ quick' = IF healthy THEN 0 ELSE quick
    /\ pc' = "backoff" /\ pos' = 1 /\ booted' = FALSE
    /\ Forget
    /\ UNCHANGED <<limited, services, blind>>

-----------------------------------------------------------------------------
(* The daemon.                                                             *)

\* run_tasks_loop stores the limit of the services among the worker's runtime
\* properties, and does without a limit when that fails for whatever reason.
\* An error that the server answers is remembered for good.
SetUp ==
    /\ pc = "setup" /\ pc' = "count"
    /\ \/ ~Services /\ UNCHANGED <<support, limited, faults>>
       \/ Services /\ support # "no"
          /\ support' = "yes" /\ limited' = TRUE /\ UNCHANGED faults
       \/ Services /\ support # "no" /\ Fault
          /\ support' \in {"no", support} /\ limited' = FALSE
       \/ Services /\ support = "no"
          /\ limited' = FALSE /\ UNCHANGED <<support, faults>>
    /\ UNCHANGED <<userVars, pos, readVars, services, booted, backoffVars, blind>>

StartPass ==
    /\ pc = "count" /\ pc' = "look" /\ pos' = 1
    /\ Forget
    /\ UNCHANGED <<userVars, support, limited, services, booted, backoffVars>>

\* A pass begins when there is room for a service, or no limit.  (At the limit
\* the daemon sleeps and counts again: nothing changes.)
CountMutant ==
    /\ StartPass
    /\ limited => services <= limit     \* Mutant: > in the place of >=.
    /\ blind' = (Services /\ ~limited)
    /\ UNCHANGED faults
Count ==
    /\ StartPass
    /\ limited => services < limit
    /\ blind' = (Services /\ ~limited)
    /\ UNCHANGED faults

\* docker ps fails, which counts as no service.
CountFails ==
    /\ StartPass
    /\ limited /\ Fault
    /\ blind' = TRUE

\* get_worker_properties, and the decision on the queue.  When the properties
\* are not to be had the tags too are read again for the next queue.
Fetch ==
    /\ pc = "look" /\ ~known /\ tag[pos] # "gone"
    /\ \/ support # "no" /\ support' = "yes" /\ UNCHANGED faults
          /\ known' = TRUE /\ tagSeen' = tag /\ forceSeen' = force
          /\ Visit(tag[pos], force)
       \/ support # "no" /\ support' = "no" /\ Fault
          /\ UNCHANGED readVars /\ Visit(tag[pos], "none")
       \/ support = "no" /\ UNCHANGED <<support, faults>>
          /\ UNCHANGED readVars /\ Visit(tag[pos], "none")
    /\ UNCHANGED <<userVars, limited, services, booted, backoffVars, blind>>

\* A request raises, or the queue is not among those the server knows.
FetchRaises ==
    /\ pc = "look" /\ ~known /\ Crash
    /\ \/ Fault /\ UNCHANGED support
       \/ tag[pos] = "gone" /\ UNCHANGED faults
          /\ support' = IF support = "no" THEN "no" ELSE "yes"
    /\ UNCHANGED userVars

\* The queue is judged by what this pass has read.
Look ==
    /\ pc = "look" /\ known /\ tagSeen[pos] # "gone"
    /\ Visit(tagSeen[pos], forceSeen)
    /\ UNCHANGED <<userVars, readVars, support, limited, services, booted,
                   backoffVars, faults, blind>>

LookRaises ==
    /\ pc = "look" /\ known /\ tagSeen[pos] = "gone" /\ Crash
    /\ UNCHANGED <<userVars, support, faults>>

pulling == <<tag, force, hours, switches, readVars, support, limited, services,
             booted, backoffVars, blind>>

\* get_next_task.
Take ==
    /\ pc = "pull" /\ pos \in filled
    /\ filled' \in {filled, filled \ {pos}}
    /\ pc' = "run" /\ UNCHANGED <<pos, faults, pulling>>

EmptyMutant ==
    /\ pc = "pull" /\ pos \notin filled
    /\ pc' = "count" /\ pos' = 1        \* Mutant: break, not continue.
    /\ UNCHANGED <<filled, faults, pulling>>
Empty ==
    /\ pc = "pull" /\ pos \notin filled
    /\ GoOn /\ UNCHANGED <<filled, faults, pulling>>

\* The request fails, with the task out of its queue or not; or the worker
\* cannot log in as the owner of the task, that is failed then.
Skip ==
    /\ pc = "pull" /\ pos \in filled /\ Fault
    /\ filled' \in {filled, filled \ {pos}}
    /\ GoOn /\ UNCHANGED pulling

\* run_one_task: in services mode until the agent in the container takes over.
ServiceBoots ==
    /\ pc = "run" /\ Services /\ ~booted /\ services < MaxServices
    /\ booted' = TRUE /\ services' = services + 1
    /\ UNCHANGED <<userVars, pc, pos, readVars, support, limited, backoffVars, faults, blind>>

\* The task ended, or its service is up or failed to come up; then everything
\* is read anew.
RunEndsMutant ==
    /\ pc = "run" /\ booted' = FALSE
    /\ UNCHANGED readVars               \* Mutant: what was read is kept.
    /\ IF roundRobin THEN GoOn ELSE pc' = "count" /\ pos' = 1
    /\ UNCHANGED <<userVars, support, limited, services, backoffVars, faults, blind>>
RunEnds ==
    /\ pc = "run" /\ booted' = FALSE
    /\ Forget
    /\ IF roundRobin THEN GoOn ELSE pc' = "count" /\ pos' = 1
    /\ UNCHANGED <<userVars, support, limited, services, backoffVars, faults, blind>>

RunRaises ==
    /\ pc = "run" /\ Fault /\ Crash
    /\ UNCHANGED <<userVars, support>>

\* The loop is entered again, and the next back-off is twice as long.
Restart ==
    /\ pc = "backoff" /\ pc' = "setup"
    /\ delay' = IF 2 * delay > MaxDelay THEN MaxDelay ELSE 2 * delay
    /\ quick' = IF quick < MaxDelay THEN quick + 1 ELSE quick
    /\ UNCHANGED <<userVars, pos, readVars, support, limited, services, booted, faults, blind>>

Loop ==
    \/ SetUp \/ Count \/ CountFails
    \/ Fetch \/ FetchRaises \/ Look \/ LookRaises
    \/ Take \/ Empty \/ Skip
    \/ Restart

Run == ServiceBoots \/ RunEnds \/ RunRaises

\* The tasks taken while no queue is open are counted for OffIsHeeded.  The
\* hour is read at every decision, the tags and the flag once in a pass: a
\* change of the hour may turn an old reading into a wrong one, and starts the
\* count over.
CountOverrun ==
    overrun' = IF hours' # hours \/ \E q \in Queues : Open(q)' THEN 0
               ELSE overrun + (IF pc # "run" /\ pc' = "run" THEN 1 ELSE 0)

Next == (Environment \/ Loop \/ Run) /\ CountOverrun /\ UNCHANGED options

Spec == Init /\ [][Next]_vars

\* The daemon's thread keeps running; a task may run for ever.
FairSpec == Spec /\ WF_vars(Loop /\ CountOverrun /\ UNCHANGED options)

-----------------------------------------------------------------------------
(* Properties.                                                             *)

BooleansOK == {roundRobin, hours, known, limited, booted, blind} \subseteq BOOLEAN

NumbersOK ==
    {limit, services, delay, quick, switches, faults, overrun} \subseteq Nat

PlacesOK ==
    /\ filled \subseteq Queues
    /\ tag \in [Queues -> Flags \cup {"gone"}] /\ force \in Flags
    /\ pc \in {"setup", "count", "look", "pull", "run", "backoff"}
    /\ pos \in Queues
    /\ forceSeen \in Flags /\ tagSeen \in [Queues -> Flags \cup {"gone"}]
    /\ support \in {"untested", "yes", "no"}

TypeOK == BooleansOK /\ NumbersOK /\ PlacesOK

\* The services counted and limited, there are never more of them than the
\* limit says; a pass in round-robin order counts once for all its queues and
\* so may exceed the limit by one service for each queue but the first.
InstanceLimit ==
    Services /\ ~blind =>
        services <= limit + (IF roundRobin THEN LastQueue - 1 ELSE 0)

\* Once every queue is off, by its tag, by the worker's flag or by the
\* schedule, the daemon takes one more task at most until the schedule changes:
\* the one it was about to take when that happened.
OffIsHeeded == overrun <= 1

\* The delay before the loop is entered again doubles with every crash and is
\* never more than MaxDelay; a run of a minute starts it over.
BackoffDoubles ==
    pc = "backoff" =>
        delay = IF ~CrashBackoff THEN 1
                ELSE IF 2 ^ quick > MaxDelay THEN MaxDelay ELSE 2 ^ quick

\* It is the turn of a queue that holds a task and is open: the queues before
\* it exist and, in priority order, are empty or tagged off.
Turn(q) ==
    /\ q \in filled /\ Open(q)
    /\ \A p \in 1 .. q - 1 :
         tag[p] # "gone" /\ (roundRobin \/ p \notin filled \/ tag[p] = "off")

\* A queue whose turn it stays is served, again and again: whatever crashes,
\* stale readings and other queues come between.  Only a task that never ends
\* and services that fill the limit for ever keep the daemon from it.
NoStarvation ==
    \A q \in Queues :
        <>[]Turn(q) => \/ []<>(pc = "run" /\ pos = q)
                       \/ <>[](pc = "run")
                       \/ <>[](limited /\ services >= limit)
=============================================================================
