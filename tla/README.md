# The ClearML agent in TLA+

A model of `clearml-agent` (the daemon that pulls tasks from a ClearML
server's queues and runs them), checked with TLC on small instances and, where
it matters most, proved with TLAPS for every instance. Paths are relative to
`src/`; `worker.py` is `src/clearml_agent/commands/worker.py`. For each
definition, `PROJECT.json` (`map`) names the lines it stands for.

## 1. The system

A **server** keeps tasks (status, status message, runtime properties), queues
and the list of registered workers. It is not in this repository: the agent
sees it through requests that may fail at any time. A **daemon** polls its
queues, pulls a task, marks it started, and runs it in a **child**: the agent
again (`execute`), in a process or a docker container, which builds an
environment and then becomes the user's code. The daemon watches the child and
the task's status in turn. **Users** enqueue, abort, stop, reset and delete
tasks whenever they like. Several agents share one machine: its temporary
folder (who is there), its cache of environments, its cache of repositories,
and, with `--dynamic-gpus`, one daemon shares the GPUs among many containers.
The **Kubernetes glue** replaces the child by a pod and the daemon's memory by
an internal "pending" queue.

### Inventory

| Component | Code | State | Operations | Correct when |
|---|---|---|---|---|
| Daemon and task monitor | `worker.py`: `run_tasks_loop`, `run_one_task`, `_log_command_output`, `TaskStopSignal`, `handle_task_termination`; `helper/process.py` | the task held, the child, the reset counter, the callback clock, the stop reason | pull, mark, launch, test, poll, kill, report | a task is worked on once, a stop is honoured, no task is left without an agent, an outcome is the right one |
| Dynamic GPUs | `worker.py`: `_dynamic_gpu_get_available`, `_reserve_dynamic_gpus`, allocation in `run_tasks_loop` | available share per GPU, suffixes in use, reservations with a TTL, who got which suffix | account, peek, pull, allocate, launch, leave the loop | no GPU is over-committed, none is lost, suffixes are unique, leaving the loop stops what it started |
| Single instance, slots | `helper/singleton.py`, `helper/os/daemonize.py`, `--stop` in `worker.py` | lock file, pid files, slots | register, fork and rename, stop | one agent per worker id, a slot of its own, a start succeeds after a crash |
| Environment cache | `helper/os/folder_cache.py`, `helper/os/locks.py` | entries (folders named by keys), lock | copy, add, rename, remove | a copy is complete, keys are kept, a lock is not left behind |
| Repository cache | `helper/repo.py` | clones, lock, temporary folders | clone or pull, remove orphans | a broken clone is not used, a lock that is not had does not stop the task |
| Kubernetes glue | `glue/k8s.py` | pending queue, pods | move to pending, apply, re-enqueue, clean up | no pulled task is lost, pod limits hold |
| Pending-pods daemon | `glue/pending_pods_daemon.py` | last messages, tasks it moved | update messages, delete pods of aborted tasks | a running task is not re-queued |
| Queue loop, uptime, services | `worker.py`: `run_tasks_loop`, `should_be_currently_active`, `daemon`; `helper/runtime_verification.py` | current queue, uptime cache, number of children, failures in a row | choose a queue, count instances, back off | every queue is served, limits hold, a crash is backed off from |
| Log shipping | `worker.py`: `send_logs`; `commands/events.py` | lines not sent | read, send, keep | every line arrives once and in order |
| Resource monitor | `helper/resource_monitor.py` | averages | sample, report | reports go on |
| Session and tokens | `backend_api/session/` | token and its expiry | request, retry, renew | a request has a live token |
| SNUG metering | `helper/snug.py`, `src/clearml_snug/` (Rust) | wrapped executables; connections, queue of reports | install, watch, remove; record, flush | wrappers are removed, reports are flushed at exit |
| Requirements, package managers | `helper/package/` | none kept | substitute, install | substitutions keep constraints |
| Docker arguments, templates | `helper/docker_args.py`, `helper/custom_template.py` | none | rewrite | an override wins |
| Configuration, command line, generated API, GPU statistics, vendored code | `backend_config/`, `interface/`, `backend_api/services/`, `helper/gpu/`, `_vendor/`, `external/` | none of their own | | |

### What is hard about it

* **Requests that interleave.** Every `started`, `stopped` or `get_all` is a
  separate request. A user moves between any two of them, and four of the
  `started` requests of a run are forced: they replace the status and its
  message whatever it was.
* **Two observers of one run.** The daemon polls the child and the status; the
  child changes the status itself; in docker mode the process that is killed is
  the docker client and the agent inside goes on until `docker stop`.
* **No table of what was given away.** GPUs are read out of the names of the
  workers the server lists; a container appears there minutes after it was
  launched, and stays there minutes after it died.
* **Files for locks and names.** Pid files, a lock file that is looked for and
  then made, a rename after a fork, folders that are moved under no lock.
* **Things that give up.** Lock timeouts, a TTL, an abort callback's timeout, a
  reset that is believed at the fifth test: each races what it gave up on.

`PROJECT.json` (`hazards`) lists these one by one, at the line where they bite,
with the properties that cover them.

## 2. The modules

| Module | Models | Variables |
|---|---|---|
| `TaskRun` | what the agents promise of a task: the abstract specification | 5 |
| `TaskLifecycle` | daemons, children, users and the server's record of each task; implements `TaskRun` | 18 |
| `QueueLoop` | which queue a daemon asks next, when it may take tasks, how many services it keeps, what a crash does | 21 |
| `DynamicGpus` | the allocation loop of a `--dynamic-gpus` daemon, its containers, the server's list | 16 |
| `K8sGlue` | the loop of the Kubernetes glue and its pending-pods daemon, two threads, with cluster and users | 21 |
| `VcsCache` | the shared cache of one repository, with its lock and temporary folders | 16 |
| `FolderCache` | the shared cache of environments, at the level of single file-system operations | 12 |
| `Singleton` | the agents of one machine, at the level of single file operations | 14 |
| `MC...` | the same on small sets, for TLC | |
| `TaskLifecycleProofs`, `TaskRunProofs`, `DynamicGpusProofs`, `QueueLoopProofs`, `K8sGlueProofs`, `VcsCacheProofs`, `FolderCacheProofs`, `SingletonProofs` | theorems and proofs | |

`TaskLifecycle` and `TaskRun` share the server's record of a task by a
refinement mapping. The other modules share no variables: a task in
`TaskLifecycle` comes from the queue that `QueueLoop` (or `DynamicGpus`, the
other form of the same loop) chose, runs on whatever `DynamicGpus` gave it, and
its "build" stage works in what `VcsCache` and `FolderCache` hand out. They meet
in their assumptions only, which are named below.

### TaskLifecycle

State: per task `status`, `stopping` (the status message asks to stop),
`callback` (the runtime properties of the abort callback), and `queue`; per
agent a label `pc` and the locals of the functions it goes through (`held`,
`phase`, `counter`, `waiting`, `reason`, `result`, `code`); per child its stage
`proc` and its exit status; and `strays`, the containers that `docker stop`
failed to stop, each with its machine, task and stage. One action per request or
per loop iteration:

| Code | Actions |
|---|---|
| `run_tasks_loop`, `get_next_task` | `GetNextTask`, `LoseNextTask` (popped, answer lost), `MarkPulled` |
| `get_task_session`, `_fail_task_on_impersonation_failure` | `Login`, `LoginRefused`, `LoginRaises` (which nothing catches) |
| `run_one_task`, `shutdown_docker_process` | `Launch`, `SkipTask`, `LaunchRaises`, `Cleanup`, `StopFails` |
| `_log_command_output` | `Popen`, `PopenFails`, `MonitorRaises`, `Poll`, `Kill`, `Close`, `Interrupt` |
| `TaskStopSignal` | `TestContinues`, `TestWaits`, `TestStops`, `TestFails`, over `Verdict` and `AwaitsCallback`; `Expire` |
| `handle_user_abort` | `HandleUserAbort` |
| `handle_task_termination`, `handle_task_process_termination` | `CheckFailed`, `SendStopped`, `ReportExit`, `LogReason` |
| `execute` in the child | `ChildDequeue`, `ChildStartsSoon`, `ChildStarted`, `BuildFails`, `ChildStartsCode`, `Exit` |
| the same in a stray container | `StrayDequeues`, `StrayStarts`, `StrayBuildFails`, `StrayCode`, `StrayEnds` |
| user's code, users, server (external) | `ChildCode` (registers or completes a callback, reports itself); `Enqueue`, `Dequeue`, `Abort`, `Decide`, `Reset`, `Delete` |

A status is a name, a message only whether it asks to stop, an exit status its
class (success, SIGINT, SIGKILL, other). `excuse` is no state of the program:
it notes what went wrong around a task (a failed request, a failed launch, an
exception in the monitor, a container that could not be stopped, a child that
changed the status after its agent gave up on it, an enqueue under an agent that
holds the task), and no guard reads it. The properties use it to say what must
hold when nothing of the kind happened, so that they say exactly which failures
cost a task its agent. Publishing and closing are one status.

`shutdown_docker_process` (`helper/process.py:126`) swallows what `docker ps`
and `docker stop` raise. `StopFails` is that: the agent lets go of its task and
polls again, and the container becomes a stray, whose forced `started` requests
and reports go on with nobody to watch them. A later agent of the same machine
that has the same task may stop it by the task's id (`Cleanup`). Two strays that
agree in machine, task and stage are one, since nothing tells them apart.

### DynamicGpus

Shares are integers, `Unit` being a whole GPU. A worker's name is the set of
its suffixes, each a GPU, a size and a letter ("0.5a"); letter 0 is the name
that is left when all letters are in use, which the code reads as a MIG slice.
`known` is the server's list, `reserved` and `expired` are the reservations
and those past their TTL, `available` and `allocated` the locals of a pass,
`owner` is `dict_task_gpus_ids`. The actions follow the loop: `Setup`,
`QueryWorkers`, `AccountReservations`, `GetProperties`, `Peek`, `GetNextTask`,
`Allocate` (`TakeWhole`, `TakeFraction`, `TakePartial`, `FractionFails`),
`Launch`, `RunReturns`; `Crash` is the `finally` that stops the containers
on record, which every unguarded failure leads to, that of the owner's login
after the pull (`worker.py:1750`) among them. Docker may fail to stop any of
them, and nobody is told: they go on, and `missed` notes them. Containers take over, register, end;
the server forgets one that is silent; reservations expire. `Prompt` is the
assumption under which the scheme can work at all: a live container registers
before its reservation's TTL, and reports more often than the server forgets.

### TaskRun

The abstract specification has five variables: the status, the queue, who holds
which task, how far that agent's run of it is (`before` the code, in the
`code`, `after` it), and the runs that were left to themselves. It allows
failures, kills and any move of the users, and says what none of these may
bring about: a task that is taken is run at most once by its taker, only an
agent whose run is not over starts it, an end is reported only of a task in
progress, a deleted task never comes back, and out of docker mode nothing is
reported while the code still runs. In docker mode the report, and the end of
the agent's interest, may come first, and a run that was left may go on: only
from where it was, never back, and it starts its task only before its end.
`TaskLifecycle!ImplementsTaskRun` instantiates it with the mappings `run`, a
function of `pc` and `proc`, and `left`, of `strays`.

### QueueLoop

One action per request or decision of a pass: `SetUp` (the limit is stored
among the worker's properties), `Count` and `CountFails` (`docker ps`), `Fetch`,
`FetchRaises`, `Look`, `LookRaises` (tags and flag, and
`should_be_currently_active`), `Take`, `Empty`, `Skip`, `ServiceBoots`,
`RunEnds`, `RunRaises`, `Restart` (the back-off of `daemon()`). The options of
the command line (order, limit) are variables that never change, so that one run
covers all of them. What a pass has read (`tagSeen`, `forceSeen`) is kept
apart from what holds (`tag`, `force`, `hours`). `blind`, `overrun` and `quick`
are history for the properties: no guard reads them.

### K8sGlue

The glue's loop and its daemon are two labels, `gpc` and `dpc`, with the locals
of their functions; a pod is named after its task, so that pods are a function
of tasks. The server has, per task, a status, whether the status reason is that
of the pending queue (`parked`) and whether the last change is more than five
minutes ago (`old`), which `_cleanup_old_pods` goes by. `run_one_task` is
`StopFirst`, `RemoveStuck`, `PushToPending`, `CountPods`, `StopForQueue` and
`BackToQueue`, `Apply`, `QuotaExceeded`, `ApplyFails`; the re-enqueueing for
want of quota `Unpend`, `StillQueued`, `AddTask`, `MoveToFront`, each a request
of its own. The daemon's loop is `ListPods`, then per pod `Refresh` or `Skip`,
`Evict` and `FailEvicted`, `ReadStatus`, `UnpendLost`, `RequeueLost`; then per
aborted task `Recheck`, `Reread`, `DeleteAborted`. A request without an answer
or a `kubectl delete` that fails ends the round (`RoundFails`). A request that
the server refuses raises nothing through `api_client`; a fault is one without
an answer. A pod may start its task at any moment, while the daemon deals with
it too: `started` notes that, so that a property can tell what the daemon knew.

`excuse` notes, as in `TaskLifecycle`, what went wrong around a task; no guard
reads it. Each kind is something the code really does not make good:

| Excuse | What happened |
|---|---|
| `answer` | the answer of the pull was lost, the entry with it |
| `push` | the push into the pending queue failed: the task is in no queue |
| `crash` | an unguarded request ended the loop with the task in hand |
| `template` | there is no template: parked, and without a pod |
| `place` | at the limit the task was stopped, and enqueueing it again failed |
| `agent` | the pod failed before its agent took the task, which the clean-up skips for ever since it is parked |
| `unread`, `recent` | the look-up of the deleted pods' tasks failed, or found a change less than five minutes old; it is not repeated |
| `evict` | the pod was evicted and the request to fail its task failed |
| `leftover` | `kubectl apply` found the pod of an earlier run |
| `vanished` | a pod that is no job's was preempted |
| `late` | the daemon deleted the pod of a task enqueued again meanwhile, or requeued one whose pod had taken it, had ended or was gone |

`Prompt` makes pods go within the five minutes. All pods are in one namespace: a
template that names another one would make pods that `_get_pod_count` does not
see (`k8s.py:457`).

### VcsCache

A folder of the cache is absent, being cloned, partial (a pull completes it),
whole, broken (a pull fails) or jammed (a pull succeeds and a checkout of the
copy does not: a killed git left its `index.lock`). An agent takes the lock, or
gives it up, late or because it cannot be had at all, and works in a temporary
folder or straight in its destination; removal, clone and copy take two steps
each, so that others may come between. A removal may pass over what it cannot
remove (`rm_tree`, `base.py:535`): of the shared folder that leaves a broken
clone, of a temporary one an orphan, counted in `orphans`, by a random name that
nobody uses again. A copy may fail. A kill leaves of a folder what git may leave
of it. `Push` makes the
repository newer, so that staleness has a meaning.

### Singleton

A step is one file operation: look for the lock file, create it, list, read
one file, delete dead ones, create, fill, unlock. A daemon forks (its pid
changes), then renames its file; at any moment it may be asked to stop, and the
handler removes the file before the agent leaves (`Stop`, and `Interrupt` while
it registers). A pid may be used again by another process (`reused`). The lock
is a file that is looked for and then written, that is cleared after a timeout
and that covers the start only. All these windows are open. Two history
variables, which no guard reads, note whom they touched: `crossed`, the pairs of
agents of which one registered while the other was registering too, changed its
pid or shut down; `lost`, the agents whose file was deleted while their pid
changed. The properties are about the others.

### FolderCache

An entry is a folder named by the set of its keys. It is whole, nested (a
second environment was moved into it) or torn (it lacks files); a name can also
be a file, which `touch` makes of an entry that is gone. Copying and removing a
tree take two steps each; a move, a touch or a listing one. To remove a tree
ignores errors (`rmtree(ignore_errors=True)`, `folder_cache.py:227`): `RmTree`
may leave the entry torn under its name and `RemoveEntry` may not touch it at
all, and so may a kill. Agents add any of `Environments`, each the keys of one (the hashes of
its requirements), at the same time, `MaxAdds` times in all. A scan of the folder is one step; what it found
may be gone at the next.

## 3. Runs

| Run | Instance | Checks | Distinct states |
|---|---|---|---|
| `lifecycle_docker` | 1 agent, 1 task, docker with forced pull and owner login; 3 user operations, 1 failure (`docker stop` included); fair | `NoStrandedTask`, `GivesUpRightly`, `KillStillWanted`, `AbortIsStopped`, `StopIsHonoured`, `ResetIsHonoured`, `ExitIsHandled`, `ImplementsTaskRun` | 501 000 |
| `lifecycle_pair` | 2 agents, 1 task; 3 user operations, 1 failure | `SoleHolder` | 3 190 000 |
| `lifecycle_abort` | 1 agent, 1 task, 2 user operations, no failure; fair | `AbortEndsTask`: violated | |
| `dynamic_mixed` | 2 GPUs, queues `dual=2`, `many=1-2`, `half=0.5`, 3 tasks, round robin, 1 failure | `TypeOK`, `NoOverPull`, `EnoughGpus`, `SuffixesDiffer`, `ChargedOnce`, `AllShutDown` | 1 025 000 |
| `dynamic_live` | 1 GPU, queues `whole=1`, `half=0.5`, 3 tasks, priority; fair | `NothingShutDown`, `EventuallyPulled` | 53 000 |
| `singleton` | 3 agents, 2 with one worker id, 1 kill or interrupted start, pids reused | `SingleInstance`, `SlotsDiffer`, `OnRecord`, `TakenByTheLiving` | 1 381 000 |
| `singleton_live` | 2 agents of one worker id, 2 kills or interrupted starts; fair | `ComesUp` | 4 300 |
| `cache_pair` | 2 agents, 3 keys, environments of the keys 1, 1 and 2, 2 and 3; 1 entry kept, 3 environments added, 1 crash, removals that fail; fair | `CopiedWhole`, `HeldInUse`, `KeysKept`, `OpsEnd` | 138 000 |
| `vcs_cache` | 2 agents, 1 push, 2 failures, 1 crash, either choice when the lock is late | `OwnFaultsOnly`, `CopiedWhole`, `CopiedFresh`, `TempGone` | 1 121 000 |
| `k8s_hands` | 2 tasks, 2 queues, no pod limit, jobs, owner login; 3 operations, 1 failure | `NoStranded`, `RunsUndisturbed`, `StrictPriority` | 3 444 000 |
| `k8s_live` | 2 tasks, 2 queues, 1 pod, basic server, `Prompt`; 2 operations, 1 failure; fair | `PodLimit`, `Launched`, `PodsGoAway` | 87 000 |
| `queue_loop` | 2 queues, either order, limit 0 or 1; 2 switches, 2 failures; fair | `InstanceLimit`, `OffIsHeeded`, `BackoffDoubles`, `NoStarvation` | 771 000 |

### What they show

*The task monitor.* If every request is answered and the child is started,
watched and stopped, a task that its agent let go is neither in progress nor
queued outside the queue (`NoStrandedTask`), and an agent that is about to end a run in silence does so
only when the status says why (`GivesUpRightly`). The child that is killed is
one whose end the user still wants (`KillStillWanted`), except where the child
itself, a stray container or a re-enqueue put the task in progress meanwhile. Once an agent waits
for an abort callback, the run ends as stopped, however the process dies
(`AbortIsStopped`). Two agents on a queue never work on one task, unless a user
enqueued it again under the agent that held it (`SoleHolder`): the agent takes
up to five tests to believe a reset. A stop and a lasting reset end the user's
code (`StopIsHonoured`, `ResetIsHonoured`), if `docker stop` does what it is
asked: nobody is told when it does not, and nothing else ends such a container.
An exit is handled in the end. What an observer of server and processes sees,
strays included, is a `TaskRun` (`ImplementsTaskRun`).

*The queues.* Services that are counted and limited keep to their limit; round
robin counts once in a pass and may exceed it by one for each queue but the
first (`InstanceLimit`). With all queues off, at most the task about to be taken
is still taken (`OffIsHeeded`). The back-off doubles, is capped, and starts over
after a healthy minute (`BackoffDoubles`). A queue whose turn it is is served
over and over (`NoStarvation`), if the queues before it still exist.

*The GPUs.* While containers are prompt, the shares on a GPU never exceed it,
through the hand-over from reservation to registration (`NoOverPull`), a
container is charged once (`ChargedOnce`), the check made before the pull
covers the choice made after it (`EnoughGpus`), suffixes differ
(`SuffixesDiffer`), a loop that is left stops every container it launched but
those docker fails to stop: none drops off the record before (`AllShutDown`),
and by priority and with requests answered nothing is stopped
and every task is pulled (`NothingShutDown`, `EventuallyPulled`).

*The glue.* A task that is due is in a queue the glue pulls from, in the hands
of one of its threads, has a pod that lives or is still to be cleaned up, or
has one of the excuses above (`NoStranded`): nothing else strands a task. The
daemon deletes the pod of a task that runs, or requeues or fails it, only if the
pod was pending when it looked in this round and has taken its task since; one
that ran by then is left alone (`RunsUndisturbed`). A task put back for want of quota is not overtaken
(`StrictPriority`, while no request failed). The pod limit holds though users,
cluster and daemon act between the two counts (`PodLimit`). A task that waits is
started, fails, or is not wanted any more, however often the glue takes it from
its queue and puts it back for want of a pod or of quota (`Launched`), and pods
of no use go away, at the limit too (`PodsGoAway`).

*The machine.* Agents of one id never run together and slots differ, dead files,
reused pids, killed and interrupted starts notwithstanding, unless the two passed
each other in a window of the lock or one of them had lost its file in one
(`SingleInstance`, `SlotsDiffer`); an agent that runs is on record unless its file
went while its pid changed (`OnRecord`), and finds a slot taken by the living
only (`TakenByTheLiving`). An agent that starts comes up though another was
killed with the lock in place (`ComesUp`). A copy of an environment lacks files
only if it is made of an entry that a removal had already left without them: none
loses files while it is copied, and none is found while it is being removed
(`CopiedWhole`). Keys go only with entries that are removed, no lock outlives its
use, and every operation ends. A copy of a repository is neither torn nor older than the task, a task
fails for its own git commands only, and a temporary folder goes unless the agent
was killed or the removal passed over some of it (`OwnFaultsOnly` and the rest).

### Why the bounds are enough

* *Agents and tasks.* Agents meet only at the queue and at a task's record, and
  a task's record is touched by the agents that hold it: two agents and one
  task contain every meeting. `OneHolder` and `NobodyStranded` are proved for
  any number.
* *User operations (3).* The longest interesting story is enqueue, abort (or
  reset), enqueue again; each property's mutant is found within it.
* *Failures (1).* A failure's effect is a request not made; properties excuse
  the task it concerns, so that a second one adds no case.
* *Reset tests.* 4 as in the code where the counter matters, 1 or 2 where the
  run asks something else; the type invariant and the theorems hold for any.
* *GPUs.* `Unit` is the denominator of the queues' fractions. Two GPUs are
  needed to tell a whole GPU from parts of two; three tasks fill two GPUs with
  one waiting. Two letters make running out of them reachable. All but
  `EventuallyPulled` is proved for any number.
* *Singleton.* Three agents: one that starts, one that runs, one that is
  killed. The safety properties are proved for any number. For `ComesUp` one
  agent leaves something behind and the other starts; both may be killed.
* *Cache.* `Environments` are three: one whose key another has too, so that its
  entry is renamed, one that has a key in common with the second only, and so is
  apart from the first; with one entry kept an addition removes what is apart.
  Three additions (`MaxAdds`) make an entry, rename or remove it, and add another
  one under the removal. All but `OpsEnd` is proved for any environments and
  numbers.
* *Repositories.* Two agents, one in the shared folder and one that gave it up or
  waits; two failures allow one of each, or a pull and the clone after it, or a clone and
  the removal of its temporary folder.
  All four properties are proved for any number.
* *Glue.* Two tasks compete for one pod or one place in a queue, two queues have
  a priority. Three operations are enqueue, abort, enqueue again; or two tasks
  and an abort. `PodLimit` and the three properties of `k8s_hands` are proved for
  any number.
* *Loop.* Two queues give an order; two switches close both, or close and open
  one; two failures make a crash and a crash after it. `MaxDelay` is 3 (60 in the
  code) so that the cap is met and missed by a power of two. The three invariants
  are proved for any number and delay.

### Fairness

* `TaskLifecycle`: weak fairness of each daemon's own steps (`Work`) and of the
  callback's clock (`Expire`). The loop sleeps for a fixed time only, and a
  request that fails is a step too. Nothing is assumed of users, of the queue's
  pull, of the child or of the user's code.
* `DynamicGpus`: weak fairness of the daemon, of a container's start and end
  (a task that never ends keeps its GPU by right), and of the server forgetting
  a silent worker, and of a reservation's expiry. (When a reservation expires
  while the daemon reads an answer that does not list a container that has
  registered since, its GPU is given away: `Prompt` excludes that moment, a
  second of the ten minutes the reservation lasts, and no other.)
* `Singleton`: weak fairness of an agent's registration and of the exit of a
  stopped one: a process runs on until it is killed. Nobody has to fork, stop or
  crash.
* `FolderCache`: weak fairness of an operation's steps; the lock has a timeout.
* `QueueLoop`: weak fairness of the daemon's thread, but not of a task's end: a
  task may run for ever, and `NoStarvation` excuses that.
* `K8sGlue`: weak fairness of the two threads (they sleep for fixed times), of a
  run's end and of a pod's; strong fairness of the clean-up, which is skipped
  while the last one is less than a second ago, and of a booting agent's request
  for its task, which is sent again by the next agent if the pod is preempted. A
  pod need not start: `Launched` assumes that none stays pending for ever.

## 4. Where the code differs

### Refuted by a run

* `lifecycle_abort` (`worker.py:1223`). The daemon marks a pulled task started
  with force, `run_one_task` does it again, and the child twice more. An abort
  issued between two of them is only a status message, and the next request
  replaces it before any test reads it: the task runs on. `README.md:153`
  promises to "allow you to manually abort the job".

### Refuted by the same modules with other constants

Each of these can be seen by giving a run's cfg the constants named and the
formula as its invariant or property (no symmetry for a liveness property).

| Formula | Constants | What happens |
|---|---|---|
| `TaskLifecycle!CrashIsSignalled` | 1 agent, 1 task, `MaxOps` 1, `MaxFaults` 1, no docker | `Popen` raises: the reason is `exception`, which is only logged (`worker.py:4513`), and the task stays in progress. |
| `DynamicGpus!NoOverPull` | `Opportunistic`, 1 GPU, `Unit` 4, no failures | No GPU has the queue's maximum but one has its minimum: the task is to take what is left, but the share is computed as `avail_fract/float(avail_fract)`, always a whole GPU (`worker.py:1807`). |
| `DynamicGpus!NothingShutDown` | `OneAndMany`, 2 GPUs, `Unit` 2, `OrderFairness` | Round robin goes on to the next queue with no GPU left: `max()` of an empty list raises (`worker.py:1684`), and the loop is left. |
| `DynamicGpus!SetupRecovers` | `OneAndMany`, 1 GPU, `MaxFaults` 1, `FairSpec` | The loop is left while the published property is empty: `_setup_dynamic_gpus` cannot parse it (`worker.py:2039`), ever. |
| `K8sGlue!AbortSticks` | `k8s_hands` with no jobs, no failures | `_re_enqueue_task` reads the status, then adds the task by another request (`k8s.py:1621`). A task aborted in between is queued again. `tests/package/test_k8s_quota_reenqueue.py:156` says that "the abort must stick"; it aborts before the read only. |
| `K8sGlue!NeverDisturbed` | `k8s_hands` | A pod listed as pending has started its task by the time the daemon deals with it: it is evicted, or its task goes back to the pending queue. A comment in `pending_pods_daemon.py` (`_update_pending_task_msg`, line 251) knows of it: "thus essentially killing the task". |
| `DynamicGpus!NoneLeftRunning` | `dynamic_mixed` | `docker stop` fails while the loop is left (`worker.py:1903`): `shutdown_docker_process` passes over it, and the container runs on, forgotten. |
| `Singleton!AlwaysSingle` | `singleton` | Each window of the lock does it. The lock file is looked for with `os.path.exists` and made by a later `open` (`singleton.py:65`): two agents that start together both hold it. One held for long is cleared by another (`singleton.py:66`). The handler of SIGTERM removes the pid file before the agent has left (`worker.py:978`). |
| `Singleton!AlwaysOnRecord` | `singleton` | A daemon forked and has not renamed its file (`worker.py:2401`): it is taken for dead, and its file deleted. |
| `FolderCache!NeverTorn` | `cache_pair` | `rmtree` ignores a file that it cannot delete, or is killed (`folder_cache.py:227`), or an addition moves into an entry that is being removed (`folder_cache.py:178`): an entry that lacks files stays under its name, and is copied. |
| `FolderCache!OneEach` | `cache_pair` | Of two agents that add one environment at the same time, the second moves its own into the first's. |
| `FolderCache!NoStray` | `cache_pair` | An entry removed between the look-up and the touch becomes a file (`folder_cache.py:92`). |
| `FolderCache!Bounded` | `cache_pair` | The lock is not had in time: the addition goes on without removing (`folder_cache.py:218`). |

### Part of the models' normal behaviour

Other consequences are allowed by the properties, which say so:

* *Runs.* A task whose pull was answered by a broken connection is lost to all
  queues (`LoseNextTask`, an excuse of `NoStrandedTask`).
* *Names.* A pid that is used again by another process makes an agent refuse to
  start for as long as that process lives (`TakenByTheLiving` and `ComesUp`).
* *Repositories.* With `clone_on_pull_fail` off, one agent killed in the middle
  of a clone makes every later task of that repository fail. With it on, one
  killed in a checkout can still leave an `index.lock` that each copy inherits
  (`OwnFaultsOnly` excuses both).
* *Limits.* Round robin exceeds the limit of services by up to one for each queue
  but the first; a `docker ps` that fails counts no services; a failure to store
  `max_num_instances` lifts the limit until the next crash, and if the server
  refused, for good, together with the flag `force` (`_runtime_props_support`).
* *Uptime.* Tags and flag are read once in a pass, the hour at each queue.
* *Queues.* A queue that was deleted raises in every pass, so that the queues
  after it are never asked (an excuse of `NoStarvation`).
* *Glue.* Everything in the table of excuses above.

## 5. Proofs

Every theorem holds for all constants that satisfy its module's
`ConstantsAssumption`: any agents, tasks, queues and keys, and any bounds. Only
six theorems assume more, all of the GPUs: five that the scheme is `Dependable`
and one that shares are fixed and queues served by priority. What these
assumptions leave out is in the table above or explained below, and the runs on
the same properties satisfy them. No theorem rules out an interleaving: where one
breaks a promise, the property names the steps that excuse it.

**A run** (`TaskLifecycleProofs`, `TaskRunProofs`)

* `TypeCorrect`: `TypeOK` is inductive by itself because it says, besides the
  types, that an agent holds a task exactly while it does not poll, that a loop
  that goes on has no stop reason, that no child is left when an agent launches,
  that the counter is at most `ResetTests`, and that a container the agent could
  not stop is an excuse of its task (`StraysExcused`). The proof treats the agent's
  variables, the server's record and the child apart, since most actions touch
  one of them.
* `OneHolder` (`SoleHolder`): inductive together with `TypeOK`. A task enters
  the queue with no holder or with the excuse, and `GetNextTask` takes out what
  it hands over; `WorkKeepsHolders` covers all other steps of an agent.
* `NobodyStranded` (`NoStrandedTask`) and `GiveUpsAreRight`: `NoStrandedTask`
  alone is not inductive, since what happens at the end of a run depends on why
  the agent ended it. `GivesUpRightly` adds that, and `Settled` states both for
  one task. `OthersUntouched` reduces a step to the agent's own task; `OwnWork`,
  over `Answered` (an answered request decides the status, a failed one is an
  excuse), and `OwnChild` show that it `Owes` that task nothing when it is done.
* `KillsAreWanted` and `AbortsAreStopped`: `AllWanted` says of each agent why it
  may kill; that the message stands is the business of users, of those who hold
  the task, and of a container left from an earlier run, which is an excuse. `AllWaited` adds to `AbortIsStopped` what holds where the
  outcome is chosen: who waited for a callback reports an exit only if
  interrupted.
* `Implements`: `Spec => TaskRun's specification` under the mapping. The step
  simulation needs more than `TypeOK`: how far a child has come fits where its
  agent is (`ChildFits`), or else an agent could report what the abstract run
  forbids. `Fits` is inductive; each action is then a step of `TaskRun` or a
  stutter. A container that `docker stop` left alive is mapped to a run that was
  `left`: it may still start its task or end it (`StrayRefines`), and the agent's
  next run is none of its business.

**The queues** (`QueueLoopProofs`): `LoopTypeCorrect`; `LimitIsKept`, from
`WithinRoom`, which says how many services there may be (`Room`) at each point
of a pass in either order; `SwitchedOff`, from `Heeds`: once a task was taken
with all queues closed, the daemon is not about to pull, and what it has read of
tags and flag, if anything, says that they are closed. `BackoffGrows`, from
`BackedOff`: the delay is the one the crashes call for wherever the loop is, and
not just while it waits. The prover knows nothing of powers; that `2 ^ n` doubles
with `n` and exceeds it is proved by counting the subsets of `1 .. n`.

**The GPUs** (`DynamicGpusProofs`)

* `AllocationTypeOK` holds with any queues, letters and containers. Five
  properties need `Dependable`: containers that register in time and report
  (`Prompt`), queues that name one fraction or whole GPUs (`FixedShares`, without
  which a task that is to take what is left gets a whole GPU, see above), and as
  many letters as a GPU has fractions of the smallest size (`EnoughLetters`,
  without which two containers get the same name).
* They follow from one invariant, `Inv`. Its core is that a task that needs its
  GPUs is `Covered`: it is on the daemon's record, unless docker failed to stop it
  when the loop was left (`missed`), and its worker is listed by the server or its
  reservation stands. `KnownApart` and `AnswerHolds` carry this over
  the gap between a request for the workers and the use of its answer, when a
  reservation may be handed over to a registration; `Accounted` says that in a
  pass everything anybody has was counted, `GpusHold` that no GPU is given away
  beyond its size. `NeverOverPulled`, `AlwaysEnoughGpus`, `SuffixesUnique`,
  `NeverChargedTwice` and `ShutdownReachesAll` (what is alive after a shutdown was
  missed by docker, never by the daemon's record) are consequences.
* The load of a GPU is the number of the units in its slots, so that the library's
  theorems on cardinality give the sums; that two fractions never get one letter
  is a count as well, of the letters in use against the units they stand for. The
  daemon's choice of a least element is well defined since the naturals are
  well-founded (`LeastNatural`).
* `NoNeedlessShutdown` (`NothingShutDown`) needs no prompt containers: by
  priority a pass makes one allocation and begins it only where there is enough.

**The glue** (`K8sGlueProofs`)

* `GlueTypeOK`: the types, and `Control`: the glue has a task in hand exactly
  while it deals with one, and its book of deleted pods and stale tasks is empty
  but where it goes through them. The facts on queues (`RemoveFirstFacts`,
  `EntryAdded`, `EntryRemoved`, `EntryPopped`, `EntryToFront`) say who waits and
  who heads a queue after each change.
* `PodsAreLimited`, from `RoomForPod`: the pods that are counted never exceed the
  limit, and where the glue is about to apply one there is room, which users,
  cluster and daemon cannot use up, since only `Apply` makes pods.
* `RunningPodsLeftAlone`, from `Calm`: if the pod the daemon deals with runs, it
  took its task since the daemon looked (`LagIsKnown`), which `started` records
  until the daemon looks again. So the daemon harms a running task by acting on an
  answer that was overtaken, and in no other way.
* `NobodyIsStranded` (`NoStranded`). `NoStranded` is not
  inductive: while a thread has a task, what becomes of it depends on where the
  thread is. `Keeps` says, per status, who sees to a task: one that is queued
  waits, has a pod on its way, or the glue `WillLaunch` it; one in progress has a
  pod or is still to be cleaned up; one that is stopped and wanted waits or the
  glue `WillPush` it; or the daemon holds it. A step is `Passive` for all tasks
  but one; `WorkKeepsOwn` and its like for the daemon, users and cluster go
  through the rest, and show which requests leave an excuse.
* `NobodyOvertakes` (`StrictPriority`), from `InOrder`: a task put back heads its
  queue (`WaitsInFront`), the task in hand came from another one (`HandCameFirst`),
  and a pass that got to a queue met no such task before it (`PassedNobody`).

**The caches** (`VcsCacheProofs`, `FolderCacheProofs`)

* `CopiesAreWhole`, `CopiesAreFresh` and `FailuresAreOwn` of `VcsCache`, by one
  invariant `Inv`: per agent, where it works and that it has the lock for it
  (`Placed`), that the folder is as good as this place requires (`Sound`), new
  enough (`Fresh`), and that a failure has its excuse (`Excused`).
  `TempFoldersGo`: each agent is `Tidy`, a temporary folder exists only between
  the steps that make and remove it; and what `rm_tree` left of earlier ones
  (`orphans`) is never more than the removals that failed (`FewStep`).
* `LockHeldInUse` of `FolderCache`: each step keeps the lock its next label
  needs, takes it, or lets go (`KeepsNeed`, `Takes`, `LetsGo`); `NeedKept` shows
  that these three preserve it. `CopiesAreWhole`, whatever is added, left behind
  by a removal or killed, from `CopyInv`: an agent that copies knows whether its
  entry was whole when it began, and while it copies that does not change
  (`FolderKept`), since only the holder of the exclusive lock takes files out of a
  folder and a copy excludes it (`CopyingExcludes`).
* `FoldersListed` and `KeysStayCached` (`KeysKept`) of `FolderCache`, with any
  additions and crashes: the list by age names each folder once and nothing else
  (`ListOK`), and a step puts a folder in front, takes out the one it removes, or
  gives one a longer name (`Lists`); only the second of these loses a key. That
  what is looked for, renamed or removed has a name is `NamesOK`.

**The machine** (`SingletonProofs`): `InstancesApart`, `SlotsApart`,
`AllOnRecord` and `DeadTakeNothing`, with every window of the lock open, from
`RegistrationInv`. Who registers while another does, or while another changes its
pid or leaves, has `crossed` it, and who is without a file is `lost`
(`Crossings`); what is proved is of all the others. Each agent up is on record
(`Recorded`), with its slot (`Truthful`); one that lives is taken for dead by none
(`NotDead`, which needs `Made`: no file bears a pid that nobody has had yet); the
agent that reads has each of them still to read or has noted its slot and id
(`Reading`), so that what it chooses is nobody's (`Chosen`). `SmallestFreeIsFree` is
the pigeonhole: of one more numbers than there are slots, one is free, and the
naturals being well-founded there is a smallest. `DeadTakeNothing` adds that an
agent that is not up yet has no file (`NoFile`), so that what is found belongs to
an agent that lives (`FoundAlive`) or to a reused pid. Of the windows nothing is
left to excuse there.

Model-checked only: every liveness property (`StopIsHonoured`, `ResetIsHonoured`,
`ExitIsHandled`, `EventuallyPulled`, `ComesUp`, `OpsEnd`, `Launched`, `PodsGoAway`,
`NoStarvation`), since fairness and `ENABLED` are out of the prover's reach. Every
invariant, every action property and the refinement that a run checks is a
theorem.

## 6. What is not modelled

* In `TaskLifecycle`: bash abort callbacks, tasks that run on several nodes (rank
  above 0), the end of the daemon itself, the contents of the log. Tasks of a
  pipeline's parent and a project's hidden tags do not change a run's control.
* In `QueueLoop`: values of `force` that are not valid, the parsing of uptime and
  downtime, the count of services without docker (by pid files), sleeping,
  `crash_on_exception`, `reload_config`.
* In `DynamicGpus`: a restart of the process (the loop is entered again as
  `daemon()` does), the cluster report, docker arguments, MIG devices.
* In `K8sGlue`: tasks of another tenant, the re-creation of the pending queue
  (`k8s.py:701`), ports mode, templates with several queues, selectors,
  `kubectl` errors that are ignored, the hooks for suspended pods and
  schedulability, a restart of the process, the messages the daemon reports.
* In `VcsCache`: standalone mode, Mercurial, submodules, credentials, a git
  command that outlives its killed agent.
* In `Singleton`: `allow_double` and worker ids looked up at the server
  (services mode and the glue), file operations that fail, Windows.
* In `FolderCache`: the contents of environments, temporary folders that a
  crash leaves, the platform differences of the file lock.
* Log shipping, token renewal, SNUG metering, requirements: not yet (see the
  plan). The session's retries are behind what every module assumes of a request,
  that it succeeds or fails; the buffer of log lines is one thread's list.
* The resource monitor: numbers that nobody reads, except that its reports keep a
  worker registered, which `DynamicGpus` has.
* Not planned: configuration, command line, generated API classes, GPU
  statistics, docker arguments and templates, vendored code. They keep no state
  of their own, or are not this project's code. Most lines of the repository are
  of these kinds, the generated API classes and the vendored packages above all,
  so that the lines in `map` are few next to all of them and many next to the
  code that decides something.

## 7. Plan

Done: `TaskLifecycle`, `DynamicGpus`, `Singleton`, `FolderCache`, then
`VcsCache`, `K8sGlue`, `QueueLoop` and `TaskRun`, with the proofs above. Left:

1. Bash abort callbacks and the write-back of runtime properties, added to
   `TaskLifecycle`; a restart of the process, added to `DynamicGpus` and
   `K8sGlue`.
2. `LogShipping`: the buffer that is sent again; `SnugWrapper` and
   `SnugReporter`: install and removal by rename, the queue and its flush at
   exit; `TokenRenewal`.
3. `Requirements`: the substitutions as operators against a reference
   definition.
4. Proofs under weaker assumptions: what holds of names when letters run out, and
   of shares when a container reports late.
   `lifecycle_pair` can be folded into another run: `OneHolder` says more.
