------------------------------- MODULE K8sGlue -------------------------------
(***************************************************************************)
(* The Kubernetes glue (glue/k8s.py) and its pending-pods daemon           *)
(* (glue/pending_pods_daemon.py), two threads of one process, between the  *)
(* server, the cluster and the users.                                      *)
(*                                                                         *)
(* K8sIntegration.run_tasks_loop pulls a task, run_one_task pushes it into *)
(* the k8s pending queue, where users see it, and applies a pod (or job)   *)
(* for it; the agent in the pod dequeues the task and runs it.  The loop   *)
(* also deletes pods that ended and fails the tasks they left behind.  The *)
(* daemon deletes pending pods that will not start or whose task was       *)
(* aborted, and puts the task of a replaced pod back into the pending      *)
(* queue.  A pod is named after its task: there is one per task at most.   *)
(*                                                                         *)
(* A request made through api_client that the server refuses raises        *)
(* nothing (Session.send): a fault here is a request without an answer.    *)
(***************************************************************************)
EXTENDS Integers, FiniteSets, SequencesExt

CONSTANTS
    Tasks,          \* the tasks
    NoTask,         \* what an idle thread works on
    LastQueue,      \* the queues are 1 .. LastQueue, by priority
    MaxPods,        \* max_pods_limit, 0 for none
    Jobs,           \* kind is "job": a preempted pod is replaced
    Basic,          \* the server's feature set is "basic"
    Impersonate,    \* --use-owner-token: the owner's login may be refused
    Prompt,         \* pods end, and are deleted, within five minutes
    MaxOps,         \* bound: user operations and disruptions of the cluster
    MaxFaults       \* bound: failed requests, commands and pods

ASSUME ConstantsAssumption ==
    /\ IsFiniteSet(Tasks) /\ NoTask \notin Tasks
    /\ LastQueue \in Nat \ {0}
    /\ MaxPods \in Nat
    /\ {Jobs, Basic, Impersonate, Prompt} \subseteq BOOLEAN
    /\ MaxOps \in Nat
    /\ MaxFaults \in Nat

Queues == 1 .. LastQueue
Statuses == {"created", "queued", "in_progress", "stopped", "failed",
             "completed"}
Pods == {"none", "pending", "booting", "running", "done"}
DaemonPCs == {"list", "refresh", "evict", "fail", "status", "unpend",
              "requeue", "aborted", "recheck", "reread", "delete"}
Excuses == {"none", "answer", "push", "crash", "template", "place", "agent",
            "unread", "recent", "evict", "leftover", "vanished", "late"}
LaunchPCs == {"count", "back_stop", "back", "apply", "unpend", "reread", "readd"}
\* "halt": aborted after it was pushed, while its pod is being made.
Wishes == {"none", "run", "stop", "halt"}

VARIABLES
    \* the server
    status,     \* [Tasks -> Statuses]
    parked,     \* [Tasks -> BOOLEAN]: status_reason is "k8s pending scheduler"
    old,        \* [Tasks -> BOOLEAN]: last_change is over five minutes ago
    queue,      \* [Queues -> Seq(Tasks)]
    pending,    \* the entries of the k8s pending queue
    \* the cluster
    pod,        \* [Tasks -> Pods]; "booting": its agent has no task yet
    \* the glue's loop
    gpc,        \* where it is
    gq,         \* the queue it is at; 0: the clean-up at the pod limit
    gt,         \* the task of run_one_task
    gone,       \* deleted_pods: their tasks are still to be looked at
    stale,      \* tasks_to_abort, with the status that was read
    \* the pending-pods daemon
    dpc,        \* where it is
    dt,         \* the task of the pod it works on
    todo,       \* pods (by task) of the list in hand, then aborted_task_ids
    seen,       \* task_id_to_pod: the tasks of the pods it found pending
    started,    \* the pod it works on began to run since it looked at it
    \* bookkeeping of the model
    waits,      \* <<task, queue>>: put back for want of quota, at the front
    wish,       \* [Tasks -> Wishes]: the users' last word on the task
    excuse,     \* [Tasks -> Excuses]: what went wrong around a task
    ops,
    faults

server == <<status, parked, old, queue, pending, waits>>
glue == <<gpc, gq, gt, gone, stale>>
daemon == <<dpc, dt, todo, seen, started>>
book == <<wish, excuse, ops, faults>>
vars == <<server, pod, glue, daemon, book>>

Init ==
    /\ status = [t \in Tasks |-> "created"]
    /\ parked = [t \in Tasks |-> FALSE]
    /\ old = [t \in Tasks |-> FALSE]
    /\ queue = [q \in Queues |-> <<>>]
    /\ pending = {}
    /\ pod = [t \in Tasks |-> "none"]
    /\ gpc = "top" /\ gq = 0 /\ gt = NoTask /\ gone = {} /\ stale = {}
    /\ dpc = "list" /\ dt = NoTask /\ todo = {} /\ seen = {} /\ started = FALSE
    /\ waits = {}
    /\ wish = [t \in Tasks |-> "none"]
    /\ excuse = [t \in Tasks |-> "none"]
    /\ ops = 0 /\ faults = 0

-----------------------------------------------------------------------------
(* The server, as the requests rely on it.                                 *)

SetStatus(t, s, isParked) ==
    /\ status' = [status EXCEPT ![t] = s]
    /\ parked' = [parked EXCEPT ![t] = isParked]
    /\ old' = [old EXCEPT ![t] = FALSE]

SameStatus == UNCHANGED <<status, parked, old>>

Waits(t) == \E q \in Queues : Contains(queue[q], t)

Live(t) == pod[t] \in {"pending", "booting", "running"}

Without(t) == [q \in Queues |-> RemoveFirst(queue[q], t)]

\* tasks.dequeue takes the task out of its execution queue: the one it was
\* enqueued to, or the pending queue if the feature set is "basic".
LeaveQueue(t) ==
    IF Basic THEN pending' = pending \ {t} /\ UNCHANGED <<queue, waits>>
             ELSE /\ queue' = Without(t)
                  /\ waits' = {w \in waits : w[1] # t}
                  /\ UNCHANGED pending

StayQueued == UNCHANGED <<queue, pending, waits>>

\* What tasks.enqueue accepts without force.  A task that is queued may be
\* enqueued again if the server supports same-state transitions.
Enqueueable(t) ==
    status[t] \in {"created", "stopped"} \cup (IF Basic THEN {} ELSE {"queued"})

Excuse(t, kind) == excuse' = [excuse EXCEPT ![t] = kind]

Fault ==
    /\ faults < MaxFaults
    /\ faults' = faults + 1

NoFault == UNCHANGED faults

-----------------------------------------------------------------------------
(* Users.                                                                  *)

UserOp ==
    /\ ops < MaxOps
    /\ ops' = ops + 1
    /\ UNCHANGED <<pod, glue, daemon, faults>>

\* A task is enqueued: a new one, an aborted one, or one that was reset.
Enqueue(t) ==
    /\ UserOp
    /\ status[t] \notin {"queued", "in_progress"}
    /\ SetStatus(t, "queued", FALSE)
    /\ \E q \in Queues : ~ Contains(queue[q], t)
         /\ queue' = [queue EXCEPT ![q] = Append(@, t)]
    /\ wish' = [wish EXCEPT ![t] = "run"]
    /\ Excuse(t, "none")
    /\ UNCHANGED <<pending, waits>>

\* A task is aborted, or taken out of the queue.
Abort(t) ==
    /\ UserOp
    /\ status[t] \in {"queued", "in_progress"}
    /\ \E s \in {"stopped", "created"} :
         /\ s = "created" => status[t] = "queued"
         /\ SetStatus(t, s, FALSE)
    /\ IF status[t] = "queued" THEN LeaveQueue(t)
                               ELSE StayQueued
    /\ wish' = [wish EXCEPT ![t] = IF gt = t /\ gpc \in LaunchPCs THEN "halt"
                                                                 ELSE "stop"]
    /\ UNCHANGED excuse

User == \E t \in Tasks : Enqueue(t) \/ Abort(t)

\* Five minutes go by.  With Prompt they do not between the end of a task
\* and the deletion of its pod.
Age(t) ==
    /\ ~ old[t]
    /\ status[t] \in {"queued", "in_progress"}
    /\ Prompt => /\ pod[t] # "done"
                 /\ pod[t] = "running" => status[t] = "in_progress"
    /\ old' = [old EXCEPT ![t] = TRUE]
    /\ UNCHANGED <<status, parked, queue, pending, waits, pod, glue, daemon, book>>

-----------------------------------------------------------------------------
(* The cluster, and the agent in a pod.                                    *)

Cluster == UNCHANGED <<glue, daemon, wish>>

PodStart(t) ==
    /\ pod[t] = "pending"
    /\ pod' = [pod EXCEPT ![t] = "booting"]
    /\ Cluster
    /\ UNCHANGED <<server, excuse, ops, faults>>

\* execute --require-queue: the task is dequeued and marked started.
Boot(t) ==
    /\ pod[t] = "booting"
    /\ status[t] = "queued"
    /\ pod' = [pod EXCEPT ![t] = "running"]
    /\ SetStatus(t, "in_progress", FALSE)
    /\ LeaveQueue(t)
    /\ started' = (started \/ (dt = t /\ dpc \notin {"refresh", "recheck"}))
    /\ UNCHANGED <<glue, dpc, dt, todo, seen, book>>

\* The task is not queued (any more), or the request fails: the agent leaves.
BootRefused(t) ==
    /\ pod[t] = "booting"
    /\ \/ status[t] # "queued" /\ NoFault /\ UNCHANGED excuse
       \/ status[t] = "queued" /\ Fault /\ Excuse(t, "agent")
    /\ pod' = [pod EXCEPT ![t] = "done"]
    /\ Cluster
    /\ UNCHANGED <<server, ops>>

RunEnds(t) ==
    /\ pod[t] = "running"
    /\ status[t] = "in_progress"
    /\ \E s \in {"completed", "failed"} : SetStatus(t, s, FALSE)
    /\ Cluster
    /\ UNCHANGED <<queue, pending, waits, pod, excuse, ops, faults>>

\* The agent in the pod is done, or sees a status that makes it stop.
PodEnds(t) ==
    /\ pod[t] = "running"
    /\ status[t] # "in_progress"
    /\ pod' = [pod EXCEPT ![t] = "done"]
    /\ Cluster
    /\ UNCHANGED <<server, excuse, ops, faults>>

\* The pod fails without a word to the server.  A task it has not taken yet
\* stays in the pending queue.
PodFails(t) ==
    /\ Live(t)
    /\ Fault
    /\ pod' = [pod EXCEPT ![t] = "done"]
    /\ IF status[t] = "queued" THEN Excuse(t, "agent") ELSE UNCHANGED excuse
    /\ Cluster
    /\ UNCHANGED <<server, ops>>

\* The node is reclaimed: a job makes a new pod, a pod of its own is gone.
Preempt(t) ==
    /\ pod[t] \in {"booting", "running"}
    /\ ops < MaxOps
    /\ ops' = ops + 1
    /\ IF Jobs THEN pod' = [pod EXCEPT ![t] = "pending"] /\ UNCHANGED excuse
               ELSE pod' = [pod EXCEPT ![t] = "none"] /\ Excuse(t, "vanished")
    /\ Cluster
    /\ UNCHANGED <<server, faults>>

Pod == \E t \in Tasks : \/ PodStart(t) \/ Boot(t) \/ BootRefused(t)
                        \/ RunEnds(t) \/ PodEnds(t) \/ PodFails(t)
                        \/ Preempt(t) \/ Age(t)

-----------------------------------------------------------------------------
(* run_tasks_loop: the pod limit and the clean-up of old pods.             *)

Goto(label) == gpc' = label

\* What a step of the loop that is not about pods and tasks leaves alone.
LoopOnly == UNCHANGED <<server, pod, daemon, wish, ops>>

\* Pods are made in the glue's own namespace, where _get_pod_count counts them:
\* no template names another one.
Used == {t \in Tasks : pod[t] # "none"}

\* Mutant: no clean-up at the limit.
UsedPodsMutant ==
    /\ gpc = "top"
    /\ IF MaxPods > 0 /\ Cardinality(Used) >= MaxPods
         THEN gq' = 0 /\ Goto("top")
         ELSE gq' = 1 /\ Goto("clean")
    /\ LoopOnly
    /\ UNCHANGED <<gt, gone, stale, excuse, faults>>

\* _get_used_pods; on an error the count is -1, below any limit.
UsedPods ==
    /\ gpc = "top"
    /\ \/ gq' = (IF MaxPods > 0 /\ Cardinality(Used) >= MaxPods THEN 0 ELSE 1) /\ NoFault
       \/ MaxPods > 0 /\ gq' = 1 /\ Fault
    /\ Goto("clean")
    /\ LoopOnly
    /\ UNCHANGED <<gt, gone, stale, excuse>>

AfterCleanup == IF gq = 0 THEN "top" ELSE "next"

\* The namespace was cleaned up less than a second ago, or kubectl failed.
CleanupSkipped ==
    /\ gpc = "clean"
    /\ Goto(AfterCleanup)
    /\ LoopOnly
    /\ UNCHANGED <<gq, gt, gone, stale, excuse, faults>>

\* _delete_completed_or_failed_pods: all of them, or those that ended before
\* the configured delay.
CleanupOldPods ==
    /\ gpc = "clean"
    /\ \E dead \in SUBSET {t \in Tasks : pod[t] = "done"} :
         /\ Prompt => dead = {t \in Tasks : pod[t] = "done"}
         /\ pod' = [t \in Tasks |-> IF t \in dead THEN "none" ELSE pod[t]]
         /\ gone' = dead
         /\ Goto(IF dead = {} THEN AfterCleanup ELSE "look")
    /\ UNCHANGED <<server, gq, gt, stale, daemon, book>>

\* Mutant: only tasks that are queued are asked for.
IsStaleMutant(t) == status[t] = "queued" /\ old[t] /\ ~ parked[t]

\* The task of a deleted pod that is in nobody's hands any more, it seems.
IsStale(t) ==
    /\ status[t] \in {"in_progress", "queued"}
    /\ old[t]
    /\ ~ (status[t] = "queued" /\ parked[t])

LookUpTasks ==
    /\ gpc = "look"
    /\ LET found == {t \in gone : IsStale(t)} IN
         /\ stale' = {<<t, status[t]>> : t \in found}
         /\ Goto(IF found = {} THEN AfterCleanup ELSE "abort")
    /\ gone' = {}
    /\ excuse' = [t \in Tasks |->
                    IF t \in gone /\ status[t] = "in_progress" /\ ~ old[t]
                    THEN "recent" ELSE excuse[t]]
    /\ LoopOnly
    /\ UNCHANGED <<gq, gt, faults>>

\* The request fails: the tasks are not looked at again.
LookUpFails ==
    /\ gpc = "look"
    /\ Fault
    /\ excuse' = [t \in Tasks |-> IF t \in gone THEN "unread" ELSE excuse[t]]
    /\ gone' = {}
    /\ Goto(AfterCleanup)
    /\ LoopOnly
    /\ UNCHANGED <<gq, gt, stale>>

\* A task that was read as queued is dequeued first; the server refuses that
\* if it no longer is, and then the task is not failed either.
FailStale(t, s) ==
    /\ gpc = "abort"
    /\ <<t, s>> \in stale
    /\ stale' = stale \ {<<t, s>>}
    /\ Goto(IF stale' = {} THEN AfterCleanup ELSE "abort")
    /\ \/ /\ s = "queued" => status[t] = "queued"
          /\ SetStatus(t, "failed", FALSE)
          /\ IF s = "queued" THEN LeaveQueue(t) ELSE StayQueued
          /\ NoFault /\ UNCHANGED excuse
       \/ /\ s = "queued" /\ status[t] # "queued"
          /\ NoFault /\ UNCHANGED <<server, excuse>>
       \/ Fault /\ Excuse(t, "unread") /\ UNCHANGED server
    /\ UNCHANGED <<pod, gq, gt, gone, daemon, wish, ops>>

Cleanup == \/ CleanupSkipped \/ CleanupOldPods \/ LookUpTasks \/ LookUpFails
           \/ \E x \in stale : FailStale(x[1], x[2])

-----------------------------------------------------------------------------
(* run_tasks_loop: pulling a task.                                         *)

\* The next queue by priority, or back to the top after a sleep.
NextQueue ==
    /\ gq' = IF gq < LastQueue THEN gq + 1 ELSE 0
    /\ Goto(IF gq < LastQueue THEN "clean" ELSE "top")
    /\ UNCHANGED <<gone, stale>>

NoTasks ==
    /\ gpc = "next"
    /\ \/ queue[gq] = <<>> /\ NoFault
       \/ queue[gq] # <<>> /\ Fault
    /\ NextQueue
    /\ UNCHANGED <<server, pod, gt, daemon, wish, excuse, ops>>

\* The entry is popped; the status stays "queued".
GetNextTask ==
    /\ gpc = "next"
    /\ queue[gq] # <<>>
    /\ queue' = [queue EXCEPT ![gq] = Tail(@)]
    /\ gt' = Head(queue[gq])
    /\ waits' = waits \ {<<gt', gq>>}
    /\ Goto("pulled")
    /\ UNCHANGED <<status, parked, old, pending, pod, gq, gone, stale, daemon,
                   wish, excuse, ops, faults>>

\* The entry is popped and the answer lost.
AnswerLost ==
    /\ gpc = "next"
    /\ queue[gq] # <<>>
    /\ Fault
    /\ queue' = [queue EXCEPT ![gq] = Tail(@)]
    /\ waits' = waits \ {<<Head(queue[gq]), gq>>}
    /\ Excuse(Head(queue[gq]), "answer")
    /\ NextQueue
    /\ UNCHANGED <<status, parked, old, pending, pod, gt, daemon, wish, ops>>

\* Mutant: the loop goes on with the next queue.
LeaveMutant ==
    /\ gt' = NoTask
    /\ gq' = IF gq < LastQueue THEN gq + 1 ELSE 0
    /\ Goto(IF gq < LastQueue THEN "clean" ELSE "top")
    /\ UNCHANGED <<gone, stale>>

\* The loop starts over with the first queue and no task in hand.
Leave ==
    /\ gt' = NoTask
    /\ gq' = 0
    /\ Goto("top")
    /\ UNCHANGED <<gone, stale>>

\* The owner may be logged in as; if not, or if nobody knows who it is, the task
\* is failed, in the latter case after it is dequeued, and the loop goes on.
OwnerLogin ==
    /\ gpc = "pulled"
    /\ \/ /\ Goto(IF Basic THEN "stop" ELSE "remove")
          /\ UNCHANGED <<server, gq, gt, gone, stale, excuse, faults>>
       \/ /\ Impersonate
          /\ \/ SetStatus(gt, "failed", FALSE) /\ NoFault /\ UNCHANGED excuse
             \/ SameStatus /\ Fault /\ Excuse(gt, "push")
          /\ LeaveQueue(gt) \/ StayQueued
          /\ gt' = NoTask
          /\ NextQueue
    /\ UNCHANGED <<pod, daemon, wish, ops>>

\* A request of run_one_task or _re_enqueue_task that is not guarded raises: the
\* exception ends run_tasks_loop, and daemon() starts it again.
Crash ==
    /\ gpc \in {"pulled", "count", "back_stop", "undo", "readd", "front"}
    /\ Fault
    /\ Excuse(gt, "crash")
    /\ Leave
    /\ LoopOnly

-----------------------------------------------------------------------------
(* run_one_task: into the pending queue.                                   *)

Placing == UNCHANGED <<gq, gt, gone, stale, daemon, wish, waits, ops>>

\* Only a "basic" server needs the task stopped before it is enqueued.
StopFirst ==
    /\ gpc = "stop"
    /\ SetStatus(gt, "stopped", FALSE)
    /\ Goto("remove")
    /\ Placing
    /\ UNCHANGED <<queue, pending, pod, excuse, faults>>

RemoveStuck ==
    /\ gpc = "remove"
    /\ pending' = pending \ {gt}
    /\ Goto("push")
    /\ Placing
    /\ UNCHANGED <<status, parked, old, queue, pod, excuse, faults>>

PushToPending ==
    /\ gpc = "push"
    /\ Enqueueable(gt)
    /\ gt \notin pending
    /\ SetStatus(gt, "queued", TRUE)
    /\ pending' = pending \cup {gt}
    /\ Goto("count")
    /\ Placing
    /\ UNCHANGED <<queue, pod, excuse, faults>>

\* The task cannot be pushed: it is left as it is.
PushFails ==
    /\ \/ /\ gpc \in {"stop", "remove", "push"}
          /\ Fault
          /\ Excuse(gt, "push")
       \/ /\ gpc = "push"
          /\ ~ Enqueueable(gt) \/ gt \in pending
          /\ NoFault
          /\ UNCHANGED excuse
    /\ Leave
    /\ LoopOnly

-----------------------------------------------------------------------------
(* run_one_task: a free place, and the pod.                                *)

\* Mutant: off by one.
CountPodsMutant ==
    /\ gpc = "count"
    /\ \/ /\ Goto(IF MaxPods > 0 /\ Cardinality(Used) > MaxPods
                  THEN "back_stop" ELSE "apply")
          /\ NoFault
       \/ MaxPods > 0 /\ Goto("back_stop") /\ Fault
    /\ Placing
    /\ UNCHANGED <<server, pod, excuse>>

\* The pods are counted once more; if that fails, no place is assumed.
CountPods ==
    /\ gpc = "count"
    /\ \/ /\ Goto(IF MaxPods > 0 /\ Cardinality(Used) >= MaxPods
                  THEN "back_stop" ELSE "apply")
          /\ NoFault
       \/ MaxPods > 0 /\ Goto("back_stop") /\ Fault
    /\ Placing
    /\ UNCHANGED <<server, pod, excuse>>

\* No place: stopped, whatever its status is now, and enqueued again.
StopForQueue ==
    /\ gpc = "back_stop"
    /\ SetStatus(gt, "stopped", FALSE)
    /\ Goto("back")
    /\ Placing
    /\ UNCHANGED <<queue, pending, pod, excuse, faults>>

\* Mutant: a task the glue has stopped is not enqueued.
BackToQueueMutant ==
    /\ gpc = "back"
    /\ Leave
    /\ UNCHANGED <<server, pod, daemon, book>>

BackToQueue ==
    /\ gpc = "back"
    /\ \/ /\ Enqueueable(gt) /\ ~ Contains(queue[gq], gt)
          /\ SetStatus(gt, "queued", FALSE)
          /\ queue' = [queue EXCEPT ![gq] = Append(@, gt)]
          /\ NoFault /\ UNCHANGED excuse
       \/ /\ ~ (Enqueueable(gt) /\ ~ Contains(queue[gq], gt))
          /\ SameStatus /\ NoFault /\ UNCHANGED <<queue, excuse>>
       \/ SameStatus /\ Fault /\ Excuse(gt, "place") /\ UNCHANGED queue
    /\ Leave
    /\ UNCHANGED <<pending, pod, daemon, waits, wish, ops>>

\* There is no template for the task, or it cannot be resolved: skipped.
NoTemplate ==
    /\ gpc = "apply"
    /\ Fault
    /\ Excuse(gt, "template")
    /\ Leave
    /\ LoopOnly

\* kubectl apply makes the pod, or finds one of that name and the same
\* contents, from an earlier run of the task, and leaves it as it is.
Apply ==
    /\ gpc = "apply"
    /\ pod' = IF pod[gt] = "none" THEN [pod EXCEPT ![gt] = "pending"] ELSE pod
    /\ IF pod[gt] = "done" \/ (pod[gt] = "running" /\ status[gt] # "in_progress")
         THEN Excuse(gt, "leftover") ELSE UNCHANGED excuse
    /\ Leave
    /\ UNCHANGED <<server, daemon, wish, ops, faults>>

\* A resource quota is used up, by pods of these tasks or of others.
QuotaExceeded ==
    /\ gpc = "apply"
    /\ pod[gt] = "none"
    /\ \/ Used # {} /\ UNCHANGED ops
       \/ ops < MaxOps /\ ops' = ops + 1
    /\ Goto("unpend")
    /\ UNCHANGED <<server, pod, gq, gt, gone, stale, daemon, wish, excuse,
                   faults>>

\* Any other error of kubectl.
ApplyFails ==
    /\ gpc = "apply"
    /\ Fault
    /\ Goto("undo")
    /\ Placing
    /\ UNCHANGED <<server, pod, excuse>>

\* _set_task_failed_while_applying
FailApplied ==
    /\ gpc = "undo"
    /\ pending' = pending \ {gt}
    /\ SetStatus(gt, "failed", FALSE)
    /\ Leave
    /\ UNCHANGED <<queue, waits, pod, daemon, book>>

-----------------------------------------------------------------------------
(* _re_enqueue_task: back to the front of its queue, to wait for quota.    *)

\* A request that fails is ignored.
Unpend ==
    /\ gpc = "unpend"
    /\ \/ pending' = pending \ {gt} /\ NoFault
       \/ UNCHANGED pending /\ Fault
    /\ Goto("reread")
    /\ Placing
    /\ UNCHANGED <<status, parked, old, queue, pod, excuse>>

\* Still queued, or the status cannot be read.
StillQueued ==
    /\ gpc = "reread"
    /\ \/ status[gt] = "queued" /\ NoFault
       \/ Fault
    /\ Goto("readd")
    /\ Placing
    /\ UNCHANGED <<server, pod, excuse>>

\* Aborted or dequeued meanwhile: it is left as it is.
NotQueuedAnyMore ==
    /\ gpc = "reread"
    /\ status[gt] # "queued"
    /\ Leave
    /\ LoopOnly
    /\ UNCHANGED <<excuse, faults>>

\* queues.add_task makes an entry, at the end, and leaves the status alone.
AddTask ==
    /\ gpc = "readd"
    /\ ~ Contains(queue[gq], gt)
    /\ queue' = [queue EXCEPT ![gq] = Append(@, gt)]
    /\ Goto("front")
    /\ Placing
    /\ UNCHANGED <<status, parked, old, pending, pod, excuse, faults>>

\* It is refused, or fails: the task is failed, if that request does not fail
\* as well.
AddTaskFails ==
    /\ gpc = "readd"
    /\ \/ Contains(queue[gq], gt) /\ NoFault /\ SetStatus(gt, "failed", FALSE)
          /\ UNCHANGED excuse
       \/ Fault /\ SetStatus(gt, "failed", FALSE) /\ UNCHANGED excuse
       \/ Fault /\ SameStatus /\ Excuse(gt, "unread")
    /\ Leave
    /\ UNCHANGED <<queue, pending, pod, daemon, waits, wish, ops>>

\* The task may have left the queue meanwhile; then it is not moved.
MoveToFront ==
    /\ gpc = "front"
    /\ IF Contains(queue[gq], gt)
         THEN /\ queue' = [queue EXCEPT ![gq] = <<gt>> \o RemoveFirst(@, gt)]
              /\ waits' = waits \cup {<<gt, gq>>}
         ELSE UNCHANGED <<queue, waits>>
    /\ Leave
    /\ UNCHANGED <<status, parked, old, pending, pod, daemon, wish, excuse,
                   ops, faults>>

NotMoved ==
    /\ gpc = "front"
    /\ Fault
    /\ Leave
    /\ LoopOnly
    /\ UNCHANGED excuse

Glue ==
    \/ UsedPods \/ Cleanup \/ NoTasks \/ GetNextTask \/ AnswerLost
    \/ OwnerLogin \/ Crash \/ StopFirst \/ RemoveStuck \/ PushToPending
    \/ PushFails \/ CountPods \/ StopForQueue \/ BackToQueue \/ NoTemplate
    \/ Apply \/ QuotaExceeded \/ ApplyFails \/ FailApplied \/ Unpend
    \/ StillQueued \/ NotQueuedAnyMore \/ AddTask \/ AddTaskFails
    \/ MoveToFront \/ NotMoved

-----------------------------------------------------------------------------
(* The pending-pods daemon: each pending pod in turn.                      *)

Polling == UNCHANGED <<glue, waits, wish, ops>>

\* On to the next pod of the list, or to what follows the list.
NextPod(left, found) ==
    /\ todo' = left
    /\ seen' = found
    /\ started' = FALSE
    /\ IF left = {}
         THEN /\ dt' = NoTask
              /\ dpc' = IF found = {} THEN "list" ELSE "aborted"
         ELSE /\ dt' \in left
              /\ dpc' = "refresh"

\* kubectl lists the pending pods; without any, or on an error, it sleeps.
ListPods ==
    /\ dpc = "list"
    /\ \E t \in Tasks : pod[t] = "pending"
    /\ NextPod({t \in Tasks : pod[t] = "pending"}, {})
    /\ Polling
    /\ UNCHANGED <<server, pod, excuse, faults>>

\* Mutant: what the list said of the pod is not refreshed.
RefreshMutant ==
    /\ dpc = "refresh"
    /\ dpc' \in {"evict", "status"}
    /\ seen' = seen \cup {dt}
    /\ Polling
    /\ UNCHANGED <<server, pod, dt, todo, started, excuse, faults>>

\* The pod is still pending, and for a reason it will not get over, or one
\* that was not reported before; the rest is nothing to do.
Refresh ==
    /\ dpc = "refresh"
    /\ pod[dt] = "pending"
    /\ dpc' \in {"evict", "status"}
    /\ seen' = seen \cup {dt}
    /\ Polling
    /\ UNCHANGED <<server, pod, dt, todo, started, excuse, faults>>

Skip ==
    /\ dpc = "refresh"
    /\ NextPod(todo \ {dt}, IF pod[dt] = "pending" THEN seen \cup {dt} ELSE seen)
    /\ Polling
    /\ UNCHANGED <<server, pod, excuse, faults>>

Evict ==
    /\ dpc = "evict"
    /\ pod[dt] # "none"
    /\ pod' = [pod EXCEPT ![dt] = "none"]
    /\ dpc' = "fail"
    /\ Polling
    /\ UNCHANGED <<server, dt, todo, seen, started, excuse, faults>>

\* tasks.failed, forced, whatever became of the task meanwhile.
FailEvicted ==
    /\ dpc = "fail"
    /\ \/ SetStatus(dt, "failed", FALSE) /\ NoFault /\ UNCHANGED excuse
       \/ SameStatus /\ Fault /\ Excuse(dt, "evict")
    /\ NextPod(todo \ {dt}, seen)
    /\ Polling
    /\ UNCHANGED <<queue, pending, pod>>

\* _update_pending_task_msg: a task in progress lost its pod, it seems.
ReadStatus ==
    /\ dpc = "status"
    /\ \/ /\ status[dt] = "in_progress"
          /\ dpc' = "unpend" /\ NoFault /\ UNCHANGED <<dt, todo, seen, started>>
       \/ /\ (status[dt] # "in_progress" /\ NoFault) \/ Fault
          /\ NextPod(todo \ {dt}, seen)
    /\ Polling
    /\ UNCHANGED <<server, pod, excuse>>

\* _enqueue_to_pending_queue: without the entry it may still have there ...
UnpendLost ==
    /\ dpc = "unpend"
    /\ \/ pending' = pending \ {dt} /\ dpc' = "requeue" /\ NoFault
          /\ UNCHANGED <<dt, todo, seen, started>>
       \/ Fault /\ NextPod(todo \ {dt}, seen) /\ UNCHANGED pending
    /\ Polling
    /\ UNCHANGED <<status, parked, old, queue, pod, excuse>>

\* ... and then forced, unless it is back in the queue by now.  A pod that
\* began to run or ended in the meantime leaves it there.
RequeueLost ==
    /\ dpc = "requeue"
    /\ \/ /\ dt \notin pending
          /\ SetStatus(dt, "queued", TRUE)
          /\ pending' = pending \cup {dt}
          /\ NoFault
          /\ IF pod[dt] \in {"pending", "booting"} THEN UNCHANGED excuse
                                                 ELSE Excuse(dt, "late")
       \/ /\ (dt \in pending /\ NoFault) \/ Fault
          /\ SameStatus /\ UNCHANGED <<pending, excuse>>
    /\ NextPod(todo \ {dt}, seen)
    /\ Polling
    /\ UNCHANGED <<queue, pod>>

-----------------------------------------------------------------------------
(* The pending-pods daemon: _handle_aborted_tasks.                         *)

\* On to the next aborted task, or to the next poll.
NextAborted(left) ==
    /\ todo' = left
    /\ started' = FALSE
    /\ IF left = {}
         THEN dt' = NoTask /\ dpc' = "list" /\ seen' = {}
         ELSE dt' \in left /\ dpc' = "recheck" /\ UNCHANGED seen

AbortedTasks ==
    /\ dpc = "aborted"
    /\ NextAborted({t \in seen : status[t] = "stopped"})
    /\ Polling
    /\ UNCHANGED <<server, pod, excuse, faults>>

\* Is its pod still pending?  Without an answer it is passed over.
Recheck ==
    /\ dpc = "recheck"
    /\ \/ pod[dt] = "pending" /\ dpc' = "reread" /\ NoFault
          /\ UNCHANGED <<dt, todo, seen, started>>
       \/ /\ (pod[dt] # "pending" /\ NoFault) \/ Fault
          /\ NextAborted(todo \ {dt})
    /\ Polling
    /\ UNCHANGED <<server, pod, excuse>>

\* Is it still aborted?
Reread ==
    /\ dpc = "reread"
    /\ IF status[dt] = "stopped"
         THEN dpc' = "delete" /\ UNCHANGED <<dt, todo, seen, started>>
         ELSE NextAborted(todo \ {dt})
    /\ Polling
    /\ UNCHANGED <<server, pod, excuse, faults>>

\* A task that was enqueued in between and launched on the pod loses it.
DeleteAborted ==
    /\ dpc = "delete"
    /\ pod[dt] # "none"
    /\ pod' = [pod EXCEPT ![dt] = "none"]
    /\ IF status[dt] = "stopped" THEN UNCHANGED excuse ELSE Excuse(dt, "late")
    /\ NextAborted(todo \ {dt})
    /\ Polling
    /\ UNCHANGED <<server, faults>>

\* A request without an answer, or a kubectl delete that fails, as it does for a
\* pod that is gone: the exception ends the round.
RoundFails ==
    /\ dpc \in {"refresh", "evict", "aborted", "recheck", "reread", "delete"}
    /\ Fault \/ (dpc \in {"evict", "delete"} /\ pod[dt] = "none" /\ NoFault)
    /\ NextAborted({})
    /\ Polling
    /\ UNCHANGED <<server, pod, excuse>>

PendingPodsDaemon ==
    \/ ListPods \/ Refresh \/ Skip \/ Evict \/ FailEvicted \/ ReadStatus
    \/ UnpendLost \/ RequeueLost \/ AbortedTasks \/ Recheck \/ Reread
    \/ DeleteAborted \/ RoundFails

-----------------------------------------------------------------------------
Next == User \/ Pod \/ Glue \/ PendingPodsDaemon

Spec == Init /\ [][Next]_vars

\* The glue and its daemon go on, and so does the agent in a pod, but a pod may
\* stay pending.  A clean-up that is skipped because the last one is too close comes again.
FairSpec ==
    /\ Spec
    /\ WF_vars(Glue) /\ WF_vars(PendingPodsDaemon)
    /\ SF_vars(CleanupOldPods)
    /\ \A t \in Tasks :
         /\ SF_vars(Boot(t) \/ BootRefused(t))
         /\ WF_vars(RunEnds(t)) /\ WF_vars(PodEnds(t))

-----------------------------------------------------------------------------
(* Safety.                                                                 *)

\* The glue will pull the task, is placing it, or has it from a pod it deleted.
HeldByGlue(t) ==
    \/ Waits(t)
    \/ gt = t
    \/ t \in gone
    \/ \E s \in {"queued", "in_progress"} : <<t, s>> \in stale

\* When the pod is deleted the task is failed, unless it is parked.
LeftByPod(t) == pod[t] = "done" /\ ~ (status[t] = "queued" /\ parked[t])

HeldByDaemon(t) == dpc = "fail" /\ dt = t

\* It should run: it is queued or in progress, or was stopped by no user.
Due(t) == \/ status[t] \in {"queued", "in_progress"}
          \/ status[t] = "stopped" /\ wish[t] = "run"

\* A task that is due is in somebody's hands: a queue the glue pulls from, the
\* glue, the daemon, or a pod.  The exceptions are the ones "excuse" names.
NoStranded ==
    \A t \in Tasks :
        Due(t) =>
            \/ HeldByGlue(t) \/ HeldByDaemon(t) \/ Live(t) \/ LeftByPod(t)
            \/ excuse[t] # "none"

\* max_pods_limit is never exceeded, pods that ended included.
PodLimit == MaxPods > 0 => Cardinality(Used) <= MaxPods

DaemonStep == <<dpc, dt, todo>>' # <<dpc, dt, todo>>

\* The daemon deletes the pod of a task that runs, requeues the task or fails it
\* only if it saw the pod pending in this round and the pod took its task since:
\* the lag that the comment in _update_pending_task_msg speaks of.  A pod that
\* was running when the daemon last looked is left alone.
UndisturbedStep ==
    \A t \in Tasks :
        DaemonStep /\ pod[t] = "running" /\ status[t] = "in_progress"
            => \/ pod'[t] = pod[t] /\ status'[t] = status[t]
               \/ dt = t /\ started

RunsUndisturbed == [][UndisturbedStep]_vars

\* The daemon never disturbs a task that runs: refuted by that lag.
NeverDisturbed ==
    [][\A t \in Tasks :
         DaemonStep /\ pod[t] = "running" /\ status[t] = "in_progress"
            => pod'[t] = pod[t] /\ status'[t] = status[t]]_vars

\* Strict priority: as long as a task put back for want of quota waits at the
\* front of its queue, no other task is pulled from that queue or from one of
\* lower priority, if no request fails.
StrictPriority ==
    [][\A t \in Tasks :
         gpc = "next" /\ gt' = t /\ faults = 0
            => \A w \in waits : ~ (w[1] # t /\ w[2] <= gq /\ Contains(queue[w[2]], w[1]))]_vars

\* A task the user aborted while the glue was creating its pod is not put
\* back into its queue.
AbortSticks == \A t \in Tasks : wish[t] = "halt" => ~ Waits(t)

-----------------------------------------------------------------------------
(* Liveness.                                                               *)

Excused(t) == excuse[t] # "none"

\* It is started, or fails, or no user wants it to run any more.
Served(t) ==
    \/ status[t] \in {"in_progress", "failed", "completed"}
    \/ wish[t] # "run"

\* A task that waits in a queue is served, however often the glue takes it and
\* puts it back, or is excused, if no pod stays pending for ever.
Launched ==
    (\A t \in Tasks : []<>(pod[t] # "pending"))
        => \A t \in Tasks : Waits(t) ~> Served(t) \/ Excused(t)

\* A pod of no use, that is done or pending for an aborted task, goes away and
\* makes room, or is put to use again.
Useless(t) == pod[t] = "done" \/ (pod[t] = "pending" /\ status[t] = "stopped")
PodsGoAway == \A t \in Tasks : Useless(t) ~> ~ Useless(t)

=============================================================================
