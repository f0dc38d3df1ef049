--------------------------- MODULE TaskLifecycle ---------------------------
(***************************************************************************)
(* The life of a task between the server, the daemon that pulls it, the    *)
(* agent process inside the container, and the users who abort, reset and  *)
(* re-enqueue it meanwhile (clearml_agent/commands/worker.py).             *)
(*                                                                         *)
(* An agent is one daemon: run_tasks_loop pulls a task, marks it started,  *)
(* run_one_task launches it (after an optional docker pull), and           *)
(* _log_command_output polls the child process and the TaskStopSignal in   *)
(* turn until one of them ends the run; handle_task_termination then tells *)
(* the server how it ended.  Every request is a separate step: the user,   *)
(* the child process and the other agents move between any two of them,    *)
(* and any request may fail.                                               *)
(*                                                                         *)
(* The child of a "run" is the inner agent of Worker.execute: it dequeues  *)
(* the task, marks it started twice (before and after it builds the        *)
(* environment), and then becomes the user's code.  In docker mode it runs *)
(* in a container, which `docker stop' ends at the end of the run.  When   *)
(* that fails nobody is told: the container goes on as a stray.            *)
(***************************************************************************)
EXTENDS Integers, FiniteSets

CONSTANTS
    Tasks,          \* the tasks known to the server
    Agents,         \* the daemons that listen to the queue
    NoTask,         \* what an idle agent holds
    ResetTests,     \* TaskStopSignal._number_of_consecutive_reset_tests
    Docker,         \* docker mode: the child runs in a container
    ForcePull,      \* agent.docker_force_pull: `docker pull' runs first
    Impersonate,    \* --use-owner-token: the owner's login may be refused
    MaxOps,         \* bound: user operations and interrupts in a behaviour
    MaxFaults       \* bound: failed requests and failed launches

ASSUME ConstantsAssumption ==
    /\ NoTask \notin Tasks
    /\ ResetTests \in Nat
    /\ Docker \in BOOLEAN
    /\ ForcePull \in BOOLEAN
    /\ ForcePull => Docker
    /\ Impersonate \in BOOLEAN
    /\ MaxOps \in Nat
    /\ MaxFaults \in Nat

Statuses == {"created", "queued", "in_progress", "stopped", "failed",
             "completed", "closed", "deleted"}
Reasons == {"no_stop", "stopped", "reset", "status_changed", "exception",
            "not_found"}
PCs == {"poll", "pulled", "owner", "launch", "popen", "test", "sleep", "kill",
        "closing", "user_abort", "terminate", "send_stopped", "cleanup"}
BeforeCode == {"boot", "updated", "dequeued", "build"}
InContainer == BeforeCode \cup {"code", "failing"}
Stages == InContainer \cup {"none", "pull", "exited"}
ExitCodes == {"none", "success", "interrupted", "sigkill", "failure"}
Excuses == {"request", "launch", "monitor", "override", "requeue", "container"}

\* TaskStopSignal.unexpected_statuses ("closed" stands for published too)
UnexpectedStatuses == {"closed", "stopped", "failed", "queued"}

VARIABLES
    \* the server
    status,     \* [Tasks -> Statuses]
    stopping,   \* [Tasks -> BOOLEAN]: "stopping" in status_message
    callback,   \* [Tasks -> {"none", "set", "completed"}]: runtime properties
                \* _abort_callback_timeout and _abort_callback_completed
    queue,      \* the tasks waiting in the queue
    \* the agents
    pc,         \* where each agent is
    held,       \* [Agents -> Tasks \cup {NoTask}]: the task it works on
    phase,      \* "pull" while `docker pull' runs, else "run"
    counter,    \* _task_reset_state_counter
    waiting,    \* _active_callback_timestamp: "no", "active", or "expired"
                \* once _active_callback_timeout has gone by
    reason,     \* stop_reason of _log_command_output
    result,     \* stop_signal_status of run_one_task
    code,       \* the exit status run_one_task hands on
    \* the child process of each agent
    proc,       \* [Agents -> Stages]
    exit,       \* the status it exited with
    strays,     \* the containers `docker stop' failed to stop
    \* bookkeeping of the model
    excuse,     \* [Tasks -> SUBSET Excuses]: what went wrong around a task
    ops,        \* user operations so far
    faults      \* failures so far

serverVars == <<status, stopping, callback, queue>>
signalVars == <<counter, waiting>>
childVars == <<proc, exit, strays>>
agentVars == <<pc, held, phase, counter, waiting, reason, result, code>>
vars == <<serverVars, agentVars, childVars, excuse, ops, faults>>

Holders(t) == {a \in Agents : held[a] = t}

\* A container by its machine (the agent's), its task and its stage; two that
\* agree in all three are one.
Containers == [host : Agents, task : Tasks, stage : InContainer]

Init ==
    /\ status = [t \in Tasks |-> "created"]
    /\ stopping = [t \in Tasks |-> FALSE]
    /\ callback = [t \in Tasks |-> "none"]
    /\ queue = {}
    /\ pc = [a \in Agents |-> "poll"]
    /\ held = [a \in Agents |-> NoTask]
    /\ phase = [a \in Agents |-> "run"]
    /\ counter = [a \in Agents |-> 0]
    /\ waiting = [a \in Agents |-> "no"]
    /\ reason = [a \in Agents |-> "no_stop"]
    /\ result = [a \in Agents |-> "no_stop"]
    /\ code = [a \in Agents |-> "none"]
    /\ proc = [a \in Agents |-> "none"]
    /\ exit = [a \in Agents |-> "none"]
    /\ strays = {}
    /\ excuse = [t \in Tasks |-> {}]
    /\ ops = 0
    /\ faults = 0

-----------------------------------------------------------------------------
(* The server, as the agent's requests rely on it.                         *)

\* A status change: the message is replaced along with the status.
SetStatus(t, s) ==
    /\ status' = [status EXCEPT ![t] = s]
    /\ stopping' = [stopping EXCEPT ![t] = FALSE]

\* A request without force=True only moves a task that is in progress; it
\* is refused, and the agent only logs that, in any other status.
Report(t, s) ==
    IF status[t] = "in_progress"
    THEN SetStatus(t, s)
    ELSE UNCHANGED <<status, stopping>>

\* StartedRequest(force=True) moves a task out of any status.
ForceStarted(t) ==
    IF status[t] = "deleted"
    THEN UNCHANGED <<status, stopping>>
    ELSE SetStatus(t, "in_progress")

Fault(t, kind) ==
    /\ faults < MaxFaults
    /\ faults' = faults + 1
    /\ excuse' = [excuse EXCEPT ![t] = @ \cup {kind}]

Goto(a, label) == pc' = [pc EXCEPT ![a] = label]

-----------------------------------------------------------------------------
(* Users, and the server's own monitoring, acting on tasks.                *)

UserOp ==
    /\ ops < MaxOps
    /\ ops' = ops + 1
    /\ UNCHANGED <<agentVars, childVars, faults>>

\* A new task is enqueued, or a stopped or reset one is enqueued again.
Enqueue(t) ==
    /\ status[t] \in {"created", "stopped"}
    /\ UserOp
    /\ SetStatus(t, "queued")
    /\ queue' = queue \cup {t}
    /\ excuse' = [excuse EXCEPT
                    ![t] = IF Holders(t) = {} THEN @ ELSE @ \cup {"requeue"}]
    /\ UNCHANGED callback

Dequeue(t) ==
    /\ status[t] = "queued"
    /\ UserOp
    /\ SetStatus(t, "created")
    /\ queue' = queue \ {t}
    /\ UNCHANGED <<callback, excuse>>

\* tasks.stop: the status stays, the message asks the worker to terminate.
Abort(t) ==
    /\ status[t] = "in_progress"
    /\ UserOp
    /\ stopping' = [stopping EXCEPT ![t] = TRUE]
    /\ UNCHANGED <<status, callback, queue, excuse>>

\* tasks.stop with force, mark failed, publish or close.
Decide(t) ==
    /\ UserOp
    /\ \E s \in {"stopped", "failed", "closed"} :
         /\ status[t] \in IF s = "closed" THEN {"stopped", "completed"}
                                          ELSE {"in_progress"}
         /\ SetStatus(t, s)
    /\ UNCHANGED <<callback, queue, excuse>>

Reset(t) ==
    /\ status[t] \notin {"created", "closed", "deleted"}
    /\ UserOp
    /\ SetStatus(t, "created")
    /\ queue' = queue \ {t}
    /\ \E c \in {callback[t], "none"} : callback' = [callback EXCEPT ![t] = c]
    /\ UNCHANGED excuse

Delete(t) ==
    /\ status[t] \notin {"queued", "deleted"}
    /\ UserOp
    /\ SetStatus(t, "deleted")
    /\ queue' = queue \ {t}
    /\ UNCHANGED <<callback, excuse>>

User == \E t \in Tasks : \/ Enqueue(t) \/ Dequeue(t) \/ Abort(t)
                         \/ Decide(t)  \/ Reset(t)   \/ Delete(t)

-----------------------------------------------------------------------------
(* run_tasks_loop: pulling a task.                                         *)

\* Mutant: the entry is only peeked at.
GetNextTaskMutant(a) ==
    /\ pc[a] = "poll"
    /\ \E t \in queue : held' = [held EXCEPT ![a] = t]
    /\ Goto(a, "pulled")
    /\ UNCHANGED <<serverVars, phase, counter, waiting, reason, result, code,
                   childVars, excuse, ops, faults>>

\* The queue entry is popped; the task's status is still "queued".
GetNextTask(a) ==
    /\ pc[a] = "poll"
    /\ \E t \in queue :
         /\ queue' = queue \ {t}
         /\ held' = [held EXCEPT ![a] = t]
    /\ Goto(a, "pulled")
    /\ UNCHANGED <<status, stopping, callback, phase, counter, waiting, reason,
                   result, code, childVars, excuse, ops, faults>>

\* The server popped the entry but the answer is lost: the daemon prints a
\* warning and tries the next queue.
LoseNextTask(a) ==
    /\ pc[a] = "poll"
    /\ \E t \in queue :
         /\ queue' = queue \ {t}
         /\ Fault(t, "request")
    /\ UNCHANGED <<status, stopping, callback, agentVars, childVars, ops>>

\* StartedRequest("pulled by agent", force=True); a failure is only printed.
MarkPulled(a) ==
    /\ pc[a] = "pulled"
    /\ \/ ForceStarted(held[a]) /\ UNCHANGED <<excuse, faults>>
       \/ Fault(held[a], "request") /\ UNCHANGED <<status, stopping>>
    /\ Goto(a, IF Impersonate THEN "owner" ELSE "launch")
    /\ UNCHANGED <<callback, queue, held, phase, counter, waiting, reason,
                   result, code, childVars, ops>>

\* get_task_session: the login as the task's owner succeeds ...
Login(a) ==
    /\ pc[a] = "owner"
    /\ Goto(a, "launch")
    /\ UNCHANGED <<serverVars, held, phase, counter, waiting, reason, result,
                   code, childVars, excuse, ops, faults>>

LoginRefusedMutant(a) ==  \* the task is only skipped
    /\ pc[a] = "owner"
    /\ Goto(a, "poll")
    /\ held' = [held EXCEPT ![a] = NoTask]
    /\ UNCHANGED <<serverVars, phase, counter, waiting, reason, result, code,
                   childVars, excuse, ops, faults>>

\* ... or is refused, and _fail_task_on_impersonation_failure fails the task ...
LoginRefused(a) ==
    LET t == held[a] IN
    /\ pc[a] = "owner"
    /\ \/ /\ IF status[t] = "deleted"
             THEN UNCHANGED <<status, stopping>>
             ELSE SetStatus(t, "failed")
          /\ UNCHANGED <<excuse, faults>>
       \/ Fault(t, "request") /\ UNCHANGED <<status, stopping>>
    /\ Goto(a, "poll")
    /\ held' = [held EXCEPT ![a] = NoTask]
    /\ UNCHANGED <<callback, queue, phase, counter, waiting, reason, result,
                   code, childVars, ops>>

\* ... or raises, which nothing catches: the daemon leaves run_tasks_loop and
\* enters it anew, and the task has been marked started.
LoginRaises(a) ==
    /\ pc[a] = "owner"
    /\ Fault(held[a], "request")
    /\ Goto(a, "poll")
    /\ held' = [held EXCEPT ![a] = NoTask]
    /\ UNCHANGED <<serverVars, phase, counter, waiting, reason, result, code,
                   childVars, ops>>

-----------------------------------------------------------------------------
(* run_one_task and _log_command_output.                                   *)

\* StartedRequest("launch by agent", force=True), then the docker command
\* and a fresh TaskStopSignal.
Launch(a) ==
    /\ pc[a] = "launch"
    /\ status[held[a]] # "deleted"
    /\ ForceStarted(held[a])
    /\ Goto(a, "popen")
    /\ phase' = [phase EXCEPT ![a] = IF ForcePull THEN "pull" ELSE "run"]
    /\ counter' = [counter EXCEPT ![a] = 0]
    /\ waiting' = [waiting EXCEPT ![a] = "no"]
    /\ result' = [result EXCEPT ![a] = "no_stop"]
    /\ code' = [code EXCEPT ![a] = "none"]
    /\ UNCHANGED <<callback, queue, held, reason, childVars, excuse, ops,
                   faults>>

\* That request fails, or the task is gone: the agent skips the task.
SkipTask(a) ==
    /\ pc[a] = "launch"
    /\ IF status[held[a]] = "deleted"
       THEN UNCHANGED <<excuse, faults>>
       ELSE Fault(held[a], "request")
    /\ Goto(a, "poll")
    /\ held' = [held EXCEPT ![a] = NoTask]
    /\ UNCHANGED <<serverVars, phase, counter, waiting, reason, result, code,
                   childVars, ops>>

\* Anything that raises before run_one_task's `try' (the docker command, the
\* name of the queue) leaves the loop as well.
LaunchRaises(a) ==
    /\ pc[a] = "popen"
    /\ phase[a] = "pull" <=> ForcePull
    /\ Fault(held[a], "launch")
    /\ Goto(a, "poll")
    /\ held' = [held EXCEPT ![a] = NoTask]
    /\ UNCHANGED <<serverVars, phase, counter, waiting, reason, result, code,
                   childVars, ops>>

\* Popen starts the child ...
Popen(a) ==
    /\ pc[a] = "popen"
    /\ proc' = [proc EXCEPT ![a] = IF phase[a] = "pull" THEN "pull" ELSE "boot"]
    /\ exit' = [exit EXCEPT ![a] = "none"]
    /\ reason' = [reason EXCEPT ![a] = "no_stop"]
    /\ code' = [code EXCEPT ![a] = "none"]
    /\ Goto(a, "test")
    /\ UNCHANGED <<serverVars, held, phase, counter, waiting, result, strays,
                   excuse, ops, faults>>

\* ... or raises, and the exception ends the monitor.
PopenFails(a) ==
    /\ pc[a] = "popen"
    /\ Fault(held[a], "launch")
    /\ reason' = [reason EXCEPT ![a] = "exception"]
    /\ code' = [code EXCEPT ![a] = "failure"]
    /\ Goto(a, "closing")
    /\ UNCHANGED <<serverVars, held, phase, counter, waiting, result,
                   childVars, ops>>

\* So does anything in the loop that raises once the child runs.
MonitorRaises(a) ==
    /\ pc[a] \in {"test", "sleep"}
    /\ Fault(held[a], "monitor")
    /\ reason' = [reason EXCEPT ![a] = "exception"]
    /\ code' = [code EXCEPT ![a] = "failure"]
    /\ Goto(a, "closing")
    /\ UNCHANGED <<serverVars, held, phase, counter, waiting, result,
                   childVars, ops>>

\* What TaskStopSignal._test makes of the task before it waits for callbacks.
Verdict(a) ==
    LET s == status[held[a]] IN
    CASE s = "deleted" -> "not_found"
      [] s = "in_progress" /\ stopping[held[a]] -> "stopped"
      [] s = "failed" -> "exception"
      [] s \in UnexpectedStatuses \ {"failed"} -> "status_changed"
      [] s = "created" /\ counter[a] >= ResetTests -> "reset"
      [] OTHER -> "no_stop"

\* Mutant: the timeout is not looked at.
AwaitsCallbackMutant(a) ==
    IF waiting[a] = "no" THEN callback[held[a]] = "set"
                         ELSE callback[held[a]] # "completed"

\* _wait_for_abort_callback is FALSE: an abort callback is registered, has
\* not completed, and its time is not over.
AwaitsCallback(a) ==
    CASE waiting[a] = "no"     -> callback[held[a]] = "set"
      [] waiting[a] = "active" -> callback[held[a]] # "completed"
      [] OTHER                 -> FALSE

\* The first test that wants to stop finds a registered callback and starts
\* the clock.
StartsWaiting(a) ==
    waiting' = [waiting EXCEPT
                  ![a] = IF @ = "no" /\ callback[held[a]] # "none"
                         THEN "active" ELSE @]

\* Mutant: every test that goes on starts the count again.
TestContinuesMutant(a) ==
    /\ pc[a] = "test"
    /\ Verdict(a) = "no_stop"
    /\ counter' = [counter EXCEPT ![a] = 0]
    /\ Goto(a, "sleep")
    /\ UNCHANGED <<serverVars, held, phase, waiting, reason, result, code,
                   childVars, excuse, ops, faults>>

\* One pass of the monitor loop: stop_signal.test().
TestContinues(a) ==
    /\ pc[a] = "test"
    /\ Verdict(a) = "no_stop"
    /\ counter' = [counter EXCEPT
                     ![a] = IF status[held[a]] = "created" THEN @ + 1 ELSE 0]
    /\ Goto(a, "sleep")
    /\ UNCHANGED <<serverVars, held, phase, waiting, reason, result, code,
                   childVars, excuse, ops, faults>>

TestWaits(a) ==
    /\ pc[a] = "test"
    /\ Verdict(a) \notin {"no_stop", "not_found"}
    /\ AwaitsCallback(a)
    /\ StartsWaiting(a)
    /\ Goto(a, "sleep")
    /\ UNCHANGED <<serverVars, held, phase, counter, reason, result, code,
                   childVars, excuse, ops, faults>>

TestStops(a) ==
    /\ pc[a] = "test"
    /\ Verdict(a) # "no_stop"
    /\ \/ Verdict(a) = "not_found" /\ UNCHANGED waiting
       \/ Verdict(a) # "not_found" /\ ~AwaitsCallback(a) /\ StartsWaiting(a)
    /\ reason' = [reason EXCEPT ![a] = Verdict(a)]
    /\ Goto(a, "kill")
    /\ UNCHANGED <<serverVars, held, phase, counter, result, code, childVars,
                   excuse, ops, faults>>

\* Mutant: a request that fails is a reason to stop.
TestFailsMutant(a) ==
    /\ pc[a] = "test"
    /\ Fault(held[a], "request")
    /\ reason' = [reason EXCEPT ![a] = "exception"]
    /\ Goto(a, "kill")
    /\ UNCHANGED <<serverVars, held, phase, counter, waiting, result, code,
                   childVars, ops>>

\* The status request fails: test() logs it and answers no_stop.  When the
\* request for the callback's properties fails instead, the agent sees no
\* callback and stops at once.
TestFails(a) ==
    /\ pc[a] = "test"
    /\ Fault(held[a], "request")
    /\ \/ Goto(a, "sleep") /\ UNCHANGED reason
       \/ /\ Verdict(a) \notin {"no_stop", "not_found"}
          /\ waiting[a] = "no"
          /\ reason' = [reason EXCEPT ![a] = Verdict(a)]
          /\ Goto(a, "kill")
    /\ UNCHANGED <<serverVars, held, phase, counter, waiting, result, code,
                   childVars, ops>>

\* kill_all_child_processes: in docker mode it kills the docker client, and
\* what runs in the container goes on until Cleanup stops the container.
KillChild(a) ==
    proc' = [proc EXCEPT
               ![a] = IF Docker /\ @ \in InContainer THEN @ ELSE "none"]

\* The test decided to stop.
Kill(a) ==
    /\ pc[a] = "kill"
    /\ KillChild(a)
    /\ Goto(a, "closing")
    /\ UNCHANGED <<serverVars, held, phase, counter, waiting, reason, result,
                   code, exit, strays, excuse, ops, faults>>

\* Mutant: `if status' instead of `is not None': exit status 0 is missed.
PollMutant(a) ==
    /\ pc[a] = "sleep"
    /\ IF proc[a] = "exited" /\ exit[a] # "success"
       THEN Goto(a, "closing") /\ code' = [code EXCEPT ![a] = exit[a]]
       ELSE Goto(a, "test") /\ UNCHANGED code
    /\ UNCHANGED <<serverVars, held, phase, counter, waiting, reason, result,
                   childVars, excuse, ops, faults>>

\* sleep(_polling_interval); process.poll()
Poll(a) ==
    /\ pc[a] = "sleep"
    /\ IF proc[a] = "exited"
       THEN Goto(a, "closing") /\ code' = [code EXCEPT ![a] = exit[a]]
       ELSE Goto(a, "test") /\ UNCHANGED code
    /\ UNCHANGED <<serverVars, held, phase, counter, waiting, reason, result,
                   childVars, excuse, ops, faults>>

\* Mutant: only a killed process is looked at.
AbortCalledMutant(a) == code[a] = "sigkill" /\ callback[held[a]] = "completed"

\* was_abort_function_called
AbortCalled(a) ==
    \/ waiting[a] # "no"
    \/ code[a] = "sigkill" /\ callback[held[a]] = "completed"

\* Mutant: a run that failed is tried again.
CloseMutant(a) ==
    /\ pc[a] = "closing"
    /\ result' = [result EXCEPT
                    ![a] = IF AbortCalled(a) THEN "stopped" ELSE reason[a]]
    /\ KillChild(a)
    /\ phase' = [phase EXCEPT ![a] = "run"]
    /\ Goto(a, IF phase[a] = "pull" \/ code[a] = "failure" THEN "popen" ELSE "terminate")
    /\ UNCHANGED <<serverVars, held, counter, waiting, reason, code, exit,
                   strays, excuse, ops, faults>>

\* The end of _log_command_output.  What it returns for the pull is replaced
\* by what it returns for the run.  The request for the callback's properties
\* after a SIGKILL may fail, and then there was no callback.
Close(a) ==
    /\ pc[a] = "closing"
    /\ \/ /\ result' = [result EXCEPT
                         ![a] = IF AbortCalled(a) THEN "stopped" ELSE reason[a]]
          /\ UNCHANGED <<excuse, faults>>
       \/ /\ waiting[a] = "no" /\ code[a] = "sigkill"
          /\ Fault(held[a], "request")
          /\ result' = [result EXCEPT ![a] = reason[a]]
    /\ KillChild(a)
    /\ phase' = [phase EXCEPT ![a] = "run"]
    /\ Goto(a, IF phase[a] = "pull" THEN "popen" ELSE "terminate")
    /\ UNCHANGED <<serverVars, held, counter, waiting, reason, code, exit,
                   strays, ops>>

\* KeyboardInterrupt in the monitor loop: the child is killed ...
Interrupt(a) ==
    /\ pc[a] \in {"test", "sleep"}
    /\ ops < MaxOps
    /\ ops' = ops + 1
    /\ KillChild(a)
    /\ code' = [code EXCEPT ![a] = "interrupted"]
    /\ Goto(a, "user_abort")
    /\ UNCHANGED <<serverVars, held, phase, counter, waiting, reason, result,
                   exit, strays, excuse, faults>>

\* Mutant: the task's status is left to handle_task_termination.
HandleUserAbortMutant(a) ==
    /\ pc[a] = "user_abort"
    /\ Goto(a, "terminate")
    /\ UNCHANGED <<serverVars, held, phase, counter, waiting, reason, result,
                   code, childVars, excuse, ops, faults>>

\* ... handle_user_abort stops the task if it is in progress, and the
\* `finally' of run_one_task goes on with the result so far.
HandleUserAbort(a) ==
    /\ pc[a] = "user_abort"
    /\ \/ Report(held[a], "stopped") /\ UNCHANGED <<excuse, faults>>
       \/ Fault(held[a], "request") /\ UNCHANGED <<status, stopping>>
    /\ Goto(a, "terminate")
    /\ UNCHANGED <<callback, queue, held, phase, counter, waiting, reason,
                   result, code, childVars, ops>>

-----------------------------------------------------------------------------
(* handle_task_termination.                                                *)

\* TaskStopReason.stopped: a task already marked failed stays failed.
CheckFailed(a) ==
    /\ pc[a] = "terminate"
    /\ result[a] = "stopped"
    /\ \/ /\ status[held[a]] \in {"failed", "deleted"}
          /\ Goto(a, "cleanup")
          /\ UNCHANGED <<excuse, faults>>
       \/ /\ status[held[a]] \notin {"failed", "deleted"}
          /\ Goto(a, "send_stopped")
          /\ UNCHANGED <<excuse, faults>>
       \/ Fault(held[a], "request") /\ Goto(a, "cleanup")
    /\ UNCHANGED <<serverVars, held, phase, counter, waiting, reason, result, code,
                   childVars, ops>>

\* StoppedRequest(force=False)
SendStopped(a) ==
    /\ pc[a] = "send_stopped"
    /\ \/ Report(held[a], "stopped") /\ UNCHANGED <<excuse, faults>>
       \/ Fault(held[a], "request") /\ UNCHANGED <<status, stopping>>
    /\ Goto(a, "cleanup")
    /\ UNCHANGED <<callback, queue, held, phase, counter, waiting, reason, result,
                   code, childVars, ops>>

\* The status handle_task_process_termination reports for an exit code.
Outcome(c) ==
    CASE c = "success"     -> "completed"
      [] c = "interrupted" -> "stopped"
      [] OTHER             -> "failed"

\* TaskStopReason.no_stop: the process ended by itself.
ReportExit(a) ==
    /\ pc[a] = "terminate"
    /\ result[a] = "no_stop"
    /\ \/ Report(held[a], Outcome(code[a])) /\ UNCHANGED <<excuse, faults>>
       \/ Fault(held[a], "request") /\ UNCHANGED <<status, stopping>>
    /\ Goto(a, "cleanup")
    /\ UNCHANGED <<callback, queue, held, phase, counter, waiting, reason, result,
                   code, childVars, ops>>

\* Every other reason is only logged.
LogReason(a) ==
    /\ pc[a] = "terminate"
    /\ result[a] \notin {"stopped", "no_stop"}
    /\ Goto(a, "cleanup")
    /\ UNCHANGED <<serverVars, held, phase, counter, waiting, reason, result,
                   code, childVars, excuse, ops, faults>>

\* The rest of run_one_task's `finally', once the task's status has been
\* reported: shutdown_docker_process stops the container that runs the task on
\* this machine, its own if it still runs, or else one left of an earlier run
\* (or, should that fail again, none).
\* Then the daemon polls again.
Cleanup(a) ==
    /\ pc[a] = "cleanup"
    /\ \/ UNCHANGED strays
       \/ /\ Docker /\ proc[a] \notin InContainer
          /\ \E c \in strays :
               /\ c.host = a /\ c.task = held[a]
               /\ strays' = strays \ {c}
    /\ proc' = [proc EXCEPT ![a] = "none"]
    /\ held' = [held EXCEPT ![a] = NoTask]
    /\ Goto(a, "poll")
    /\ UNCHANGED <<serverVars, phase, counter, waiting, reason, result, code,
                   exit, excuse, ops, faults>>

\* `docker ps' or `docker stop' fails, which is swallowed: the container goes
\* on, and the daemon polls again all the same.
StopFails(a) ==
    /\ pc[a] = "cleanup"
    /\ Docker /\ proc[a] \in InContainer
    /\ Fault(held[a], "container")
    /\ strays' = strays \cup {[host |-> a, task |-> held[a], stage |-> proc[a]]}
    /\ proc' = [proc EXCEPT ![a] = "none"]
    /\ held' = [held EXCEPT ![a] = NoTask]
    /\ Goto(a, "poll")
    /\ UNCHANGED <<serverVars, phase, counter, waiting, reason, result, code,
                   exit, ops>>

-----------------------------------------------------------------------------
(* The child process.                                                      *)

\* The agent still polls the child it watches.
Watching(a) == pc[a] \in {"test", "sleep"}

\* A child that nobody watches any more puts its task in progress.
Override(a) ==
    excuse' = IF Watching(a) THEN excuse
              ELSE [excuse EXCEPT ![held[a]] = @ \cup {"override"}]

\* tasks.started(force=True) by the child; when it fails, execute raises and
\* the inner agent exits.
ChildForcesStarted(a, next) ==
    \/ /\ ForceStarted(held[a])
       /\ Override(a)
       /\ proc' = [proc EXCEPT ![a] = next]
       /\ UNCHANGED <<exit, faults>>
    \/ /\ Fault(held[a], "request")
       /\ proc' = [proc EXCEPT ![a] = "exited"]
       /\ exit' = [exit EXCEPT ![a] = "failure"]
       /\ UNCHANGED <<status, stopping>>

\* The server's part of tasks.dequeue with new_status in_progress.
TakenOut(t) ==
    /\ status[t] = "queued" /\ t \in queue
    /\ SetStatus(t, "in_progress")
    /\ queue' = queue \ {t}

\* execute: tasks.dequeue, so that the task is not stuck in a queue; the
\* failure of this request is ignored, as is that of the next one.
ChildDequeue(a) ==
    LET t == held[a] IN
    /\ proc[a] = "boot"
    /\ \/ /\ TakenOut(t)
          /\ Override(a)
          /\ proc' = [proc EXCEPT ![a] = "updated"]
          /\ UNCHANGED faults
       \/ /\ \/ ~ (status[t] = "queued" /\ t \in queue) /\ UNCHANGED <<excuse, faults>>
             \/ Fault(t, "request")
          /\ proc' = [proc EXCEPT ![a] = "dequeued"]
          /\ UNCHANGED <<status, stopping, queue>>
    /\ UNCHANGED <<callback, agentVars, exit, strays, ops>>

\* execute: tasks.started(force=True) "starting execution soon", if it was
\* taken out of a queue
ChildStartsSoon(a) ==
    /\ proc[a] = "updated"
    /\ \/ ForceStarted(held[a]) /\ Override(a) /\ UNCHANGED faults
       \/ Fault(held[a], "request") /\ UNCHANGED <<status, stopping>>
    /\ proc' = [proc EXCEPT ![a] = "dequeued"]
    /\ UNCHANGED <<callback, queue, agentVars, exit, strays, ops>>

\* execute: tasks.started(force=True) "worker started execution"
ChildStarted(a) ==
    /\ proc[a] = "dequeued"
    /\ ChildForcesStarted(a, "build")
    /\ UNCHANGED <<callback, queue, agentVars, strays, ops>>

\* The repository or the environment cannot be had: the child fails its task
\* and is about to exit.
BuildFails(a) ==
    /\ proc[a] = "build"
    /\ Report(held[a], "failed")
    /\ proc' = [proc EXCEPT ![a] = "failing"]
    /\ UNCHANGED <<callback, queue, agentVars, exit, strays, excuse, ops, faults>>

\* execute: tasks.started(force=True) "worker starting task execution", once
\* the environment is built
ChildStartsCode(a) ==
    /\ proc[a] = "build"
    /\ ChildForcesStarted(a, "code")
    /\ UNCHANGED <<callback, queue, agentVars, strays, ops>>

\* The user's code registers an abort callback, reports that its callback has
\* run after it saw that the task is to stop, or marks its own task completed
\* or failed.
RegistersCallback(t) ==
    /\ callback[t] = "none"
    /\ callback' = [callback EXCEPT ![t] = "set"]
    /\ UNCHANGED <<status, stopping, queue>>

CompletesCallback(t) ==
    /\ callback[t] = "set"
    /\ status[t] # "in_progress" \/ stopping[t]
    /\ callback' = [callback EXCEPT ![t] = "completed"]
    /\ UNCHANGED <<status, stopping, queue>>

ReportsItself(t) ==
    /\ \E s \in {"completed", "failed"} : Report(t, s)
    /\ UNCHANGED <<callback, queue>>

Code(t) == RegistersCallback(t) \/ CompletesCallback(t) \/ ReportsItself(t)

ChildCode(a) ==
    /\ proc[a] = "code"
    /\ Code(held[a])
    /\ UNCHANGED <<agentVars, childVars, excuse, ops, faults>>

Exit(a) ==
    /\ proc[a] \in {"pull"} \cup InContainer
    /\ \E e \in ExitCodes \ {"none"} :
         /\ e = "success" => proc[a] \in {"pull", "code"}
         /\ exit' = [exit EXCEPT ![a] = e]
    /\ proc' = [proc EXCEPT ![a] = "exited"]
    /\ UNCHANGED <<serverVars, agentVars, strays, excuse, ops, faults>>

\* _active_callback_timeout goes by.
Expire(a) ==
    /\ waiting[a] = "active"
    /\ waiting' = [waiting EXCEPT ![a] = "expired"]
    /\ UNCHANGED <<serverVars, pc, held, phase, counter, reason, result, code,
                   childVars, excuse, ops, faults>>

-----------------------------------------------------------------------------
(* A container left running: the same steps, with no agent to watch it.    *)

Becomes(c, s) == strays' = (strays \ {c}) \cup {[c EXCEPT !.stage = s]}

StrayDequeues(c) ==
    /\ \/ c.stage = "boot" /\ TakenOut(c.task) /\ Becomes(c, "updated")
       \/ /\ c.stage \in {"boot", "updated"} /\ Becomes(c, "dequeued")
          /\ UNCHANGED <<status, stopping, queue>>
    /\ UNCHANGED <<callback, agentVars, proc, exit, excuse, ops, faults>>

StrayStarts(c) ==
    /\ \/ c.stage = "updated" /\ Becomes(c, "dequeued")
       \/ c.stage = "dequeued" /\ Becomes(c, "build")
       \/ c.stage = "build" /\ Becomes(c, "code")
    /\ ForceStarted(c.task)
    /\ UNCHANGED <<callback, queue, agentVars, proc, exit, excuse, ops, faults>>

StrayBuildFails(c) ==
    /\ c.stage = "build" /\ Becomes(c, "failing")
    /\ Report(c.task, "failed")
    /\ UNCHANGED <<callback, queue, agentVars, proc, exit, excuse, ops, faults>>

StrayCode(c) ==
    /\ c.stage = "code"
    /\ Code(c.task)
    /\ UNCHANGED <<agentVars, childVars, excuse, ops, faults>>

StrayEnds(c) ==
    /\ strays' = strays \ {c}
    /\ UNCHANGED <<serverVars, agentVars, proc, exit, excuse, ops, faults>>

Stray(c) ==
    \/ StrayDequeues(c) \/ StrayStarts(c) \/ StrayBuildFails(c)
    \/ StrayCode(c) \/ StrayEnds(c)

-----------------------------------------------------------------------------
Pull(a) == GetNextTask(a) \/ LoseNextTask(a)

Work(a) ==
    \/ MarkPulled(a) \/ Login(a) \/ LoginRefused(a) \/ LoginRaises(a)
    \/ Launch(a) \/ SkipTask(a) \/ LaunchRaises(a)
    \/ Popen(a) \/ PopenFails(a) \/ MonitorRaises(a)
    \/ TestContinues(a) \/ TestWaits(a) \/ TestStops(a) \/ TestFails(a)
    \/ Kill(a) \/ Poll(a) \/ Close(a) \/ HandleUserAbort(a)
    \/ CheckFailed(a) \/ SendStopped(a) \/ ReportExit(a) \/ LogReason(a)
    \/ Cleanup(a) \/ StopFails(a)

Child(a) ==
    \/ ChildDequeue(a) \/ ChildStartsSoon(a) \/ ChildStarted(a)
    \/ BuildFails(a) \/ ChildStartsCode(a) \/ ChildCode(a) \/ Exit(a)

Next ==
    \/ User
    \/ \E c \in strays : Stray(c)
    \/ \E a \in Agents :
         Pull(a) \/ Work(a) \/ Child(a) \/ Interrupt(a) \/ Expire(a)

Spec == Init /\ [][Next]_vars

\* The daemon's loops never block for ever on anything but a sleep, and time
\* passes.  Nothing is assumed of users, of requests, or of the user's code.
FairSpec ==
    /\ Spec
    /\ \A a \in Agents : WF_vars(Work(a)) /\ WF_vars(Expire(a))

-----------------------------------------------------------------------------
ServerTypeOK ==
    /\ status \in [Tasks -> Statuses]
    /\ stopping \in [Tasks -> BOOLEAN]
    /\ callback \in [Tasks -> {"none", "set", "completed"}]
    /\ queue \in SUBSET Tasks

AgentTypeOK ==
    /\ pc \in [Agents -> PCs]
    /\ held \in [Agents -> Tasks \cup {NoTask}]
    /\ \A a \in Agents : held[a] = NoTask <=> pc[a] = "poll"
    /\ phase \in [Agents -> {"pull", "run"}]
    /\ counter \in [Agents -> 0..ResetTests]
    /\ waiting \in [Agents -> {"no", "active", "expired"}]
    /\ reason \in [Agents -> Reasons]
    /\ \A a \in Agents : pc[a] \in {"test", "sleep"} => reason[a] = "no_stop"
    /\ result \in [Agents -> Reasons]
    /\ code \in [Agents -> ExitCodes]

ChildTypeOK ==
    /\ proc \in [Agents -> Stages]
    /\ exit \in [Agents -> ExitCodes]
    /\ \A a \in Agents :
         /\ pc[a] \in {"poll", "pulled", "owner", "launch", "popen"} =>
              proc[a] = "none"
         /\ phase[a] = "pull" /\ pc[a] \in {"test", "sleep", "kill", "closing"} =>
              proc[a] \in {"none", "pull", "exited"}
    /\ strays \in SUBSET Containers

CountersTypeOK ==
    /\ excuse \in [Tasks -> SUBSET Excuses]
    /\ ops \in 0..MaxOps
    /\ faults \in 0..MaxFaults

StraysExcused == \A c \in strays : "container" \in excuse[c.task]

\* Every variable has its type; an agent holds a task exactly while it does
\* not poll, a monitor loop that goes on has no reason to stop, no child of an
\* earlier task is left when an agent launches one, no container runs under
\* `docker pull', the reset counter stops at
\* _number_of_consecutive_reset_tests, and only containers that could not be
\* stopped are strays.
TypeOK ==
    ServerTypeOK /\ AgentTypeOK /\ ChildTypeOK /\ CountersTypeOK /\ StraysExcused

-----------------------------------------------------------------------------
(* Safety.                                                                 *)

\* A task is worked on by one agent, and not while it waits in the queue,
\* unless a user enqueued it again under an agent that still held it.
SoleHolder ==
    \A t \in Tasks : "requeue" \notin excuse[t] =>
        /\ t \in queue => Holders(t) = {}
        /\ \A a, b \in Holders(t) : a = b

\* No task is left "queued" outside the queue, or "in_progress" with no agent
\* behind it, when every request was answered, the child could be started,
\* watched and stopped, the task was not enqueued again under its agent, and
\* the child did not put it in progress after its agent had given up on it.
NoStrandedTask ==
    \A t \in Tasks : excuse[t] = {} /\ Holders(t) = {} =>
        /\ status[t] # "in_progress"
        /\ status[t] = "queued" => t \in queue

\* The reasons for which handle_task_termination sends no request.
Silent == {"reset", "status_changed", "exception", "not_found"}

\* The agent will not touch its task's status any more.
GivenUp(a) ==
    \/ pc[a] \in {"kill", "closing"} /\ reason[a] \in Silent
    \/ pc[a] = "terminate" /\ result[a] \in Silent
    \/ pc[a] = "cleanup"

\* An agent that ends a run without reporting, or has reported, leaves a task
\* that is not in progress; and from the pull on its task is not queued.
\* (With the excuses of NoStrandedTask, which follows from it.)
GivesUpRightly ==
    \A a \in Agents :
        held[a] # NoTask /\ excuse[held[a]] = {} =>
            /\ pc[a] # "pulled" => status[held[a]] # "queued"
            /\ GivenUp(a) => status[held[a]] # "in_progress"

\* Between the test that decides to stop and the kill, nothing but such a
\* re-enqueue, the child itself or a container of an earlier run makes the
\* decision wrong: the child killed is never one whose task is in progress
\* with no abort asked for.
KillStillWanted ==
    \A a \in Agents : pc[a] = "kill" =>
        LET t == held[a] IN
        \/ excuse[t] \cap {"override", "requeue", "container"} # {}
        \/ status[t] # "in_progress"
        \/ stopping[t]

\* "make sure that if the abort function was called, the task is marked as
\* aborted": once the agent has begun to wait for an abort callback, however
\* the process then ends, the agent reports "stopped" or nothing.
AbortStep ==
    \A a \in Agents :
        /\ pc[a] \in {"user_abort", "terminate", "send_stopped"}
        /\ pc'[a] # pc[a]
        /\ waiting[a] # "no"
        => status'[held[a]] \in {status[held[a]], "stopped"}

AbortIsStopped == [][AbortStep]_vars

-----------------------------------------------------------------------------
(* Liveness.                                                               *)

\* The user's code runs, under an agent or in a container left behind.
CodeRuns(t) ==
    \/ \E a \in Holders(t) : proc[a] = "code"
    \/ \E c \in strays : c.task = t /\ c.stage = "code"

StopAsked(t) ==
    \/ status[t] = "in_progress" /\ stopping[t]
    \/ status[t] \in {"stopped", "failed", "closed", "deleted"}

\* Once the user's code runs, an abort, a stop, a failure mark or a deletion
\* ends it, however long its abort callback takes; only a user who makes the
\* task anything else meanwhile calls that off.  This rests on `docker stop':
\* when that fails the code is let run, and nothing else will end it.
StopIsHonoured ==
    \A t \in Tasks :
        (CodeRuns(t) /\ StopAsked(t))
            ~> (~ CodeRuns(t) \/ ~ StopAsked(t) \/ "container" \in excuse[t])

\* A task that stays reset is killed although each test may be a transient
\* (unless, again, its container cannot be stopped).
ResetIsHonoured ==
    \A t \in Tasks :
        (CodeRuns(t) /\ status[t] = "created")
            ~> (~ CodeRuns(t) \/ status[t] # "created" \/ "container" \in excuse[t])

\* A process that ended is noticed, reported, and its agent polls again.
ExitIsHandled ==
    \A a \in Agents : (proc[a] = "exited" /\ phase[a] = "run") ~> pc[a] = "poll"

-----------------------------------------------------------------------------
(* What it implements.                                                     *)

\* The agent still means to run the task it holds.  The `docker pull' that
\* comes first is no run.
Preparing(a) ==
    \/ pc[a] \in {"pulled", "owner", "launch", "popen"}
    \/ phase[a] = "pull" /\ pc[a] \in {"test", "sleep", "kill", "closing"}
    \/ proc[a] \in BeforeCode

\* How far it is with that.
RunOf(a) ==
    IF held[a] = NoTask THEN "idle"
    ELSE IF proc[a] = "code" THEN "code"
    ELSE IF Preparing(a) THEN "before" ELSE "after"

\* And how far a container is that was left behind.
LeftAt(s) == IF s = "code" THEN "code" ELSE IF s \in BeforeCode THEN "before" ELSE "after"
Left == {<<c.task, LeftAt(c.stage)>> : c \in strays}

TR == INSTANCE TaskRun WITH run <- [a \in Agents |-> RunOf(a)], left <- Left

\* Whatever fails and whoever interferes, the agents keep to TaskRun: each
\* task taken from the queue is run at most once by the agent that took it,
\* and only that agent, before its run is over, or a container it could not
\* stop, before the run of that is over, starts it.
ImplementsTaskRun == TR!Spec

-----------------------------------------------------------------------------
(* What the documentation says and the code does not do.                   *)

\* README.md: "in the unfortunate case of a code crash, catch the error and
\* signal the experiment has failed".  A launch that raised is not left
\* in progress.
CrashIsSignalled ==
    \A t \in Tasks : excuse[t] = {"launch"} /\ Holders(t) = {} =>
        status[t] # "in_progress"

\* README.md: "allow you to manually abort the job using the ClearML UI".
AbortEndsTask ==
    \A t \in Tasks : stopping[t] ~> status[t] # "in_progress"
=============================================================================
