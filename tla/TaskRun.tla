------------------------------ MODULE TaskRun ------------------------------
(***************************************************************************)
(* What the agents promise of the tasks in a queue, whatever goes wrong    *)
(* between them, the server, docker and the users: TaskLifecycle           *)
(* implements it.                                                          *)
(*                                                                         *)
(* An agent that takes a task runs its code at most once and then lets go  *)
(* of it; only an agent that has a task and whose run of it is not over    *)
(* puts it in progress, and an agent reports the end of a task in progress *)
(* only.  In docker mode the report may come before the container stops,   *)
(* and a container that could not be stopped goes on with its run after    *)
(* its agent let go; otherwise neither comes before the run is over.       *)
(***************************************************************************)
CONSTANTS
    Tasks,
    Agents,
    NoTask,         \* what an idle agent holds
    Docker          \* docker mode: what the agent watches is not the run

VARIABLES
    status,         \* of each task, on the server
    queue,          \* the tasks that wait
    held,           \* the task of each agent
    run,            \* [Agents -> Runs]: how far the agent's run of it is
    left            \* tasks and how far the runs of them are that were left

Runs == {"idle", "before", "code", "after"}

vars == <<status, queue, held, run, left>>

Init ==
    /\ status = [t \in Tasks |-> "created"]
    /\ queue = {}
    /\ held = [a \in Agents |-> NoTask]
    /\ run = [a \in Agents |-> "idle"]
    /\ left = {}

\* A deleted task never comes back.
SetStatus(t, s) ==
    /\ status[t] # "deleted"
    /\ status' = [status EXCEPT ![t] = s]

\* Users, and the server's own monitoring: none of them starts or completes it.
UserMoves(t) ==
    /\ \E s \in {"created", "queued", "stopped", "failed", "closed", "deleted"} :
         /\ SetStatus(t, s)
         /\ queue' \in IF s = "queued" THEN {queue \cup {t}} ELSE {queue, queue \ {t}}
    /\ UNCHANGED <<held, run, left>>

\* One agent takes an entry, or the answer of the server is lost with it.
Take(a) ==
    /\ run[a] = "idle"
    /\ \E t \in queue :
         /\ queue' = queue \ {t}
         /\ held' = [held EXCEPT ![a] = t]
    /\ run' = [run EXCEPT ![a] = "before"]
    /\ UNCHANGED <<status, left>>

Lose(t) ==
    /\ t \in queue
    /\ queue' = queue \ {t}
    /\ UNCHANGED <<status, held, run, left>>

\* Out of any status: the agent, or its child that also cleans the queue.
Starts(t) ==
    /\ SetStatus(t, "in_progress")
    /\ queue' \in {queue, queue \ {t}}

Begin(a) ==
    /\ run[a] = "before"
    /\ Starts(held[a])
    /\ UNCHANGED <<held, run, left>>

\* Only a deleted task is not in progress when its code starts.
StartsCode(t) ==
    /\ SetStatus(t, "in_progress") \/ (status[t] = "deleted" /\ UNCHANGED status)
    /\ UNCHANGED queue

RunCode(a) ==
    /\ run[a] = "before"
    /\ StartsCode(held[a])
    /\ run' = [run EXCEPT ![a] = "code"]
    /\ UNCHANGED <<held, left>>

\* The task's own code, of a task in progress.
EndsItself(t) ==
    /\ status[t] = "in_progress"
    /\ \E s \in {"completed", "failed"} : SetStatus(t, s)
    /\ UNCHANGED queue

ReportItself(a) ==
    /\ run[a] = "code"
    /\ EndsItself(held[a])
    /\ UNCHANGED <<held, run, left>>

\* A run fails before its code is reached.
FailsFirst(t) ==
    /\ status[t] = "in_progress"
    /\ SetStatus(t, "failed")
    /\ UNCHANGED queue

\* It ends, is killed, fails, or is never started.
EndRun(a) ==
    /\ run[a] \in {"before", "code"}
    /\ run' = [run EXCEPT ![a] = "after"]
    /\ \/ UNCHANGED <<status, queue>>
       \/ run[a] = "before" /\ FailsFirst(held[a])
    /\ UNCHANGED <<held, left>>

Report(a) ==
    /\ run[a] = "after" \/ (Docker /\ run[a] # "idle")
    /\ status[held[a]] = "in_progress"
    /\ \E s \in {"stopped", "completed", "failed"} : SetStatus(held[a], s)
    /\ UNCHANGED <<queue, held, run, left>>

\* In docker mode this stops the code too, or what is left of an earlier run,
\* or leaves the run to itself.
LetGo(a) ==
    /\ run[a] \in {"before", "after"} \/ (Docker /\ run[a] = "code")
    /\ held' = [held EXCEPT ![a] = NoTask]
    /\ run' = [run EXCEPT ![a] = "idle"]
    /\ \/ UNCHANGED <<status, left>>
       \/ run[a] = "before" /\ SetStatus(held[a], "failed") /\ UNCHANGED left
       \/ Docker /\ UNCHANGED status /\ left' = left \cup {<<held[a], run[a]>>}
       \/ /\ Docker /\ UNCHANGED status
          /\ \E r \in Runs : left' = left \ {<<held[a], r>>}
    /\ UNCHANGED queue

\* A run that was left is further, and perhaps another is where it was.
Further(t, from, to) ==
    /\ <<t, from>> \in left
    /\ left' \in {left \cup {<<t, to>>}, (left \ {<<t, from>>}) \cup {<<t, to>>}}

LeftGoesOn(t) ==
    /\ \/ <<t, "before">> \in left /\ Starts(t) /\ UNCHANGED left
       \/ Further(t, "before", "code") /\ StartsCode(t)
       \/ <<t, "code">> \in left /\ EndsItself(t) /\ UNCHANGED left
       \/ /\ Further(t, "before", "after")
          /\ FailsFirst(t) \/ UNCHANGED <<status, queue>>
       \/ \E r \in Runs : left' = left \ {<<t, r>>} /\ UNCHANGED <<status, queue>>
    /\ UNCHANGED <<held, run>>

Next ==
    \/ \E t \in Tasks : UserMoves(t) \/ Lose(t) \/ LeftGoesOn(t)
    \/ \E a \in Agents :
         \/ Take(a) \/ Begin(a) \/ RunCode(a) \/ ReportItself(a)
         \/ EndRun(a) \/ Report(a) \/ LetGo(a)

Spec == Init /\ [][Next]_vars
=============================================================================
