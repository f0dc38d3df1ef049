--------------------------- MODULE TaskRunProofs ---------------------------
(* TaskLifecycle implements TaskRun, and stops a task only as its users    *)
(* want it, for any number of agents and tasks.                            *)
EXTENDS TaskLifecycleProofs

-----------------------------------------------------------------------------
(* The invariant: what is left of a child where.                           *)

\* Out of a container nothing is left when the agent reports.
ChildFits(a) ==
    ~ Docker /\ pc[a] \in {"user_abort", "terminate", "send_stopped", "cleanup"} =>
        proc[a] = "none"

Fits == \A a \in Agents : ChildFits(a)

Agent(a) == Pull(a) \/ Work(a) \/ Child(a) \/ Interrupt(a) \/ Expire(a)

\* What an agent's step leaves alone.
Frame(a) ==
    \A b \in Agents \ {a} :
        /\ held'[b] = held[b] /\ pc'[b] = pc[b]
        /\ proc'[b] = proc[b] /\ phase'[b] = phase[b]

LEMMA AgentFrame ==
  ASSUME TypeOK, NEW a \in Agents, Agent(a)
  PROVE  Frame(a)
  <1> USE DEF Frame, TypeOK, AgentTypeOK, ChildTypeOK, Goto, KillChild,
              ChildForcesStarted, agentVars, childVars
  <1>1. CASE GetNextTask(a) BY <1>1 DEF GetNextTask
  <1>2. CASE LoseNextTask(a) BY <1>2 DEF LoseNextTask
  <1>3. CASE MarkPulled(a) BY <1>3 DEF MarkPulled
  <1>4. CASE Login(a) BY <1>4 DEF Login
  <1>5. CASE LoginRefused(a) BY <1>5 DEF LoginRefused
  <1>6. CASE LoginRaises(a) BY <1>6 DEF LoginRaises
  <1>7. CASE Launch(a) BY <1>7 DEF Launch
  <1>8. CASE SkipTask(a) BY <1>8 DEF SkipTask
  <1>9. CASE LaunchRaises(a) BY <1>9 DEF LaunchRaises
  <1>10. CASE Popen(a) BY <1>10 DEF Popen
  <1>11. CASE PopenFails(a) BY <1>11 DEF PopenFails
  <1>12. CASE MonitorRaises(a) BY <1>12 DEF MonitorRaises
  <1>13. CASE TestContinues(a) BY <1>13 DEF TestContinues
  <1>14. CASE TestWaits(a) BY <1>14 DEF TestWaits
  <1>15. CASE TestStops(a) BY <1>15 DEF TestStops
  <1>16. CASE TestFails(a) BY <1>16 DEF TestFails
  <1>17. CASE Kill(a) BY <1>17 DEF Kill
  <1>18. CASE Poll(a) BY <1>18 DEF Poll
  <1>19. CASE Close(a) BY <1>19 DEF Close
  <1>20. CASE HandleUserAbort(a) BY <1>20 DEF HandleUserAbort
  <1>21. CASE CheckFailed(a) BY <1>21 DEF CheckFailed
  <1>22. CASE SendStopped(a) BY <1>22 DEF SendStopped
  <1>23. CASE ReportExit(a) BY <1>23 DEF ReportExit
  <1>24. CASE LogReason(a) BY <1>24 DEF LogReason
  <1>25. CASE Cleanup(a) BY <1>25 DEF Cleanup
  <1>26. CASE StopFails(a) BY <1>26 DEF StopFails
  <1>27. CASE ChildDequeue(a) BY <1>27 DEF ChildDequeue, TakenOut
  <1>28. CASE ChildStartsSoon(a) BY <1>28 DEF ChildStartsSoon
  <1>29. CASE ChildStarted(a) BY <1>29 DEF ChildStarted
  <1>30. CASE BuildFails(a) BY <1>30 DEF BuildFails
  <1>31. CASE ChildStartsCode(a) BY <1>31 DEF ChildStartsCode
  <1>32. CASE ChildCode(a)
    BY <1>32 DEF ChildCode, Code, RegistersCallback, CompletesCallback,
       ReportsItself
  <1>33. CASE Exit(a) BY <1>33 DEF Exit
  <1>34. CASE Interrupt(a) BY <1>34 DEF Interrupt
  <1>35. CASE Expire(a) BY <1>35 DEF Expire
  <1> QED BY <1>1, <1>2, <1>3, <1>4, <1>5, <1>6, <1>7, <1>8, <1>9, <1>10,
             <1>11, <1>12, <1>13, <1>14, <1>15, <1>16, <1>17, <1>18, <1>19,
             <1>20, <1>21, <1>22, <1>23, <1>24, <1>25, <1>26, <1>27, <1>28,
             <1>29, <1>30, <1>31, <1>32, <1>33, <1>34, <1>35
          DEF Agent, Pull, Work, Child

LEMMA OwnFits ==
  ASSUME TypeOK, NEW a \in Agents, ChildFits(a), Agent(a)
  PROVE  ChildFits(a)'
  <1> USE DEF ChildFits, TypeOK, AgentTypeOK, ChildTypeOK, Goto, KillChild,
              InContainer, BeforeCode, Stages, ChildForcesStarted, agentVars,
              childVars
  <1>1. CASE GetNextTask(a) BY <1>1 DEF GetNextTask
  <1>2. CASE LoseNextTask(a) BY <1>2 DEF LoseNextTask
  <1>3. CASE MarkPulled(a) BY <1>3 DEF MarkPulled
  <1>4. CASE Login(a) BY <1>4 DEF Login
  <1>5. CASE LoginRefused(a) BY <1>5 DEF LoginRefused
  <1>6. CASE LoginRaises(a) BY <1>6 DEF LoginRaises
  <1>7. CASE Launch(a) BY <1>7 DEF Launch
  <1>8. CASE SkipTask(a) BY <1>8 DEF SkipTask
  <1>9. CASE LaunchRaises(a) BY <1>9 DEF LaunchRaises
  <1>10. CASE Popen(a) BY <1>10 DEF Popen
  <1>11. CASE PopenFails(a) BY <1>11 DEF PopenFails
  <1>12. CASE MonitorRaises(a) BY <1>12 DEF MonitorRaises
  <1>13. CASE TestContinues(a) BY <1>13 DEF TestContinues
  <1>14. CASE TestWaits(a) BY <1>14 DEF TestWaits
  <1>15. CASE TestStops(a) BY <1>15 DEF TestStops
  <1>16. CASE TestFails(a) BY <1>16 DEF TestFails
  <1>17. CASE Kill(a) BY <1>17 DEF Kill
  <1>18. CASE Poll(a) BY <1>18 DEF Poll
  <1>19. CASE Close(a) BY <1>19 DEF Close
  <1>20. CASE HandleUserAbort(a) BY <1>20 DEF HandleUserAbort
  <1>21. CASE CheckFailed(a) BY <1>21 DEF CheckFailed
  <1>22. CASE SendStopped(a) BY <1>22 DEF SendStopped
  <1>23. CASE ReportExit(a) BY <1>23 DEF ReportExit
  <1>24. CASE LogReason(a) BY <1>24 DEF LogReason
  <1>25. CASE Cleanup(a) BY <1>25 DEF Cleanup
  <1>26. CASE StopFails(a) BY <1>26 DEF StopFails
  <1>27. CASE ChildDequeue(a) BY <1>27 DEF ChildDequeue, TakenOut
  <1>28. CASE ChildStartsSoon(a) BY <1>28 DEF ChildStartsSoon
  <1>29. CASE ChildStarted(a) BY <1>29 DEF ChildStarted
  <1>30. CASE BuildFails(a) BY <1>30 DEF BuildFails
  <1>31. CASE ChildStartsCode(a) BY <1>31 DEF ChildStartsCode
  <1>32. CASE ChildCode(a)
    BY <1>32 DEF ChildCode, Code, RegistersCallback, CompletesCallback,
       ReportsItself
  <1>33. CASE Exit(a) BY <1>33 DEF Exit
  <1>34. CASE Interrupt(a) BY <1>34 DEF Interrupt
  <1>35. CASE Expire(a) BY <1>35 DEF Expire
  <1> QED BY <1>1, <1>2, <1>3, <1>4, <1>5, <1>6, <1>7, <1>8, <1>9, <1>10,
             <1>11, <1>12, <1>13, <1>14, <1>15, <1>16, <1>17, <1>18, <1>19,
             <1>20, <1>21, <1>22, <1>23, <1>24, <1>25, <1>26, <1>27, <1>28,
             <1>29, <1>30, <1>31, <1>32, <1>33, <1>34, <1>35
          DEF Agent, Pull, Work, Child

\* A container left behind moves no agent.
LEMMA StrayFrame ==
  ASSUME NEW c, Stray(c)
  PROVE  UNCHANGED <<agentVars, proc>>
  BY DEF Stray, StrayDequeues, StrayStarts, StrayBuildFails, StrayCode,
         StrayEnds, childVars

LEMMA FitsStep == TypeOK /\ Fits /\ [Next]_vars => Fits'
  <1> SUFFICES ASSUME TypeOK, Fits, [Next]_vars PROVE Fits'
    OBVIOUS
  <1>1. CASE User
    <2>1. UNCHANGED <<agentVars, childVars>>
      BY <1>1 DEF User, Enqueue, Dequeue, Abort, Decide, Reset, Delete, UserOp
    <2> QED BY <2>1 DEF Fits, ChildFits, agentVars, childVars
  <1>2. ASSUME NEW a \in Agents, Agent(a) PROVE Fits'
    <2>1. ChildFits(a)'
      BY <1>2, OwnFits DEF Fits
    <2>2. ASSUME NEW b \in Agents \ {a} PROVE ChildFits(b)'
      BY <1>2, AgentFrame DEF Frame, Fits, ChildFits
    <2> QED BY <2>1, <2>2 DEF Fits
  <1>3. ASSUME NEW c \in strays, Stray(c) PROVE Fits'
    BY <1>3, StrayFrame DEF Fits, ChildFits, agentVars
  <1>4. CASE UNCHANGED vars
    BY <1>4 DEF vars, Fits, ChildFits, agentVars, childVars
  <1> QED BY <1>1, <1>2, <1>3, <1>4 DEF Next, Agent

-----------------------------------------------------------------------------
(* The steps of TaskRun.                                                   *)

LEMMA RunMoves ==
  ASSUME NEW a \in Agents, Frame(a), NEW v, RunOf(a)' = v
  PROVE  [b \in Agents |-> RunOf(b)]' = [[b \in Agents |-> RunOf(b)] EXCEPT ![a] = v]
  <1>1. ASSUME NEW b \in Agents \ {a} PROVE RunOf(b)' = RunOf(b)
    BY DEF Frame, RunOf, Preparing
  <1> QED BY <1>1

LEMMA RunStays ==
  ASSUME NEW a \in Agents, Frame(a), RunOf(a)' = RunOf(a)
  PROVE  [b \in Agents |-> RunOf(b)]' = [b \in Agents |-> RunOf(b)]
  <1>1. ASSUME NEW b \in Agents PROVE RunOf(b)' = RunOf(b)
    BY DEF Frame, RunOf, Preparing
  <1> QED BY <1>1

Refined == [TR!Next]_(TR!vars)

\* Nothing is seen of the step, or the run is over with it.
LEMMA Quiet ==
  ASSUME NEW a \in Agents, Frame(a), UNCHANGED <<status, queue, held, strays>>,
         \/ RunOf(a)' = RunOf(a)
         \/ RunOf(a) \in {"before", "code"} /\ RunOf(a)' = "after"
  PROVE  Refined
  <1>1. CASE RunOf(a)' = RunOf(a)
    BY <1>1, RunStays DEF Refined, TR!vars, Left
  <1>2. CASE RunOf(a) \in {"before", "code"} /\ RunOf(a)' = "after"
    <2>1. [b \in Agents |-> RunOf(b)]' = [[b \in Agents |-> RunOf(b)] EXCEPT ![a] = "after"]
      BY <1>2, RunMoves
    <2>2. TR!EndRun(a)
      BY <1>2, <2>1 DEF TR!EndRun, Left
    <2> QED BY <2>2 DEF Refined, TR!Next
  <1> QED BY <1>1, <1>2

\* The task is put in progress, before or with the start of its code.
LEMMA Begins ==
  ASSUME NEW a \in Agents, Frame(a), UNCHANGED <<held, strays>>, held[a] \in Tasks,
         RunOf(a) = "before", RunOf(a)' = "before",
         status[held[a]] # "deleted",
         status' = [status EXCEPT ![held[a]] = "in_progress"],
         queue' \in {queue, queue \ {held[a]}}
  PROVE  Refined
  <1>1. TR!Begin(a)
    BY RunStays DEF TR!Begin, TR!Starts, TR!SetStatus, Left
  <1> QED BY <1>1 DEF Refined, TR!Next

LEMMA RunsCode ==
  ASSUME NEW a \in Agents, Frame(a), UNCHANGED <<queue, held, strays>>, held[a] \in Tasks,
         RunOf(a) = "before", RunOf(a)' = "code",
         IF status[held[a]] = "deleted"
         THEN UNCHANGED status
         ELSE status' = [status EXCEPT ![held[a]] = "in_progress"]
  PROVE  Refined
  <1>1. [b \in Agents |-> RunOf(b)]' = [[b \in Agents |-> RunOf(b)] EXCEPT ![a] = "code"]
    BY RunMoves
  <1>2. TR!RunCode(a)
    BY <1>1 DEF TR!RunCode, TR!StartsCode, TR!SetStatus, Left
  <1> QED BY <1>2 DEF Refined, TR!Next

LEMMA FailsBefore ==
  ASSUME NEW a \in Agents, Frame(a), UNCHANGED <<queue, held, strays>>, held[a] \in Tasks,
         RunOf(a) = "before", RunOf(a)' = "after", Report(held[a], "failed")
  PROVE  Refined
  <1>1. CASE status[held[a]] = "in_progress"
    <2>1. [b \in Agents |-> RunOf(b)]' = [[b \in Agents |-> RunOf(b)] EXCEPT ![a] = "after"]
      BY RunMoves
    <2>2. status' = [status EXCEPT ![held[a]] = "failed"]
      BY <1>1 DEF Report, SetStatus
    <2>3. TR!EndRun(a)
      BY <1>1, <2>1, <2>2 DEF TR!EndRun, TR!FailsFirst, TR!SetStatus, Left
    <2> QED BY <2>3 DEF Refined, TR!Next
  <1>2. CASE status[held[a]] # "in_progress"
    BY <1>2, Quiet DEF Report
  <1> QED BY <1>1, <1>2

LEMMA Reports ==
  ASSUME NEW a \in Agents, Frame(a), UNCHANGED <<queue, held, strays>>, held[a] \in Tasks,
         RunOf(a)' = RunOf(a), NEW s \in {"stopped", "completed", "failed"},
         \/ RunOf(a) = "after" \/ (Docker /\ RunOf(a) # "idle")
         \/ RunOf(a) = "code" /\ s # "stopped",
         Report(held[a], s)
  PROVE  Refined
  <1>1. CASE status[held[a]] = "in_progress"
    <2>1. status' = [status EXCEPT ![held[a]] = s]
      BY <1>1 DEF Report, SetStatus
    <2>2. [b \in Agents |-> RunOf(b)]' = [b \in Agents |-> RunOf(b)]
      BY RunStays
    <2>3. TR!Report(a) \/ TR!ReportItself(a)
      BY <1>1, <2>1, <2>2 DEF TR!Report, TR!ReportItself, TR!EndsItself,
         TR!SetStatus, Left
    <2> QED BY <2>3 DEF Refined, TR!Next
  <1>2. CASE status[held[a]] # "in_progress"
    BY <1>2, Quiet DEF Report
  <1> QED BY <1>1, <1>2

LEMMA LetsGo ==
  ASSUME NEW a \in Agents, Frame(a), UNCHANGED queue,
         RunOf(a) \in {"before", "after"} \/ (Docker /\ RunOf(a) = "code"),
         RunOf(a)' = "idle", held' = [held EXCEPT ![a] = NoTask],
         \/ UNCHANGED <<status, strays>>
         \/ /\ RunOf(a) = "before" /\ UNCHANGED strays
            /\ status[held[a]] # "deleted"
            /\ status' = [status EXCEPT ![held[a]] = "failed"]
         \/ /\ Docker /\ UNCHANGED status
            /\ Left' \in {Left, Left \cup {<<held[a], RunOf(a)>>}}
                           \cup {Left \ {<<held[a], r>>} : r \in TR!Runs}
  PROVE  Refined
  <1>1. [b \in Agents |-> RunOf(b)]' = [[b \in Agents |-> RunOf(b)] EXCEPT ![a] = "idle"]
    BY RunMoves
  <1>2. UNCHANGED strays => Left' = Left
    BY DEF Left
  <1>3. TR!LetGo(a)
    BY <1>1, <1>2 DEF TR!LetGo, TR!SetStatus
  <1> QED BY <1>3 DEF Refined, TR!Next

\* One container less, or further.
LEMMA LeftWithout ==
  ASSUME NEW c \in strays
  PROVE  {<<d.task, LeftAt(d.stage)>> : d \in strays \ {c}}
           \in {Left, Left \ {<<c.task, LeftAt(c.stage)>>}}
  <1> DEFINE Of(d) == <<d.task, LeftAt(d.stage)>>
             rest == {Of(d) : d \in strays \ {c}}
  <1>1. Left = rest \cup {Of(c)}
    BY DEF Left
  <1> HIDE DEF Of, rest
  <1>2. rest \in {Left, Left \ {Of(c)}}
    BY <1>1
  <1> QED BY <1>2 DEF Of, rest

LEMMA LeftWith ==
  ASSUME NEW c, strays' = strays \cup {c}
  PROVE  Left' = Left \cup {<<c.task, LeftAt(c.stage)>>}
  BY DEF Left

LEMMA LeftBecomes ==
  ASSUME TypeOK, NEW c \in strays, NEW s, Becomes(c, s)
  PROVE  LET p == <<c.task, LeftAt(c.stage)>>
             q == <<c.task, LeftAt(s)>>
         IN  Left' \in {Left \cup {q}, (Left \ {p}) \cup {q}}
  <1> DEFINE Of(d) == <<d.task, LeftAt(d.stage)>>
             rest == {Of(d) : d \in strays \ {c}}
             e == [c EXCEPT !.stage = s]
  <1>1. e.task = c.task /\ e.stage = s
    BY DEF TypeOK, ChildTypeOK, Containers
  <1>2. Left' = rest \cup {Of(e)}
    BY DEF Left, Becomes
  <1>3. Of(e) = <<c.task, LeftAt(s)>>
    BY <1>1
  <1>4. rest \in {Left, Left \ {Of(c)}}
    BY LeftWithout
  <1> HIDE DEF rest
  <1> QED BY <1>2, <1>3, <1>4

-----------------------------------------------------------------------------
(* The steps of TaskLifecycle.                                             *)

\* Most of an agent's steps are about the run alone.
QuietStep(a) ==
    \/ Login(a) \/ Popen(a) \/ PopenFails(a) \/ MonitorRaises(a) \/ TestContinues(a)
    \/ TestWaits(a) \/ TestStops(a) \/ TestFails(a) \/ Kill(a)
    \/ Poll(a) \/ Close(a) \/ CheckFailed(a) \/ LogReason(a)
    \/ Exit(a) \/ Interrupt(a) \/ Expire(a)

LEMMA QuietRefines ==
  ASSUME TypeOK, NEW a \in Agents, ChildFits(a), QuietStep(a), Frame(a)
  PROVE  Refined
  <1>1. UNCHANGED <<status, queue, held, strays>>
    BY DEF QuietStep, Login, Popen, PopenFails, MonitorRaises, TestContinues,
           TestWaits, TestStops, TestFails, Kill, Poll, Close, CheckFailed,
           LogReason, Exit, Interrupt, Expire, serverVars, agentVars, childVars
  <1>2. \/ RunOf(a)' = RunOf(a)
        \/ RunOf(a) \in {"before", "code"} /\ RunOf(a)' = "after"
    <2> USE DEF RunOf, Preparing, ChildFits, TypeOK, AgentTypeOK, ChildTypeOK,
                Goto, KillChild, InContainer, BeforeCode, Stages, PCs,
                agentVars, childVars
    <2>1. CASE Login(a) BY <2>1 DEF Login
    <2>2. CASE Popen(a) BY <2>2 DEF Popen
    <2>3. CASE PopenFails(a) BY <2>3 DEF PopenFails
    <2>4. CASE TestContinues(a) BY <2>4 DEF TestContinues
    <2>5. CASE TestWaits(a) BY <2>5 DEF TestWaits
    <2>6. CASE TestStops(a) BY <2>6 DEF TestStops
    <2>7. CASE TestFails(a) BY <2>7 DEF TestFails
    <2>8. CASE Kill(a) BY <2>8 DEF Kill
    <2>9. CASE Poll(a) BY <2>9 DEF Poll
    <2>10. CASE Close(a) BY <2>10 DEF Close
    <2>11. CASE CheckFailed(a) BY <2>11 DEF CheckFailed
    <2>12. CASE LogReason(a) BY <2>12 DEF LogReason
    <2>13. CASE MonitorRaises(a) BY <2>13 DEF MonitorRaises
    <2>14. CASE Exit(a) BY <2>14 DEF Exit
    <2>15. CASE Interrupt(a) BY <2>15 DEF Interrupt
    <2>16. CASE Expire(a) BY <2>16 DEF Expire
    <2> QED BY <2>1, <2>2, <2>3, <2>4, <2>5, <2>6, <2>7, <2>8, <2>9, <2>10,
               <2>11, <2>12, <2>13, <2>14, <2>15, <2>16
            DEF QuietStep
  <1> QED BY <1>1, <1>2, Quiet

\* The steps that take a task, start it, report its end or let go of it.
LEMMA OtherRefines ==
  ASSUME TypeOK, NEW a \in Agents, ChildFits(a), Agent(a), ~ QuietStep(a), Frame(a)
  PROVE  Refined
  <1> USE DEF RunOf, Preparing, TypeOK, AgentTypeOK, ChildTypeOK, ServerTypeOK,
              Goto, BeforeCode, InContainer, childVars
  <1>1. CASE GetNextTask(a)
    <2>1. PICK t \in queue : queue' = queue \ {t} /\ held' = [held EXCEPT ![a] = t]
      BY <1>1 DEF GetNextTask
    <2>2. RunOf(a) = "idle" /\ RunOf(a)' = "before"
      <3>1. t \in Tasks /\ NoTask \notin Tasks
        BY ConstantsAssumption DEF ConstantsAssumption
      <3>2. pc[a] = "poll" /\ pc'[a] = "pulled" /\ UNCHANGED proc
        BY <1>1 DEF GetNextTask
      <3>3. held[a] = NoTask /\ held'[a] = t /\ proc[a] = "none"
        BY <2>1, <3>2
      <3> QED BY <3>1, <3>2, <3>3
    <2>3. [b \in Agents |-> RunOf(b)]' = [[b \in Agents |-> RunOf(b)] EXCEPT ![a] = "before"]
      BY <2>2, RunMoves
    <2>4. TR!Take(a)
      BY <1>1, <2>1, <2>2, <2>3 DEF TR!Take, GetNextTask, Left
    <2> QED BY <2>4 DEF Refined, TR!Next
  <1>2. CASE LoseNextTask(a)
    <2>1. PICK t \in queue : queue' = queue \ {t}
      BY <1>2 DEF LoseNextTask
    <2>2. [b \in Agents |-> RunOf(b)]' = [b \in Agents |-> RunOf(b)]
      BY <1>2, RunStays DEF LoseNextTask, agentVars
    <2>3. t \in Tasks /\ TR!Lose(t)
      BY <1>2, <2>1, <2>2 DEF TR!Lose, LoseNextTask, agentVars, Left
    <2> QED BY <2>3 DEF Refined, TR!Next
  <1>3. CASE MarkPulled(a)
    <2>1. /\ UNCHANGED <<queue, held, strays>> /\ held[a] \in Tasks
          /\ RunOf(a) = "before" /\ RunOf(a)' = "before"
      BY <1>3 DEF MarkPulled
    <2>2. \/ UNCHANGED status
          \/ /\ status[held[a]] # "deleted"
             /\ status' = [status EXCEPT ![held[a]] = "in_progress"]
      BY <1>3 DEF MarkPulled, ForceStarted, SetStatus
    <2> QED BY <2>1, <2>2, Quiet, Begins
  <1>4. CASE LoginRefused(a)
    <2>1. /\ UNCHANGED <<queue, strays>> /\ held' = [held EXCEPT ![a] = NoTask]
          /\ RunOf(a) = "before" /\ RunOf(a)' = "idle"
      BY <1>4 DEF LoginRefused
    <2>2. \/ UNCHANGED status
          \/ /\ status[held[a]] # "deleted"
             /\ status' = [status EXCEPT ![held[a]] = "failed"]
      BY <1>4 DEF LoginRefused, SetStatus
    <2> QED BY <2>1, <2>2, LetsGo
  <1>5. CASE Launch(a)
    <2>1. /\ UNCHANGED <<queue, held, strays>> /\ held[a] \in Tasks
          /\ RunOf(a) = "before" /\ RunOf(a)' = "before"
      BY <1>5 DEF Launch
    <2>2. /\ status[held[a]] # "deleted"
          /\ status' = [status EXCEPT ![held[a]] = "in_progress"]
      BY <1>5 DEF Launch, ForceStarted, SetStatus
    <2> QED BY <2>1, <2>2, Begins
  <1>6. CASE SkipTask(a) \/ LoginRaises(a) \/ LaunchRaises(a)
    <2>1. /\ UNCHANGED <<status, queue, strays>> /\ held' = [held EXCEPT ![a] = NoTask]
          /\ RunOf(a) = "before" /\ RunOf(a)' = "idle"
      BY <1>6 DEF SkipTask, LoginRaises, LaunchRaises, serverVars
    <2> QED BY <2>1, LetsGo
  <1>7. CASE HandleUserAbort(a) \/ SendStopped(a) \/ ReportExit(a)
    <2>1. /\ UNCHANGED <<queue, held, strays>> /\ held[a] \in Tasks /\ RunOf(a)' = RunOf(a)
          /\ RunOf(a) = "after" \/ (Docker /\ RunOf(a) # "idle")
      BY <1>7 DEF HandleUserAbort, SendStopped, ReportExit, ChildFits
    <2>2. Outcome(code[a]) \in {"stopped", "completed", "failed"}
      BY DEF Outcome, ExitCodes
    <2>3. \/ UNCHANGED status
          \/ \E o \in {"stopped", "completed", "failed"} : Report(held[a], o)
      BY <1>7, <2>2 DEF HandleUserAbort, SendStopped, ReportExit
    <2> QED BY <2>1, <2>3, Quiet, Reports
  <1>8. CASE Cleanup(a) \/ StopFails(a)
    <2>1. /\ UNCHANGED <<status, queue>> /\ held' = [held EXCEPT ![a] = NoTask]
          /\ RunOf(a)' = "idle"
          /\ RunOf(a) \in {"before", "after"} \/ (Docker /\ RunOf(a) = "code")
      BY <1>8 DEF Cleanup, StopFails, ChildFits, serverVars
    <2>2. ASSUME Docker, NEW c \in strays, c.task = held[a], strays' = strays \ {c}
          PROVE  Left' \in {Left} \cup {Left \ {<<held[a], r>>} : r \in TR!Runs}
      <3>1. Left' \in {Left, Left \ {<<c.task, LeftAt(c.stage)>>}}
        BY <2>2, LeftWithout DEF Left
      <3>2. LeftAt(c.stage) \in TR!Runs
        BY DEF LeftAt, TR!Runs
      <3> QED BY <2>2, <3>1, <3>2
    <2>3. CASE StopFails(a)
      <3> DEFINE c == [host |-> a, task |-> held[a], stage |-> proc[a]]
      <3>1. Docker /\ proc[a] \in InContainer /\ strays' = strays \cup {c}
        BY <2>3 DEF StopFails
      <3>2. Left' = Left \cup {<<c.task, LeftAt(c.stage)>>}
        BY <3>1, LeftWith
      <3>3. <<c.task, LeftAt(c.stage)>> = <<held[a], RunOf(a)>>
        BY <2>3, <3>1 DEF StopFails, LeftAt
      <3>4. Left' = Left \cup {<<held[a], RunOf(a)>>}
        BY <3>2, <3>3
      <3> QED BY <2>1, <3>1, <3>4, LetsGo
    <2>4. CASE Cleanup(a)
      <3>1. \/ UNCHANGED strays
            \/ /\ Docker
               /\ \E c \in strays : c.task = held[a] /\ strays' = strays \ {c}
        BY <2>4 DEF Cleanup
      <3> QED BY <2>1, <2>2, <3>1, LetsGo
    <2> QED BY <1>8, <2>3, <2>4
  <1>9. CASE ChildDequeue(a) \/ ChildStartsSoon(a)
    <2>1. /\ UNCHANGED <<held, strays>> /\ held[a] \in Tasks
          /\ RunOf(a) = "before" /\ RunOf(a)' = "before"
      BY <1>9 DEF ChildDequeue, ChildStartsSoon, agentVars
    <2>2. \/ UNCHANGED <<status, queue>>
          \/ /\ status[held[a]] # "deleted" /\ queue' \in {queue, queue \ {held[a]}}
             /\ status' = [status EXCEPT ![held[a]] = "in_progress"]
      BY <1>9 DEF ChildDequeue, ChildStartsSoon, TakenOut, ForceStarted, SetStatus
    <2> QED BY <2>1, <2>2, Quiet, Begins
  <1>10. CASE ChildStarted(a)
    <2>1. /\ UNCHANGED <<queue, held, strays>> /\ held[a] \in Tasks /\ RunOf(a) = "before"
      BY <1>10 DEF ChildStarted, agentVars
    <2>2. \/ UNCHANGED status /\ RunOf(a)' \in {"before", "after"}
          \/ /\ status[held[a]] # "deleted" /\ RunOf(a)' = "before"
             /\ status' = [status EXCEPT ![held[a]] = "in_progress"]
      BY <1>10 DEF ChildStarted, ChildForcesStarted, ForceStarted, SetStatus,
         agentVars
    <2> QED BY <2>1, <2>2, Quiet, Begins
  <1>11. CASE ChildStartsCode(a)
    <2>1. /\ UNCHANGED <<queue, held, strays>> /\ held[a] \in Tasks /\ RunOf(a) = "before"
      BY <1>11 DEF ChildStartsCode, agentVars
    <2>2. \/ UNCHANGED status /\ RunOf(a)' \in {"before", "after"}
          \/ /\ RunOf(a)' = "code"
             /\ IF status[held[a]] = "deleted"
                THEN UNCHANGED status
                ELSE status' = [status EXCEPT ![held[a]] = "in_progress"]
      BY <1>11 DEF ChildStartsCode, ChildForcesStarted, ForceStarted, SetStatus,
         agentVars
    <2> QED BY <2>1, <2>2, Quiet, RunsCode
  <1>12. CASE ChildCode(a)
    <2>1. /\ UNCHANGED <<queue, held, strays>> /\ held[a] \in Tasks
          /\ RunOf(a) = "code" /\ RunOf(a)' = RunOf(a)
      BY <1>12 DEF ChildCode, Code, RegistersCallback, CompletesCallback,
                   ReportsItself, agentVars
    <2>2. \/ UNCHANGED status
          \/ \E o \in {"completed", "failed"} : Report(held[a], o)
      BY <1>12 DEF ChildCode, Code, RegistersCallback, CompletesCallback,
                   ReportsItself
    <2> QED BY <2>1, <2>2, Quiet, Reports
  <1>13. CASE BuildFails(a)
    <2>1. /\ UNCHANGED <<queue, held, strays>> /\ held[a] \in Tasks
          /\ RunOf(a) = "before" /\ RunOf(a)' = "after"
      BY <1>13 DEF BuildFails, agentVars
    <2> QED BY <1>13, <2>1, FailsBefore DEF BuildFails
  <1> QED BY <1>1, <1>2, <1>3, <1>4, <1>5, <1>6, <1>7, <1>8, <1>9, <1>10, <1>11,
             <1>12, <1>13 DEF Agent, Pull, Work, Child, QuietStep

\* A container left behind goes on.
LEMMA StrayRefines ==
  ASSUME TypeOK, NEW c \in strays, Stray(c)
  PROVE  Refined
  <1> DEFINE t == c.task
             p == <<c.task, LeftAt(c.stage)>>
  <1>1. t \in Tasks /\ p \in Left /\ LeftAt(c.stage) \in TR!Runs
    BY DEF TypeOK, ChildTypeOK, Containers, Left, LeftAt, TR!Runs
  <1>2. UNCHANGED held /\ [b \in Agents |-> RunOf(b)]' = [b \in Agents |-> RunOf(b)]
    BY StrayFrame DEF agentVars, RunOf, Preparing
  <1>3. SUFFICES ASSUME ~ (UNCHANGED <<status, queue>> /\ Left' = Left)
                 PROVE  TR!LeftGoesOn(t)
    BY <1>1, <1>2 DEF Refined, TR!Next, TR!vars
  <1>4. ASSUME NEW s, Becomes(c, s)
        PROVE  /\ LeftAt(s) = LeftAt(c.stage) => Left' = Left
               /\ TR!Further(t, LeftAt(c.stage), LeftAt(s))
    BY <1>1, <1>4, LeftBecomes DEF TR!Further
  <1>5. ForceStarted(t) => \/ status[t] = "deleted" /\ UNCHANGED status
                           \/ TR!SetStatus(t, "in_progress")
    BY DEF ForceStarted, SetStatus, TR!SetStatus
  <1> USE DEF LeftAt, BeforeCode
  <1>6. CASE StrayDequeues(c)
    <2>1. LeftAt(c.stage) = "before" /\ Left' = Left
      BY <1>4, <1>6 DEF StrayDequeues
    <2>2. TR!Starts(t)
      BY <1>3, <1>6, <2>1 DEF StrayDequeues, TakenOut, SetStatus, TR!Starts, TR!SetStatus
    <2> QED BY <1>1, <1>2, <2>1, <2>2 DEF TR!LeftGoesOn
  <1>7. CASE StrayStarts(c)
    <2>1. LeftAt(c.stage) = "before" /\ UNCHANGED queue /\ ForceStarted(t)
      BY <1>7 DEF StrayStarts
    <2>2. CASE c.stage = "build"
      <3>1. TR!Further(t, "before", "code")
        BY <1>4, <1>7, <2>1, <2>2 DEF StrayStarts
      <3>2. TR!StartsCode(t)
        BY <1>5, <2>1 DEF TR!StartsCode
      <3> QED BY <1>2, <3>1, <3>2 DEF TR!LeftGoesOn
    <2>3. CASE c.stage # "build"
      <3>1. Left' = Left
        BY <1>4, <1>7, <2>1, <2>3 DEF StrayStarts
      <3>2. TR!Starts(t)
        BY <1>3, <1>5, <2>1, <3>1 DEF TR!Starts
      <3> QED BY <1>1, <1>2, <2>1, <3>1, <3>2 DEF TR!LeftGoesOn
    <2> QED BY <2>2, <2>3
  <1>8. CASE StrayBuildFails(c)
    <2>1. TR!Further(t, "before", "after")
      BY <1>4, <1>8 DEF StrayBuildFails
    <2>2. TR!FailsFirst(t) \/ UNCHANGED <<status, queue>>
      BY <1>8 DEF StrayBuildFails, Report, SetStatus, TR!FailsFirst, TR!SetStatus
    <2> QED BY <1>2, <2>1, <2>2 DEF TR!LeftGoesOn
  <1>9. CASE StrayCode(c)
    <2>1. LeftAt(c.stage) = "code" /\ Left' = Left
      BY <1>9 DEF StrayCode, Left, childVars
    <2>2. TR!EndsItself(t)
      BY <1>3, <1>9, <2>1 DEF StrayCode, Code, RegistersCallback,
         CompletesCallback, ReportsItself, Report, SetStatus, TR!EndsItself,
         TR!SetStatus
    <2> QED BY <1>1, <1>2, <2>1, <2>2 DEF TR!LeftGoesOn
  <1>10. CASE StrayEnds(c)
    <2>1. UNCHANGED <<status, queue>> /\ Left' \in {Left, Left \ {p}}
      BY <1>10, LeftWithout DEF StrayEnds, Left, serverVars
    <2>2. Left' = Left \ {<<t, LeftAt(c.stage)>>}
      BY <1>3, <2>1
    <2> QED BY <1>1, <1>2, <2>1, <2>2 DEF TR!LeftGoesOn
  <1> QED BY <1>6, <1>7, <1>8, <1>9, <1>10 DEF Stray

LEMMA UserRefines == ASSUME TypeOK, User PROVE Refined
  <1>1. PICK t \in Tasks : \/ Enqueue(t) \/ Dequeue(t) \/ Abort(t)
                           \/ Decide(t)  \/ Reset(t)   \/ Delete(t)
    BY DEF User
  <1>2. UNCHANGED <<agentVars, childVars>>
    BY <1>1 DEF Enqueue, Dequeue, Abort, Decide, Reset, Delete, UserOp
  <1>3. UNCHANGED held /\ [b \in Agents |-> RunOf(b)]' = [b \in Agents |-> RunOf(b)]
    BY <1>2 DEF agentVars, childVars, RunOf, Preparing
  <1>6. Left' = Left
    BY <1>2 DEF childVars, Left
  <1>4. \/ UNCHANGED <<status, queue>>
        \/ \E s \in {"created", "queued", "stopped", "failed", "closed", "deleted"} :
             /\ status[t] # "deleted" /\ status' = [status EXCEPT ![t] = s]
             /\ queue' \in IF s = "queued" THEN {queue \cup {t}} ELSE {queue, queue \ {t}}
    BY <1>1 DEF Enqueue, Dequeue, Abort, Decide, Reset, Delete, SetStatus
  <1>5. TR!UserMoves(t) \/ UNCHANGED <<status, queue>>
    BY <1>3, <1>4, <1>6 DEF TR!UserMoves, TR!SetStatus
  <1> QED BY <1>3, <1>5, <1>6 DEF Refined, TR!Next, TR!vars

LEMMA NextRefines == TypeOK /\ Fits /\ [Next]_vars => Refined
  <1> SUFFICES ASSUME TypeOK, Fits, [Next]_vars PROVE Refined
    OBVIOUS
  <1>1. CASE User
    BY <1>1, UserRefines
  <1>2. ASSUME NEW a \in Agents, Agent(a) PROVE Refined
    <2>1. Frame(a) /\ ChildFits(a)
      BY <1>2, AgentFrame DEF Fits
    <2> QED BY <1>2, <2>1, QuietRefines, OtherRefines
  <1>3. ASSUME NEW c \in strays, Stray(c) PROVE Refined
    BY <1>3, StrayRefines
  <1>4. CASE UNCHANGED vars
    <2>1. [b \in Agents |-> RunOf(b)]' = [b \in Agents |-> RunOf(b)]
      BY <1>4 DEF vars, agentVars, childVars, RunOf, Preparing
    <2>2. Left' = Left
      BY <1>4 DEF vars, childVars, Left
    <2> QED BY <1>4, <2>1, <2>2 DEF Refined, TR!vars, vars, serverVars, agentVars
  <1> QED BY <1>1, <1>2, <1>3, <1>4 DEF Next, Agent

\* Whatever fails (a request, a launch, `docker stop') and whoever interferes:
\* a task taken from the queue is run at most once, by the agent that took it;
\* only that agent, or a container it could not stop, starts it, and only
\* before the end of that run; and only a task in progress gets an end reported.
THEOREM Implements == Spec => ImplementsTaskRun
  <1>1. Init => TR!Init
    BY DEF Init, TR!Init, RunOf, Left
  <1>2. Init => Fits
    BY DEF Init, Fits, ChildFits
  <1>3. Spec => []TypeOK
    BY TypeCorrect
  <1> QED BY <1>1, <1>2, <1>3, FitsStep, NextRefines, PTL
          DEF Spec, ImplementsTaskRun, TR!Spec, Refined

-----------------------------------------------------------------------------
(* What an abort callback was waited for is reported as stopped.           *)

\* An agent about to report the exit of a process never waited for a callback,
\* or was interrupted.
Waited(a) ==
    /\ pc[a] = "user_abort" => code[a] = "interrupted"
    /\ pc[a] = "terminate" /\ waiting[a] # "no" =>
         result[a] # "no_stop" \/ code[a] = "interrupted"

AllWaited == \A a \in Agents : Waited(a)

StopFrame(a) ==
    \A b \in Agents \ {a} :
        /\ pc'[b] = pc[b] /\ waiting'[b] = waiting[b]
        /\ result'[b] = result[b] /\ code'[b] = code[b]

LEMMA AgentStopFrame ==
  ASSUME TypeOK, NEW a \in Agents, Agent(a)
  PROVE  StopFrame(a)
  <1> USE DEF StopFrame, TypeOK, AgentTypeOK, Goto, StartsWaiting, agentVars
  <1>1. CASE GetNextTask(a) BY <1>1 DEF GetNextTask
  <1>2. CASE LoseNextTask(a) BY <1>2 DEF LoseNextTask
  <1>3. CASE MarkPulled(a) BY <1>3 DEF MarkPulled
  <1>4. CASE Login(a) BY <1>4 DEF Login
  <1>5. CASE LoginRefused(a) BY <1>5 DEF LoginRefused
  <1>6. CASE LoginRaises(a) BY <1>6 DEF LoginRaises
  <1>7. CASE Launch(a) BY <1>7 DEF Launch
  <1>8. CASE SkipTask(a) BY <1>8 DEF SkipTask
  <1>9. CASE LaunchRaises(a) BY <1>9 DEF LaunchRaises
  <1>10. CASE Popen(a) BY <1>10 DEF Popen
  <1>11. CASE PopenFails(a) BY <1>11 DEF PopenFails
  <1>12. CASE MonitorRaises(a) BY <1>12 DEF MonitorRaises
  <1>13. CASE TestContinues(a) BY <1>13 DEF TestContinues
  <1>14. CASE TestWaits(a) BY <1>14 DEF TestWaits
  <1>15. CASE TestStops(a) BY <1>15 DEF TestStops
  <1>16. CASE TestFails(a) BY <1>16 DEF TestFails
  <1>17. CASE Kill(a) BY <1>17 DEF Kill
  <1>18. CASE Poll(a) BY <1>18 DEF Poll
  <1>19. CASE Close(a) BY <1>19 DEF Close
  <1>20. CASE HandleUserAbort(a) BY <1>20 DEF HandleUserAbort
  <1>21. CASE CheckFailed(a) BY <1>21 DEF CheckFailed
  <1>22. CASE SendStopped(a) BY <1>22 DEF SendStopped
  <1>23. CASE ReportExit(a) BY <1>23 DEF ReportExit
  <1>24. CASE LogReason(a) BY <1>24 DEF LogReason
  <1>25. CASE Cleanup(a) BY <1>25 DEF Cleanup
  <1>26. CASE StopFails(a) BY <1>26 DEF StopFails
  <1>27. CASE ChildDequeue(a) BY <1>27 DEF ChildDequeue, TakenOut
  <1>28. CASE ChildStartsSoon(a) BY <1>28 DEF ChildStartsSoon
  <1>29. CASE ChildStarted(a) BY <1>29 DEF ChildStarted
  <1>30. CASE BuildFails(a) BY <1>30 DEF BuildFails
  <1>31. CASE ChildStartsCode(a) BY <1>31 DEF ChildStartsCode
  <1>32. CASE ChildCode(a)
    BY <1>32 DEF ChildCode, Code, RegistersCallback, CompletesCallback,
       ReportsItself
  <1>33. CASE Exit(a) BY <1>33 DEF Exit
  <1>34. CASE Interrupt(a) BY <1>34 DEF Interrupt
  <1>35. CASE Expire(a) BY <1>35 DEF Expire
  <1> QED BY <1>1, <1>2, <1>3, <1>4, <1>5, <1>6, <1>7, <1>8, <1>9, <1>10,
             <1>11, <1>12, <1>13, <1>14, <1>15, <1>16, <1>17, <1>18, <1>19,
             <1>20, <1>21, <1>22, <1>23, <1>24, <1>25, <1>26, <1>27, <1>28,
             <1>29, <1>30, <1>31, <1>32, <1>33, <1>34, <1>35
          DEF Agent, Pull, Work, Child

LEMMA OwnWaited ==
  ASSUME TypeOK, NEW a \in Agents, Waited(a), Agent(a)
  PROVE  Waited(a)'
  <1> USE DEF Waited, TypeOK, AgentTypeOK, Goto, StartsWaiting, AbortCalled,
     agentVars
  <1>1. CASE GetNextTask(a) BY <1>1 DEF GetNextTask
  <1>2. CASE LoseNextTask(a) BY <1>2 DEF LoseNextTask
  <1>3. CASE MarkPulled(a) BY <1>3 DEF MarkPulled
  <1>4. CASE Login(a) BY <1>4 DEF Login
  <1>5. CASE LoginRefused(a) BY <1>5 DEF LoginRefused
  <1>6. CASE LoginRaises(a) BY <1>6 DEF LoginRaises
  <1>7. CASE Launch(a) BY <1>7 DEF Launch
  <1>8. CASE SkipTask(a) BY <1>8 DEF SkipTask
  <1>9. CASE LaunchRaises(a) BY <1>9 DEF LaunchRaises
  <1>10. CASE Popen(a) BY <1>10 DEF Popen
  <1>11. CASE PopenFails(a) BY <1>11 DEF PopenFails
  <1>12. CASE MonitorRaises(a) BY <1>12 DEF MonitorRaises
  <1>13. CASE TestContinues(a) BY <1>13 DEF TestContinues
  <1>14. CASE TestWaits(a) BY <1>14 DEF TestWaits
  <1>15. CASE TestStops(a) BY <1>15 DEF TestStops
  <1>16. CASE TestFails(a) BY <1>16 DEF TestFails
  <1>17. CASE Kill(a) BY <1>17 DEF Kill
  <1>18. CASE Poll(a) BY <1>18 DEF Poll
  <1>19. CASE Close(a) BY <1>19 DEF Close
  <1>20. CASE HandleUserAbort(a) BY <1>20 DEF HandleUserAbort
  <1>21. CASE CheckFailed(a) BY <1>21 DEF CheckFailed
  <1>22. CASE SendStopped(a) BY <1>22 DEF SendStopped
  <1>23. CASE ReportExit(a) BY <1>23 DEF ReportExit
  <1>24. CASE LogReason(a) BY <1>24 DEF LogReason
  <1>25. CASE Cleanup(a) BY <1>25 DEF Cleanup
  <1>26. CASE StopFails(a) BY <1>26 DEF StopFails
  <1>27. CASE ChildDequeue(a) BY <1>27 DEF ChildDequeue, TakenOut
  <1>28. CASE ChildStartsSoon(a) BY <1>28 DEF ChildStartsSoon
  <1>29. CASE ChildStarted(a) BY <1>29 DEF ChildStarted
  <1>30. CASE BuildFails(a) BY <1>30 DEF BuildFails
  <1>31. CASE ChildStartsCode(a) BY <1>31 DEF ChildStartsCode
  <1>32. CASE ChildCode(a)
    BY <1>32 DEF ChildCode, Code, RegistersCallback, CompletesCallback,
       ReportsItself
  <1>33. CASE Exit(a) BY <1>33 DEF Exit
  <1>34. CASE Interrupt(a) BY <1>34 DEF Interrupt
  <1>35. CASE Expire(a) BY <1>35 DEF Expire
  <1> QED BY <1>1, <1>2, <1>3, <1>4, <1>5, <1>6, <1>7, <1>8, <1>9, <1>10,
             <1>11, <1>12, <1>13, <1>14, <1>15, <1>16, <1>17, <1>18, <1>19,
             <1>20, <1>21, <1>22, <1>23, <1>24, <1>25, <1>26, <1>27, <1>28,
             <1>29, <1>30, <1>31, <1>32, <1>33, <1>34, <1>35
          DEF Agent, Pull, Work, Child

LEMMA WaitedStep ==
  TypeOK /\ AllWaited /\ [Next]_vars => AllWaited'
  <1> SUFFICES ASSUME TypeOK, \A a \in Agents : Waited(a), [Next]_vars, NEW b \in Agents
               PROVE  Waited(b)'
    BY DEF AllWaited
  <1>1. CASE User
    <2>1. UNCHANGED agentVars
      BY <1>1 DEF User, Enqueue, Dequeue, Abort, Decide, Reset, Delete, UserOp
    <2> QED BY <2>1 DEF Waited, agentVars
  <1>2. ASSUME NEW a \in Agents, Agent(a) PROVE Waited(b)'
    <2>1. CASE a = b
      BY <1>2, <2>1, OwnWaited
    <2>2. CASE a # b
      BY <1>2, <2>2, AgentStopFrame DEF StopFrame, Waited
    <2> QED BY <2>1, <2>2
  <1>3. ASSUME NEW c \in strays, Stray(c) PROVE Waited(b)'
    BY <1>3, StrayFrame DEF Waited, agentVars
  <1>4. CASE UNCHANGED vars
    BY <1>4 DEF vars, Waited, agentVars
  <1> QED BY <1>1, <1>2, <1>3, <1>4 DEF Next, Agent

LEMMA WaitedIsEnough ==
  TypeOK /\ AllWaited /\ [Next]_vars => [AbortStep]_vars
  <1> SUFFICES ASSUME TypeOK, \A a \in Agents : Waited(a), [Next]_vars,
                      NEW a \in Agents, waiting[a] # "no", pc'[a] # pc[a],
                      pc[a] \in {"user_abort", "terminate", "send_stopped"}
               PROVE  status'[held[a]] \in {status[held[a]], "stopped"}
    BY DEF AbortStep, AllWaited
  <1>1. held[a] \in Tasks
    BY DEF TypeOK, AgentTypeOK
  <1>2. ASSUME Report(held[a], "stopped")
        PROVE  status'[held[a]] \in {status[held[a]], "stopped"}
    BY <1>1, <1>2 DEF Report, SetStatus, TypeOK, ServerTypeOK
  <1>3. ~ User /\ ~ UNCHANGED vars /\ \A c \in strays : ~ Stray(c)
    BY StrayFrame DEF User, Enqueue, Dequeue, Abort, Decide, Reset, Delete, UserOp,
                      vars, agentVars
  <1>4. Agent(a)
    <2>1. ASSUME NEW b \in Agents, Agent(b), b # a PROVE FALSE
      BY <2>1, AgentStopFrame DEF StopFrame
    <2> QED BY <1>3, <2>1 DEF Next, Agent
  <1>5. HandleUserAbort(a) \/ CheckFailed(a) \/ SendStopped(a) \/ ReportExit(a) \/ LogReason(a)
    BY <1>4 DEF Agent, Pull, GetNextTask, LoseNextTask, Work, MarkPulled,
       Login, LoginRefused, LoginRaises, Launch, SkipTask, LaunchRaises, Popen,
       PopenFails, MonitorRaises, StopFails, TestContinues, TestWaits,
       TestStops, TestFails, Kill, Poll, Close, Cleanup, Child, ChildDequeue,
       TakenOut, ChildStartsSoon, ChildStarted, BuildFails, ChildStartsCode,
       ChildCode, Code, RegistersCallback, CompletesCallback, ReportsItself,
       Exit, Interrupt, Expire, agentVars
  <1>6. CASE HandleUserAbort(a) BY <1>2, <1>6 DEF HandleUserAbort
  <1>7. CASE CheckFailed(a) BY <1>7 DEF CheckFailed, serverVars
  <1>8. CASE SendStopped(a) BY <1>2, <1>8 DEF SendStopped
  <1>9. CASE ReportExit(a)
    <2>1. code[a] = "interrupted"
      BY <1>9 DEF ReportExit, Waited
    <2>2. Outcome(code[a]) = "stopped"
      BY <2>1 DEF Outcome
    <2> QED BY <1>2, <1>9, <2>2 DEF ReportExit
  <1>10. CASE LogReason(a) BY <1>10 DEF LogReason, serverVars
  <1> QED BY <1>5, <1>6, <1>7, <1>8, <1>9, <1>10

\* Once an agent waited for an abort callback it reports "stopped" or nothing,
\* however the process ended.
THEOREM AbortsAreStopped == Spec => AbortIsStopped
  <1>1. Init => AllWaited
    BY DEF Init, AllWaited, Waited
  <1>2. Spec => []TypeOK
    BY TypeCorrect
  <1> QED BY <1>1, <1>2, WaitedStep, WaitedIsEnough, PTL DEF Spec, AbortIsStopped

-----------------------------------------------------------------------------
(* A child is killed for a reason that still stands.                       *)

\* KillStillWanted, agent by agent.
Wanted(a) ==
    pc[a] = "kill" =>
        \/ excuse[held[a]] \cap {"override", "requeue", "container"} # {}
        \/ status[held[a]] # "in_progress"
        \/ stopping[held[a]]

AllWanted == \A a \in Agents : Wanted(a)

\* The message on a task is the business of users and of those who hold it.
LEMMA MessageUntouched ==
  ASSUME TypeOK, NEW a \in Agents, Agent(a), NEW t \in Tasks, held[a] # t
  PROVE  status'[t] = status[t] /\ stopping'[t] = stopping[t]
  <1> USE DEF TypeOK, ServerTypeOK, SetStatus, Report, ForceStarted,
              ChildForcesStarted, serverVars
  <1>1. CASE GetNextTask(a) BY <1>1 DEF GetNextTask
  <1>2. CASE LoseNextTask(a) BY <1>2 DEF LoseNextTask
  <1>3. CASE MarkPulled(a) BY <1>3 DEF MarkPulled
  <1>4. CASE Login(a) BY <1>4 DEF Login
  <1>5. CASE LoginRefused(a) BY <1>5 DEF LoginRefused
  <1>6. CASE LoginRaises(a) BY <1>6 DEF LoginRaises
  <1>7. CASE Launch(a) BY <1>7 DEF Launch
  <1>8. CASE SkipTask(a) BY <1>8 DEF SkipTask
  <1>9. CASE LaunchRaises(a) BY <1>9 DEF LaunchRaises
  <1>10. CASE Popen(a) BY <1>10 DEF Popen
  <1>11. CASE PopenFails(a) BY <1>11 DEF PopenFails
  <1>12. CASE MonitorRaises(a) BY <1>12 DEF MonitorRaises
  <1>13. CASE TestContinues(a) BY <1>13 DEF TestContinues
  <1>14. CASE TestWaits(a) BY <1>14 DEF TestWaits
  <1>15. CASE TestStops(a) BY <1>15 DEF TestStops
  <1>16. CASE TestFails(a) BY <1>16 DEF TestFails
  <1>17. CASE Kill(a) BY <1>17 DEF Kill
  <1>18. CASE Poll(a) BY <1>18 DEF Poll
  <1>19. CASE Close(a) BY <1>19 DEF Close
  <1>20. CASE HandleUserAbort(a) BY <1>20 DEF HandleUserAbort
  <1>21. CASE CheckFailed(a) BY <1>21 DEF CheckFailed
  <1>22. CASE SendStopped(a) BY <1>22 DEF SendStopped
  <1>23. CASE ReportExit(a) BY <1>23 DEF ReportExit
  <1>24. CASE LogReason(a) BY <1>24 DEF LogReason
  <1>25. CASE Cleanup(a) BY <1>25 DEF Cleanup
  <1>26. CASE StopFails(a) BY <1>26 DEF StopFails
  <1>27. CASE ChildDequeue(a) BY <1>27 DEF ChildDequeue, TakenOut
  <1>28. CASE ChildStartsSoon(a) BY <1>28 DEF ChildStartsSoon
  <1>29. CASE ChildStarted(a) BY <1>29 DEF ChildStarted
  <1>30. CASE BuildFails(a) BY <1>30 DEF BuildFails
  <1>31. CASE ChildStartsCode(a) BY <1>31 DEF ChildStartsCode
  <1>32. CASE ChildCode(a)
    BY <1>32 DEF ChildCode, Code, RegistersCallback, CompletesCallback,
       ReportsItself
  <1>33. CASE Exit(a) BY <1>33 DEF Exit
  <1>34. CASE Interrupt(a) BY <1>34 DEF Interrupt
  <1>35. CASE Expire(a) BY <1>35 DEF Expire
  <1> QED BY <1>1, <1>2, <1>3, <1>4, <1>5, <1>6, <1>7, <1>8, <1>9, <1>10,
             <1>11, <1>12, <1>13, <1>14, <1>15, <1>16, <1>17, <1>18, <1>19,
             <1>20, <1>21, <1>22, <1>23, <1>24, <1>25, <1>26, <1>27, <1>28,
             <1>29, <1>30, <1>31, <1>32, <1>33, <1>34, <1>35
          DEF Agent, Pull, Work, Child

LEMMA OwnWanted ==
  ASSUME TypeOK, NEW a \in Agents, Wanted(a), Agent(a), [Next]_vars
  PROVE  Wanted(a)'
  <1> SUFFICES ASSUME pc'[a] = "kill"
               PROVE  Wanted(a)'
    BY DEF Wanted
  <1>1. CASE TestStops(a) \/ TestFails(a)
    <2>1. held' = held /\ held[a] \in Tasks /\ UNCHANGED <<status, stopping>>
      BY <1>1 DEF TestStops, TestFails, serverVars, TypeOK, AgentTypeOK
    <2>2. Verdict(a) # "no_stop"
      BY <1>1 DEF TestStops, TestFails, Goto, TypeOK, AgentTypeOK
    <2>3. status[held[a]] # "in_progress" \/ stopping[held[a]]
      BY <2>2 DEF Verdict, UnexpectedStatuses
    <2> QED BY <2>1, <2>3 DEF Wanted
  <1>2. CASE ~ (TestStops(a) \/ TestFails(a))
    <2>1. Child(a) \/ Expire(a)
      BY <1>2 DEF Agent, Pull, GetNextTask, LoseNextTask, Work, MarkPulled, Login,
         LoginRefused, LoginRaises, Launch, SkipTask, LaunchRaises, Popen,
         PopenFails, MonitorRaises, StopFails, TestContinues, TestWaits, Kill, Poll, Close, HandleUserAbort, CheckFailed, SendStopped,
         ReportExit, LogReason, Cleanup, Interrupt, Goto, agentVars, TypeOK,
         AgentTypeOK
    <2>2. UNCHANGED <<pc, held>> /\ pc[a] = "kill" /\ held[a] \in Tasks
      BY <2>1 DEF Child, ChildDequeue, TakenOut, ChildStartsSoon, ChildStarted,
         BuildFails, ChildStartsCode, ChildCode, Code, RegistersCallback,
         CompletesCallback, ReportsItself, Exit, Expire, agentVars, TypeOK,
         AgentTypeOK
    <2>3. excuse[held[a]] \subseteq excuse'[held[a]]
      BY <2>2, ExcusesGrow
    <2>4. \/ UNCHANGED <<status, stopping>>
          \/ Override(a)
          \/ status'[held[a]] # "in_progress"
      BY <2>1, <2>2 DEF Child, ChildDequeue, TakenOut, ChildStartsSoon,
         ChildStarted, BuildFails, ChildStartsCode, ChildForcesStarted,
         ChildCode, Code, RegistersCallback, CompletesCallback, ReportsItself,
         Report, SetStatus, Exit, Expire, serverVars, TypeOK, ServerTypeOK
    <2>5. Override(a) => "override" \in excuse'[held[a]]
      BY <2>2 DEF Override, Watching, TypeOK, CountersTypeOK
    <2> QED BY <2>2, <2>3, <2>4, <2>5 DEF Wanted
  <1> QED BY <1>1, <1>2

LEMMA WantedStep ==
  ASSUME TypeOK, SoleHolder, [Next]_vars, NEW b \in Agents, Wanted(b)
  PROVE  Wanted(b)'
  <1>1. CASE User
    <2>1. UNCHANGED agentVars
      BY <1>1 DEF User, Enqueue, Dequeue, Abort, Decide, Reset, Delete, UserOp
    <2>2. SUFFICES ASSUME pc[b] = "kill", held[b] \in Tasks
                   PROVE  Wanted(b)'
      BY <2>1 DEF Wanted, agentVars, TypeOK, AgentTypeOK
    <2>3. excuse[held[b]] \subseteq excuse'[held[b]]
      BY <2>2, ExcusesGrow
    <2>4. status'[held[b]] = "in_progress" =>
            /\ status[held[b]] = "in_progress"
            /\ stopping[held[b]] => stopping'[held[b]]
      BY <1>1, <2>2 DEF User, Enqueue, Dequeue, Abort, Decide, Reset, Delete,
                        SetStatus, TypeOK, ServerTypeOK
    <2> QED BY <2>1, <2>2, <2>3, <2>4 DEF Wanted, agentVars
  <1>2. ASSUME NEW a \in Agents, Agent(a) PROVE Wanted(b)'
    <2>1. CASE a = b
      BY <1>2, <2>1, OwnWanted
    <2>2. CASE a # b
      <3>1. held'[b] = held[b] /\ pc'[b] = pc[b]
        BY <1>2, <2>2, AgentFrame DEF Frame
      <3>2. SUFFICES ASSUME pc[b] = "kill", held[b] \in Tasks
                     PROVE  Wanted(b)'
        BY <3>1 DEF Wanted, TypeOK, AgentTypeOK
      <3>3. excuse[held[b]] \subseteq excuse'[held[b]]
        BY <3>2, ExcusesGrow
      <3>4. CASE held[a] = held[b]
        <4>1. "requeue" \in excuse[held[b]]
          BY <2>2, <3>2, <3>4 DEF SoleHolder, Holders
        <4> QED BY <3>1, <3>3, <4>1 DEF Wanted
      <3>5. CASE held[a] # held[b]
        BY <1>2, <3>1, <3>2, <3>3, <3>5, MessageUntouched DEF Wanted
      <3> QED BY <3>4, <3>5
    <2> QED BY <2>1, <2>2
  <1>3. ASSUME NEW c \in strays, Stray(c) PROVE Wanted(b)'
    <2>1. UNCHANGED agentVars /\ UNCHANGED excuse
      BY <1>3, StrayFrame DEF Stray, StrayDequeues, StrayStarts, StrayBuildFails,
         StrayCode, StrayEnds
    <2>2. SUFFICES ASSUME pc[b] = "kill", held[b] \in Tasks
                   PROVE  Wanted(b)'
      BY <2>1 DEF Wanted, agentVars, TypeOK, AgentTypeOK
    <2> QED BY <1>3, <2>1, <2>2, StrayElsewhere DEF Wanted, agentVars
  <1>4. CASE UNCHANGED vars
    BY <1>4 DEF vars, Wanted, serverVars, agentVars
  <1> QED BY <1>1, <1>2, <1>3, <1>4 DEF Next, Agent

\* Between the test that decides to stop and the kill nothing makes the
\* decision wrong but a re-enqueue, the child itself, or a container of an
\* earlier run.
THEOREM KillsAreWanted == Spec => []KillStillWanted
  <1>1. Init => AllWanted
    BY DEF Init, AllWanted, Wanted
  <1>2. TypeOK /\ SoleHolder /\ AllWanted /\ [Next]_vars => AllWanted'
    BY WantedStep DEF AllWanted
  <1>3. AllWanted => KillStillWanted
    BY DEF AllWanted, Wanted, KillStillWanted
  <1>4. Spec => []TypeOK /\ []SoleHolder
    BY TypeCorrect, OneHolder, PTL
  <1> QED BY <1>1, <1>2, <1>3, <1>4, PTL DEF Spec

\* The agent gives up on a task rightly: NobodyStranded, for this part alone.
THEOREM GiveUpsAreRight == Spec => []GivesUpRightly
  BY NobodyStranded, PTL
=============================================================================
