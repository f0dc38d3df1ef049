------------------------ MODULE TaskLifecycleProofs ------------------------
(* Theorems about TaskLifecycle, for any number of agents and tasks.       *)
EXTENDS TaskLifecycle, TLAPS

USE ConstantsAssumption DEF ConstantsAssumption

-----------------------------------------------------------------------------
(* Type correctness.                                                       *)

\* The requests leave the server's record of every task well formed.
LEMMA TypeSetStatus ==
  ASSUME ServerTypeOK, NEW t \in Tasks, NEW s \in Statuses, SetStatus(t, s)
  PROVE  /\ status' \in [Tasks -> Statuses]
         /\ stopping' \in [Tasks -> BOOLEAN]
  BY DEF ServerTypeOK, SetStatus

LEMMA TypeRequest ==
  ASSUME ServerTypeOK, NEW t \in Tasks, NEW s \in Statuses,
         \/ SetStatus(t, s) \/ Report(t, s) \/ ForceStarted(t)
         \/ UNCHANGED <<status, stopping>>
  PROVE  /\ status' \in [Tasks -> Statuses]
         /\ stopping' \in [Tasks -> BOOLEAN]
  <1>1. "in_progress" \in Statuses
    BY DEF Statuses
  <1>2. CASE UNCHANGED <<status, stopping>>
    BY <1>2 DEF ServerTypeOK
  <1> QED
    BY <1>1, <1>2, TypeSetStatus DEF Report, ForceStarted

\* What a child asks of the server, or the user's code does to its own task.
ServedTask(t) ==
    /\ \E s \in Statuses :
         \/ SetStatus(t, s) \/ Report(t, s) \/ ForceStarted(t)
         \/ UNCHANGED <<status, stopping>>
    /\ queue' \subseteq queue
    /\ \E s \in {"set", "completed"} :
         callback' \in {callback, [callback EXCEPT ![t] = s]}

LEMMA TypeServed ==
  ASSUME ServerTypeOK, NEW t \in Tasks, ServedTask(t)
  PROVE  ServerTypeOK'
  <1>1. /\ status' \in [Tasks -> Statuses]
        /\ stopping' \in [Tasks -> BOOLEAN]
    BY TypeRequest DEF ServedTask
  <1> QED BY <1>1 DEF ServedTask, ServerTypeOK

LEMMA TypeFault ==
  ASSUME CountersTypeOK, NEW t \in Tasks, NEW k \in Excuses,
         Fault(t, k) \/ UNCHANGED <<excuse, faults>>
  PROVE  /\ excuse' \in [Tasks -> SUBSET Excuses]
         /\ faults' \in 0..MaxFaults
  BY DEF CountersTypeOK, Fault

LEMMA TypeInit == Init => TypeOK
  BY DEF Init, TypeOK, ServerTypeOK, AgentTypeOK, ChildTypeOK, CountersTypeOK,
         StraysExcused, Statuses, PCs, Reasons, Stages, ExitCodes, Excuses

\* A user's operation touches the server only.
LEMMA TypeUser ==
  ASSUME TypeOK, User
  PROVE  ServerTypeOK' /\ AgentTypeOK' /\ ChildTypeOK' /\ CountersTypeOK'
  <1>1. PICK t \in Tasks : \/ Enqueue(t) \/ Dequeue(t) \/ Abort(t)
                           \/ Decide(t)  \/ Reset(t)   \/ Delete(t)
    BY DEF User
  <1>2. UserOp
    BY <1>1 DEF Enqueue, Dequeue, Abort, Decide, Reset, Delete
  <1>3. AgentTypeOK' /\ ChildTypeOK'
    BY <1>2 DEF UserOp, agentVars, childVars, TypeOK, AgentTypeOK, ChildTypeOK
  <1>4. ServerTypeOK' /\ CountersTypeOK'
    <2> USE <1>2 DEF UserOp, TypeOK, ServerTypeOK, CountersTypeOK, SetStatus,
                     Statuses, Excuses
    <2>1. CASE Enqueue(t) BY <2>1 DEF Enqueue
    <2>2. CASE Dequeue(t) BY <2>2 DEF Dequeue
    <2>3. CASE Abort(t) BY <2>3 DEF Abort
    <2>4. CASE Decide(t) BY <2>4 DEF Decide
    <2>5. CASE Reset(t) BY <2>5 DEF Reset
    <2>6. CASE Delete(t) BY <2>6 DEF Delete
    <2> QED BY <1>1, <2>1, <2>2, <2>3, <2>4, <2>5, <2>6
  <1> QED BY <1>3, <1>4

\* What a step of an agent does to its own variables and its child's.
LEMMA TypeAgentVars ==
  ASSUME TypeOK, NEW a \in Agents, Pull(a) \/ Work(a)
  PROVE  AgentTypeOK' /\ ChildTypeOK'
  <1> USE DEF TypeOK, AgentTypeOK, ChildTypeOK, PCs, Reasons, Stages,
              ExitCodes, Goto, KillChild, agentVars, childVars, Containers,
              InContainer, BeforeCode
  <1>1. CASE GetNextTask(a) BY <1>1 DEF GetNextTask, ServerTypeOK
  <1>2. CASE LoseNextTask(a) BY <1>2 DEF LoseNextTask
  <1>3. CASE MarkPulled(a) BY <1>3 DEF MarkPulled
  <1>4. CASE Login(a) BY <1>4 DEF Login
  <1>5. CASE LoginRefused(a) BY <1>5 DEF LoginRefused
  <1>6. CASE Launch(a) BY <1>6 DEF Launch
  <1>7. CASE SkipTask(a) BY <1>7 DEF SkipTask
  <1>8. CASE Popen(a) BY <1>8 DEF Popen
  <1>9. CASE PopenFails(a) BY <1>9 DEF PopenFails
  <1>10. CASE TestContinues(a) BY <1>10 DEF TestContinues, Verdict
  <1>11. CASE TestWaits(a) BY <1>11 DEF TestWaits, StartsWaiting
  <1>12. CASE TestStops(a) BY <1>12 DEF TestStops, StartsWaiting, Verdict
  <1>13. CASE TestFails(a) BY <1>13 DEF TestFails, Verdict
  <1>14. CASE Kill(a) BY <1>14 DEF Kill, KillChild
  <1>15. CASE Poll(a) BY <1>15 DEF Poll
  <1>16. CASE Close(a) BY <1>16 DEF Close, KillChild
  <1>17. CASE HandleUserAbort(a) BY <1>17 DEF HandleUserAbort
  <1>18. CASE CheckFailed(a) BY <1>18 DEF CheckFailed
  <1>19. CASE SendStopped(a) BY <1>19 DEF SendStopped
  <1>20. CASE ReportExit(a) BY <1>20 DEF ReportExit
  <1>21. CASE LogReason(a) BY <1>21 DEF LogReason
  <1>22. CASE Cleanup(a) BY <1>22 DEF Cleanup
  <1>23. CASE LoginRaises(a) BY <1>23 DEF LoginRaises
  <1>24. CASE LaunchRaises(a) BY <1>24 DEF LaunchRaises
  <1>25. CASE MonitorRaises(a) BY <1>25 DEF MonitorRaises
  <1>26. CASE StopFails(a)
    <2>1. [host |-> a, task |-> held[a], stage |-> proc[a]] \in Containers
      BY <1>26 DEF StopFails
    <2>2. proc' \in [Agents -> Stages] /\ strays' \in SUBSET Containers
      BY <1>26, <2>1 DEF StopFails
    <2> QED BY <1>26, <2>2 DEF StopFails
  <1> QED
    BY <1>1, <1>2, <1>3, <1>4, <1>5, <1>6, <1>7, <1>8, <1>9, <1>10, <1>11,
       <1>12, <1>13, <1>14, <1>15, <1>16, <1>17, <1>18, <1>19, <1>20, <1>21,
       <1>22, <1>23, <1>24, <1>25, <1>26
    DEF Pull, Work

\* What it does to the server's record, by requests that may fail.
LEMMA TypeServerVars ==
  ASSUME TypeOK, NEW a \in Agents, Pull(a) \/ Work(a)
  PROVE  ServerTypeOK' /\ CountersTypeOK'
  <1> DEFINE t == held[a]
  <1>1. CASE GetNextTask(a)
    BY <1>1 DEF GetNextTask, TypeOK, ServerTypeOK, CountersTypeOK
  <1>2. CASE LoseNextTask(a)
    BY <1>2 DEF LoseNextTask, Fault, TypeOK, ServerTypeOK, CountersTypeOK,
                Excuses
  <1>3. CASE Pull(a)
    BY <1>1, <1>2, <1>3 DEF Pull
  <1>4. CASE Work(a)
    <2>1. t \in Tasks
      BY <1>4 DEF Work, MarkPulled, Login, LoginRefused, LoginRaises, Launch,
         SkipTask, LaunchRaises, Popen, PopenFails, MonitorRaises,
         TestContinues, TestWaits, TestStops, TestFails, Kill, Poll, Close,
         HandleUserAbort, CheckFailed, SendStopped, ReportExit, LogReason,
         Cleanup, StopFails, TypeOK, AgentTypeOK
    <2>2. callback' = callback /\ queue' = queue /\ ops' = ops
      BY <1>4 DEF Work, MarkPulled, Login, LoginRefused, LoginRaises, Launch,
         SkipTask, LaunchRaises, Popen, PopenFails, MonitorRaises,
         TestContinues, TestWaits, TestStops, TestFails, Kill, Poll, Close,
         HandleUserAbort, CheckFailed, SendStopped, ReportExit, LogReason,
         Cleanup, StopFails, serverVars
    <2>3. \E s \in Statuses :
            \/ SetStatus(t, s) \/ Report(t, s) \/ ForceStarted(t)
            \/ UNCHANGED <<status, stopping>>
      BY <1>4 DEF Work, MarkPulled, Login, LoginRefused, LoginRaises, Launch,
         SkipTask, LaunchRaises, Popen, PopenFails, MonitorRaises,
         TestContinues, TestWaits, TestStops, TestFails, Kill, Poll, Close,
         HandleUserAbort, CheckFailed, SendStopped, ReportExit, LogReason,
         Cleanup, StopFails, serverVars, Outcome, Statuses
    <2>4. \E k \in Excuses : Fault(t, k) \/ UNCHANGED <<excuse, faults>>
      BY <1>4 DEF Work, MarkPulled, Login, LoginRefused, LoginRaises, Launch,
         SkipTask, LaunchRaises, Popen, PopenFails, MonitorRaises,
         TestContinues, TestWaits, TestStops, TestFails, Kill, Poll, Close,
         HandleUserAbort, CheckFailed, SendStopped, ReportExit, LogReason,
         Cleanup, StopFails, Excuses
    <2>5. /\ status' \in [Tasks -> Statuses]
          /\ stopping' \in [Tasks -> BOOLEAN]
      BY <2>1, <2>3, TypeRequest DEF TypeOK
    <2>6. /\ excuse' \in [Tasks -> SUBSET Excuses]
          /\ faults' \in 0..MaxFaults
      BY <2>1, <2>4, TypeFault DEF TypeOK
    <2> QED
      BY <2>2, <2>5, <2>6 DEF TypeOK, ServerTypeOK, CountersTypeOK
  <1> QED BY <1>3, <1>4

\* The child, a KeyboardInterrupt and the passing of time.
LEMMA TypeChild ==
  ASSUME TypeOK, NEW a \in Agents, Child(a) \/ Interrupt(a) \/ Expire(a)
  PROVE  ServerTypeOK' /\ AgentTypeOK' /\ ChildTypeOK' /\ CountersTypeOK'
  <1> DEFINE t == held[a]
  <1>1. proc[a] # "none" => t \in Tasks
    BY DEF TypeOK, AgentTypeOK, ChildTypeOK
  <1>2. AgentTypeOK' /\ ChildTypeOK'
    <2> USE DEF TypeOK, AgentTypeOK, ChildTypeOK, Goto, KillChild, InContainer,
                BeforeCode, Stages, ExitCodes, PCs, agentVars, childVars
    <2>1. CASE Interrupt(a) BY <2>1 DEF Interrupt
    <2>2. CASE Expire(a) BY <2>2 DEF Expire
    <2>3. CASE ChildDequeue(a) BY <2>3 DEF ChildDequeue
    <2>4. CASE ChildStartsSoon(a) BY <2>4 DEF ChildStartsSoon
    <2>5. CASE ChildStarted(a) BY <2>5 DEF ChildStarted, ChildForcesStarted
    <2>6. CASE BuildFails(a) BY <2>6 DEF BuildFails
    <2>7. CASE ChildStartsCode(a) BY <2>7 DEF ChildStartsCode, ChildForcesStarted
    <2>8. CASE ChildCode(a) BY <2>8 DEF ChildCode
    <2>9. CASE Exit(a) BY <2>9 DEF Exit
    <2> QED BY <2>1, <2>2, <2>3, <2>4, <2>5, <2>6, <2>7, <2>8, <2>9 DEF Child
  <1>3. ServerTypeOK'
    <2>1. CASE Interrupt(a) \/ Expire(a) \/ Exit(a)
      BY <2>1 DEF Interrupt, Expire, Exit, TypeOK, ServerTypeOK, serverVars
    <2>2. ASSUME Child(a), ~ Exit(a), proc[a] # "none" PROVE ServerTypeOK'
      <3>1. \/ ServedTask(t) \/ UNCHANGED serverVars
        BY <1>1, <2>2 DEF ServedTask, Child, ChildDequeue, TakenOut, ChildStartsSoon,
           ChildStarted, BuildFails, ChildStartsCode, ChildForcesStarted,
           ChildCode, Code, RegistersCallback, CompletesCallback, ReportsItself,
           serverVars, Statuses
      <3> QED BY <1>1, <2>2, <3>1, TypeServed DEF TypeOK, ServerTypeOK, serverVars
    <2>3. Child(a) => proc[a] # "none"
      BY DEF Child, ChildDequeue, ChildStartsSoon, ChildStarted, BuildFails,
             ChildStartsCode, ChildCode, Exit, InContainer, BeforeCode
    <2> QED BY <2>1, <2>2, <2>3
  <1>4. CountersTypeOK'
    <2> USE DEF TypeOK, CountersTypeOK
    <2>1. Override(a) /\ t \in Tasks => excuse' \in [Tasks -> SUBSET Excuses]
      BY DEF Override, Excuses
    <2>2. ASSUME t \in Tasks, NEW k \in Excuses, Fault(t, k)
          PROVE  excuse' \in [Tasks -> SUBSET Excuses] /\ faults' \in 0..MaxFaults
      BY <2>2 DEF Fault
    <2>3. "request" \in Excuses
      BY DEF Excuses
    <2>4. CASE Interrupt(a) BY <2>4 DEF Interrupt
    <2>5. CASE Expire(a) BY <2>5 DEF Expire
    <2>6. CASE ChildDequeue(a)
      BY <1>1, <2>1, <2>2, <2>3, <2>6 DEF ChildDequeue
    <2>7. CASE ChildStartsSoon(a)
      BY <1>1, <2>1, <2>2, <2>3, <2>7 DEF ChildStartsSoon
    <2>8. CASE ChildStarted(a)
      BY <1>1, <2>1, <2>2, <2>3, <2>8 DEF ChildStarted, ChildForcesStarted
    <2>9. CASE BuildFails(a) BY <2>9 DEF BuildFails
    <2>10. CASE ChildStartsCode(a)
      BY <1>1, <2>1, <2>2, <2>3, <2>10 DEF ChildStartsCode, ChildForcesStarted
    <2>11. CASE ChildCode(a) BY <2>11 DEF ChildCode
    <2>12. CASE Exit(a) BY <2>12 DEF Exit
    <2> QED
      BY <2>4, <2>5, <2>6, <2>7, <2>8, <2>9, <2>10, <2>11, <2>12 DEF Child
  <1> QED BY <1>2, <1>3, <1>4

\* So does a container that was left running.
LEMMA TypeStray ==
  ASSUME TypeOK, NEW c \in strays, Stray(c)
  PROVE  ServerTypeOK' /\ AgentTypeOK' /\ ChildTypeOK' /\ CountersTypeOK'
  <1>1. c \in Containers /\ c.task \in Tasks
    BY DEF TypeOK, ChildTypeOK, Containers
  <1>2. UNCHANGED <<agentVars, proc, exit, excuse, ops, faults>>
    BY DEF Stray, StrayDequeues, StrayStarts, StrayBuildFails, StrayCode,
           StrayEnds, childVars
  <1>3. strays' \in SUBSET Containers
    <2>1. ASSUME NEW s \in InContainer, Becomes(c, s)
          PROVE  strays' \in SUBSET Containers
      <3>1. [c EXCEPT !.stage = s] \in Containers
        BY <1>1, <2>1 DEF Containers
      <3> QED BY <2>1, <3>1 DEF Becomes, TypeOK, ChildTypeOK
    <2>2. \/ strays' \subseteq strays
          \/ \E s \in InContainer : Becomes(c, s)
      BY DEF Stray, StrayDequeues, StrayStarts, StrayBuildFails, StrayCode,
             StrayEnds, childVars, InContainer, BeforeCode
    <2> QED BY <2>1, <2>2 DEF TypeOK, ChildTypeOK
  <1>4. \/ ServedTask(c.task) \/ UNCHANGED serverVars
    BY DEF ServedTask, Stray, StrayDequeues, TakenOut, StrayStarts,
           StrayBuildFails, StrayCode, StrayEnds, Code, RegistersCallback,
           CompletesCallback, ReportsItself, serverVars, Statuses
  <1>5. ServerTypeOK'
    BY <1>1, <1>4, TypeServed DEF TypeOK, ServerTypeOK, serverVars
  <1> QED
    BY <1>2, <1>3, <1>5 DEF TypeOK, AgentTypeOK, ChildTypeOK, CountersTypeOK,
                            agentVars

\* Excuses are never taken back.
LEMMA ExcusesGrow ==
  ASSUME TypeOK, [Next]_vars, NEW t \in Tasks
  PROVE  excuse[t] \subseteq excuse'[t]
  <1>1. ASSUME NEW u, NEW k, Fault(u, k)
        PROVE  excuse[t] \subseteq excuse'[t]
    BY <1>1 DEF Fault, TypeOK, CountersTypeOK
  <1>2. CASE User
    BY <1>2 DEF User, Enqueue, Dequeue, Abort, Decide, Reset, Delete, TypeOK,
                CountersTypeOK
  <1>3. ASSUME NEW a \in Agents, Pull(a) \/ Work(a)
        PROVE  excuse[t] \subseteq excuse'[t]
    BY <1>1, <1>3 DEF Pull, GetNextTask, LoseNextTask, Work, MarkPulled, Login,
       LoginRefused, LoginRaises, Launch, SkipTask, LaunchRaises, Popen,
       PopenFails, MonitorRaises, TestContinues, TestWaits, TestStops,
       TestFails, Kill, Poll, Close, HandleUserAbort, CheckFailed, SendStopped,
       ReportExit, LogReason, Cleanup, StopFails
  <1>4. ASSUME NEW a \in Agents, Child(a) \/ Interrupt(a) \/ Expire(a)
        PROVE  excuse[t] \subseteq excuse'[t]
    <2>1. Override(a) => excuse[t] \subseteq excuse'[t]
      BY DEF Override, TypeOK, CountersTypeOK
    <2> QED
      BY <1>1, <1>4, <2>1 DEF Child, ChildDequeue, TakenOut, ChildStartsSoon,
         ChildStarted, BuildFails, ChildStartsCode, ChildForcesStarted,
         ChildCode, Code, RegistersCallback, CompletesCallback, ReportsItself,
         Exit, Interrupt, Expire
  <1>5. ASSUME NEW c \in strays, Stray(c)
        PROVE  excuse[t] \subseteq excuse'[t]
    BY <1>5 DEF Stray, StrayDequeues, StrayStarts, StrayBuildFails, StrayCode,
                StrayEnds
  <1> QED
    BY <1>2, <1>3, <1>4, <1>5 DEF Next, vars

\* A container becomes a stray with an excuse.
LEMMA StraysStep ==
  ASSUME TypeOK, [Next]_vars
  PROVE  StraysExcused'
  <1>1. ASSUME NEW d \in strays', \E c \in strays : c.task = d.task
        PROVE  "container" \in excuse'[d.task]
    <2>1. PICK c \in strays : c.task = d.task
      BY <1>1
    <2>2. c.task \in Tasks /\ "container" \in excuse[c.task]
      BY DEF TypeOK, ChildTypeOK, StraysExcused, Containers
    <2> QED BY <2>1, <2>2, ExcusesGrow
  <1>2. SUFFICES ASSUME NEW d \in strays', d \notin strays
                 PROVE  "container" \in excuse'[d.task]
    BY <1>1 DEF StraysExcused
  <1>3. CASE \E a \in Agents : StopFails(a)
    <2>1. PICK a \in Agents : StopFails(a)
      BY <1>3
    <2>2. d.task = held[a] /\ held[a] \in Tasks
      BY <1>2, <2>1 DEF StopFails, TypeOK, AgentTypeOK
    <2> QED BY <2>1, <2>2 DEF StopFails, Fault, TypeOK, CountersTypeOK
  <1>4. CASE \E c \in strays : Stray(c)
    <2>1. PICK c \in strays : Stray(c)
      BY <1>4
    <2>2. c \in Containers
      BY DEF TypeOK, ChildTypeOK
    <2>3. \E s : d = [c EXCEPT !.stage = s]
      BY <1>2, <2>1 DEF Stray, StrayDequeues, StrayStarts, StrayBuildFails,
         StrayCode, StrayEnds, childVars, Becomes
    <2>4. d.task = c.task
      BY <2>2, <2>3 DEF Containers
    <2> QED BY <1>1, <2>4
  <1>5. ASSUME ~ \E c \in strays : Stray(c), ~ \E a \in Agents : StopFails(a)
        PROVE  strays' \subseteq strays
    <2>1. CASE User
      BY <2>1 DEF User, Enqueue, Dequeue, Abort, Decide, Reset, Delete, UserOp,
                  childVars
    <2>2. ASSUME NEW a \in Agents, Pull(a) \/ Work(a) PROVE strays' \subseteq strays
      BY <1>5, <2>2 DEF Pull, GetNextTask, LoseNextTask, Work, MarkPulled,
         Login, LoginRefused, LoginRaises, Launch, SkipTask, LaunchRaises,
         Popen, PopenFails, MonitorRaises, TestContinues, TestWaits, TestStops,
         TestFails, Kill, Poll, Close, HandleUserAbort, CheckFailed,
         SendStopped, ReportExit, LogReason, Cleanup, StopFails, childVars
    <2>3. ASSUME NEW a \in Agents, Child(a) \/ Interrupt(a) \/ Expire(a)
          PROVE  strays' \subseteq strays
      BY <2>3 DEF Child, ChildDequeue, ChildStartsSoon, ChildStarted, BuildFails,
         ChildStartsCode, ChildCode, Exit, Interrupt, Expire, childVars
    <2> QED BY <1>5, <2>1, <2>2, <2>3 DEF Next, vars, childVars
  <1> QED BY <1>2, <1>3, <1>4, <1>5

LEMMA TypeStep == TypeOK /\ [Next]_vars => TypeOK'
  <1> SUFFICES ASSUME TypeOK, [Next]_vars
               PROVE  ServerTypeOK' /\ AgentTypeOK' /\ ChildTypeOK' /\ CountersTypeOK'
    BY StraysStep DEF TypeOK
  <1>1. CASE User BY <1>1, TypeUser
  <1>2. ASSUME NEW a \in Agents, Pull(a) \/ Work(a)
        PROVE  ServerTypeOK' /\ AgentTypeOK' /\ ChildTypeOK' /\ CountersTypeOK'
    BY <1>2, TypeAgentVars, TypeServerVars
  <1>3. ASSUME NEW a \in Agents, Child(a) \/ Interrupt(a) \/ Expire(a)
        PROVE  ServerTypeOK' /\ AgentTypeOK' /\ ChildTypeOK' /\ CountersTypeOK'
    BY <1>3, TypeChild
  <1>4. ASSUME NEW c \in strays, Stray(c)
        PROVE  ServerTypeOK' /\ AgentTypeOK' /\ ChildTypeOK' /\ CountersTypeOK'
    BY <1>4, TypeStray
  <1>5. CASE UNCHANGED vars
    BY <1>5 DEF vars, serverVars, agentVars, childVars, TypeOK, ServerTypeOK,
                AgentTypeOK, ChildTypeOK, CountersTypeOK
  <1> QED BY <1>1, <1>2, <1>3, <1>4, <1>5 DEF Next

\* Types hold in every behaviour of the system.
THEOREM TypeCorrect == Spec => []TypeOK
  BY TypeInit, TypeStep, PTL DEF Spec

-----------------------------------------------------------------------------
(* One agent per task.                                                     *)

\* Requests that fail only ever add excuses, and never "requeue".
LEMMA WorkKeepsHolders ==
  ASSUME TypeOK, NEW a \in Agents, Work(a)
  PROVE  /\ queue' = queue
         /\ held' \in {held, [held EXCEPT ![a] = NoTask]}
         /\ \A t \in Tasks : "requeue" \notin excuse'[t] => "requeue" \notin excuse[t]
  <1>1. queue' = queue
    BY DEF Work, MarkPulled, Login, LoginRefused, LoginRaises, Launch, SkipTask,
       LaunchRaises, Popen, PopenFails, MonitorRaises, TestContinues, TestWaits,
       TestStops, TestFails, Kill, Poll, Close, HandleUserAbort, CheckFailed,
       SendStopped, ReportExit, LogReason, Cleanup, StopFails, serverVars
  <1>2. held' \in {held, [held EXCEPT ![a] = NoTask]}
    BY DEF Work, MarkPulled, Login, LoginRefused, LoginRaises, Launch, SkipTask,
       LaunchRaises, Popen, PopenFails, MonitorRaises, TestContinues, TestWaits,
       TestStops, TestFails, Kill, Poll, Close, HandleUserAbort, CheckFailed,
       SendStopped, ReportExit, LogReason, Cleanup, StopFails
  <1>3. \/ excuse' = excuse
        \/ \E k \in Excuses : Fault(held[a], k)
    BY DEF Work, MarkPulled, Login, LoginRefused, LoginRaises, Launch, SkipTask,
       LaunchRaises, Popen, PopenFails, MonitorRaises, TestContinues, TestWaits,
       TestStops, TestFails, Kill, Poll, Close, HandleUserAbort, CheckFailed,
       SendStopped, ReportExit, LogReason, Cleanup, StopFails, Excuses
  <1>4. ASSUME NEW k \in Excuses, Fault(held[a], k), NEW t \in Tasks
        PROVE  excuse[t] \subseteq excuse'[t]
    BY <1>4 DEF Fault, TypeOK, CountersTypeOK
  <1> QED BY <1>1, <1>2, <1>3, <1>4

\* SoleHolder is inductive together with the types: a task enters the queue
\* only with no holder or with the excuse "requeue", and GetNextTask takes
\* out of the queue what it hands to an agent.
LEMMA SoleHolderStep == TypeOK /\ SoleHolder /\ [Next]_vars => SoleHolder'
  <1> SUFFICES ASSUME TypeOK, SoleHolder, [Next]_vars,
                      NEW t \in Tasks, "requeue" \notin excuse'[t]
               PROVE  /\ t \in queue' => Holders(t)' = {}
                      /\ \A b, c \in Holders(t)' : b = c
    BY DEF SoleHolder
  <1>0. TypeOK'
    BY TypeStep
  <1> USE DEF SoleHolder, Holders, TypeOK, AgentTypeOK, CountersTypeOK
  <1>1. CASE User
    <2>1. held' = held /\ (queue' \subseteq queue \/ \E u \in Tasks : Enqueue(u))
      BY <1>1 DEF User, Enqueue, Dequeue, Abort, Decide, Reset, Delete, UserOp,
                  agentVars
    <2>2. CASE \E u \in Tasks : Enqueue(u)
      BY <2>1, <2>2 DEF Enqueue
    <2>3. CASE ~ \E u \in Tasks : Enqueue(u)
      <3>1. excuse' = excuse
        BY <1>1, <2>3 DEF User, Dequeue, Abort, Decide, Reset, Delete
      <3> QED BY <2>1, <2>3, <3>1
    <2> QED BY <2>2, <2>3
  <1>2. ASSUME NEW a \in Agents, GetNextTask(a)
        PROVE  /\ t \in queue' => Holders(t)' = {}
               /\ \A b, c \in Holders(t)' : b = c
    BY <1>2 DEF GetNextTask
  <1>3. ASSUME NEW a \in Agents, LoseNextTask(a)
        PROVE  /\ t \in queue' => Holders(t)' = {}
               /\ \A b, c \in Holders(t)' : b = c
    BY <1>3 DEF LoseNextTask, Fault, agentVars
  <1>4. ASSUME NEW a \in Agents, Work(a)
        PROVE  /\ t \in queue' => Holders(t)' = {}
               /\ \A b, c \in Holders(t)' : b = c
    <2>1. /\ queue' = queue
          /\ held' \in {held, [held EXCEPT ![a] = NoTask]}
          /\ "requeue" \notin excuse[t]
      BY <1>4, WorkKeepsHolders
    <2>2. t # NoTask
      OBVIOUS
    <2> QED BY <2>1, <2>2
  <1>5. ASSUME NEW a \in Agents, Child(a) \/ Interrupt(a) \/ Expire(a)
        PROVE  /\ t \in queue' => Holders(t)' = {}
               /\ \A b, c \in Holders(t)' : b = c
    <2>1. held' = held /\ queue' \subseteq queue
      BY <1>5 DEF Child, ChildDequeue, TakenOut, ChildStartsSoon, ChildStarted,
         BuildFails, ChildStartsCode, ChildCode, Code, RegistersCallback,
         CompletesCallback, ReportsItself, Exit, Interrupt, Expire, agentVars,
         serverVars
    <2>2. "requeue" \notin excuse[t]
      BY <1>5 DEF Child, ChildDequeue, TakenOut, ChildStartsSoon, ChildStarted,
         BuildFails, ChildStartsCode, ChildForcesStarted, ChildCode, Code,
         RegistersCallback, CompletesCallback, ReportsItself, Exit, Interrupt,
         Expire, Override, Fault
    <2> QED BY <2>1, <2>2
  <1>6. ASSUME NEW c \in strays, Stray(c)
        PROVE  /\ t \in queue' => Holders(t)' = {}
               /\ \A b, d \in Holders(t)' : b = d
    <2>1. held' = held /\ queue' \subseteq queue /\ excuse' = excuse
      BY <1>6 DEF Stray, StrayDequeues, TakenOut, StrayStarts, StrayBuildFails,
         StrayCode, StrayEnds, Code, RegistersCallback, CompletesCallback,
         ReportsItself, agentVars, serverVars
    <2> QED BY <2>1
  <1>7. CASE UNCHANGED vars
    BY <1>7 DEF vars, agentVars, serverVars
  <1> QED
    BY <1>1, <1>2, <1>3, <1>4, <1>5, <1>6, <1>7 DEF Next, Pull

\* Any number of agents on one queue: no two work on the same task, and none
\* works on a task still in the queue, unless a user enqueued it again while
\* an agent held it.
THEOREM OneHolder == Spec => []SoleHolder
  <1>1. Init => SoleHolder
    BY DEF Init, SoleHolder, Holders
  <1> QED BY <1>1, TypeInit, TypeStep, SoleHolderStep, PTL DEF Spec

-----------------------------------------------------------------------------
(* No task is stranded.                                                    *)

\* NoStrandedTask and GivesUpRightly, task by task.
Settled(t) ==
    excuse[t] = {} =>
        /\ Holders(t) = {} => /\ status[t] # "in_progress"
                              /\ status[t] = "queued" => t \in queue
        /\ \A a \in Holders(t) :
             /\ pc[a] # "pulled" => status[t] # "queued"
             /\ GivenUp(a) => status[t] # "in_progress"

LEMMA SettledIsInv ==
  ASSUME TypeOK
  PROVE  NoStrandedTask /\ GivesUpRightly <=> \A t \in Tasks : Settled(t)
  <1>1. \A a \in Agents : held[a] # NoTask => held[a] \in Tasks
    BY DEF TypeOK, AgentTypeOK
  <1> QED
    BY <1>1 DEF NoStrandedTask, GivesUpRightly, Settled, Holders

\* A step of an agent or of its child concerns its own task only.
LEMMA OthersUntouched ==
  ASSUME TypeOK, NEW a \in Agents,
         Work(a) \/ Child(a) \/ Interrupt(a) \/ Expire(a),
         NEW t \in Tasks, held[a] # t
  PROVE  /\ status'[t] = status[t]
         /\ t \in queue' <=> t \in queue
         /\ Holders(t)' = Holders(t)
         /\ \A b \in Holders(t) :
              /\ pc'[b] = pc[b] /\ reason'[b] = reason[b]
              /\ result'[b] = result[b]
  <1> USE DEF TypeOK, ServerTypeOK, AgentTypeOK
  <1>1. ASSUME NEW s,
               \/ SetStatus(held[a], s) \/ Report(held[a], s)
               \/ ForceStarted(held[a]) \/ UNCHANGED <<status, stopping>>
        PROVE  status'[t] = status[t]
    BY <1>1 DEF SetStatus, Report, ForceStarted
  <1>2. status'[t] = status[t]
    BY <1>1 DEF Work, MarkPulled, Login, LoginRefused, LoginRaises, Launch,
       SkipTask, LaunchRaises, Popen, PopenFails, MonitorRaises, TestContinues,
       TestWaits, TestStops, TestFails, Kill, Poll, Close, HandleUserAbort,
       CheckFailed, SendStopped, ReportExit, LogReason, Cleanup, StopFails,
       Child, ChildDequeue, TakenOut, ChildStartsSoon, ChildStarted, BuildFails,
       ChildStartsCode, ChildForcesStarted, ChildCode, Code, RegistersCallback,
       CompletesCallback, ReportsItself, Exit, Interrupt, Expire, serverVars
  <1>3. t \in queue' <=> t \in queue
    BY DEF Work, MarkPulled, Login, LoginRefused, LoginRaises, Launch, SkipTask,
       LaunchRaises, Popen, PopenFails, MonitorRaises, TestContinues, TestWaits,
       TestStops, TestFails, Kill, Poll, Close, HandleUserAbort, CheckFailed,
       SendStopped, ReportExit, LogReason, Cleanup, StopFails, Child,
       ChildDequeue, TakenOut, ChildStartsSoon, ChildStarted, BuildFails,
       ChildStartsCode, ChildCode, Code, RegistersCallback, CompletesCallback,
       ReportsItself, Exit, Interrupt, Expire, serverVars
  <1>4. held' \in {held, [held EXCEPT ![a] = NoTask]}
    BY DEF Work, MarkPulled, Login, LoginRefused, LoginRaises, Launch, SkipTask,
       LaunchRaises, Popen, PopenFails, MonitorRaises, TestContinues, TestWaits,
       TestStops, TestFails, Kill, Poll, Close, HandleUserAbort, CheckFailed,
       SendStopped, ReportExit, LogReason, Cleanup, StopFails, Child,
       ChildDequeue, TakenOut, ChildStartsSoon, ChildStarted, BuildFails,
       ChildStartsCode, ChildCode, Code, RegistersCallback, CompletesCallback,
       ReportsItself, Exit, Interrupt, Expire, agentVars
  <1>5. Holders(t)' = Holders(t)
    <2>1. t # NoTask
      OBVIOUS
    <2> QED BY <1>4, <2>1 DEF Holders
  <1>6. \A b \in Agents \ {a} :
          /\ pc'[b] = pc[b] /\ reason'[b] = reason[b] /\ result'[b] = result[b]
    BY DEF Work, MarkPulled, Login, LoginRefused, LoginRaises, Launch, SkipTask,
       LaunchRaises, Popen, PopenFails, MonitorRaises, TestContinues, TestWaits,
       TestStops, TestFails, Kill, Poll, Close, HandleUserAbort, CheckFailed,
       SendStopped, ReportExit, LogReason, Cleanup, StopFails, Child,
       ChildDequeue, TakenOut, ChildStartsSoon, ChildStarted, BuildFails,
       ChildStartsCode, ChildCode, Code, RegistersCallback, CompletesCallback,
       ReportsItself, Exit, Interrupt, Expire, agentVars, Goto
  <1> QED
    BY <1>2, <1>3, <1>5, <1>6 DEF Holders

\* What a step of the agent owes to its own task for Settled to hold again.
Owes(a, t) ==
    /\ held'[a] = t =>
         /\ pc'[a] # "pulled" => status'[t] # "queued"
         /\ GivenUp(a)' => status'[t] # "in_progress"
    /\ held'[a] # t =>
         /\ status'[t] # "in_progress"
         /\ status'[t] = "queued" => t \in queue'

\* A failed request is an excuse, an answered one decides the status.
LEMMA Answered ==
  ASSUME TypeOK, NEW t \in Tasks
  PROVE  /\ \A k : Fault(t, k) => excuse'[t] # {}
         /\ \A s : SetStatus(t, s) => status'[t] = s
         /\ \A s \in Statuses \ {"in_progress", "queued"} : Report(t, s) =>
              /\ status'[t] # "in_progress"
              /\ status'[t] = "queued" => status[t] = "queued"
         /\ ForceStarted(t) => status'[t] \in {"in_progress", "deleted"}
  BY DEF TypeOK, ServerTypeOK, CountersTypeOK, Fault, SetStatus, Report,
         ForceStarted

\* An answered request leaves the task in progress only while the agent goes
\* on to watch it.
LEMMA OwnWork ==
  ASSUME TypeOK, NEW a \in Agents, NEW t \in Tasks, held[a] = t, Work(a),
         pc[a] # "pulled" => status[t] # "queued",
         GivenUp(a) => status[t] # "in_progress",
         excuse'[t] = {}
  PROVE  Owes(a, t)
  <1>1. t # NoTask
    OBVIOUS
  <1>2. \A k : ~Fault(t, k)
    BY Answered
  <1> USE <1>1, <1>2 DEF Owes, GivenUp, Silent, Goto, serverVars, TypeOK,
                         AgentTypeOK
  <1>3. CASE MarkPulled(a)
    BY <1>3, Answered DEF MarkPulled
  <1>4. CASE Login(a) BY <1>4 DEF Login
  <1>5. CASE LoginRefused(a)
    BY <1>5, Answered DEF LoginRefused
  <1>6. CASE Launch(a) BY <1>6, Answered DEF Launch
  <1>7. CASE SkipTask(a) BY <1>7 DEF SkipTask
  <1>8. CASE Popen(a) BY <1>8 DEF Popen
  <1>9. CASE PopenFails(a) BY <1>9 DEF PopenFails
  <1>10. CASE TestContinues(a) BY <1>10 DEF TestContinues
  <1>11. CASE TestWaits(a) BY <1>11 DEF TestWaits
  <1>12. CASE TestStops(a)
    BY <1>12 DEF TestStops, Verdict, UnexpectedStatuses
  <1>13. CASE TestFails(a) BY <1>13 DEF TestFails
  <1>14. CASE Kill(a) BY <1>14 DEF Kill
  <1>15. CASE Poll(a)
    BY <1>15 DEF Poll
  <1>16. CASE Close(a) BY <1>16 DEF Close
  <1>17. CASE HandleUserAbort(a)
    BY <1>17, Answered DEF HandleUserAbort, Statuses
  <1>18. CASE CheckFailed(a) BY <1>18 DEF CheckFailed
  <1>19. CASE SendStopped(a) BY <1>19, Answered DEF SendStopped, Statuses
  <1>20. CASE ReportExit(a) BY <1>20, Answered DEF ReportExit, Outcome, Statuses
  <1>21. CASE LogReason(a) BY <1>21 DEF LogReason, Reasons
  <1>22. CASE Cleanup(a) BY <1>22 DEF Cleanup
  <1>23. CASE LoginRaises(a) \/ LaunchRaises(a) \/ MonitorRaises(a) \/ StopFails(a)
    BY <1>23 DEF LoginRaises, LaunchRaises, MonitorRaises, StopFails
  <1> QED
    BY <1>3, <1>4, <1>5, <1>6, <1>7, <1>8, <1>9, <1>10, <1>11, <1>12, <1>13,
       <1>14, <1>15, <1>16, <1>17, <1>18, <1>19, <1>20, <1>21, <1>22, <1>23 DEF
       Work

\* Nor does the child, a KeyboardInterrupt or the clock: a child that its
\* agent no longer watches has an excuse as soon as it changes the status.
LEMMA OwnChild ==
  ASSUME TypeOK, NEW a \in Agents, NEW t \in Tasks, held[a] = t,
         Child(a) \/ Interrupt(a) \/ Expire(a),
         pc[a] # "pulled" => status[t] # "queued",
         GivenUp(a) => status[t] # "in_progress",
         excuse'[t] = {}
  PROVE  Owes(a, t)
  <1>1. held' = held
    BY DEF Child, ChildDequeue, TakenOut, ChildStartsSoon, ChildStarted,
       BuildFails, ChildStartsCode, ChildCode, Code, RegistersCallback,
       CompletesCallback, ReportsItself, Exit, Interrupt, Expire, agentVars
  <1>2. \A k : ~Fault(t, k)
    BY Answered
  <1>3. Override(a) => Watching(a)
    BY DEF Override, TypeOK, CountersTypeOK
  <1> USE <1>1, <1>2 DEF Owes, GivenUp, Silent, Goto, serverVars, agentVars,
                         TypeOK, AgentTypeOK
  <1>4. CASE Interrupt(a) BY <1>4 DEF Interrupt
  <1>5. CASE Expire(a) BY <1>5 DEF Expire
  <1>6. CASE ChildDequeue(a)
    BY <1>3, <1>6, Answered DEF ChildDequeue, TakenOut, Watching
  <1>7. CASE ChildStartsSoon(a)
    BY <1>3, <1>7, Answered DEF ChildStartsSoon, Watching
  <1>8. CASE ChildStarted(a)
    BY <1>3, <1>8, Answered DEF ChildStarted, ChildForcesStarted, Watching
  <1>9. CASE BuildFails(a) BY <1>9, Answered DEF BuildFails, Statuses
  <1>10. CASE ChildStartsCode(a)
    BY <1>3, <1>10, Answered DEF ChildStartsCode, ChildForcesStarted, Watching
  <1>11. CASE ChildCode(a)
    BY <1>11, Answered DEF ChildCode, Code, RegistersCallback, CompletesCallback,
                           ReportsItself, Statuses
  <1>12. CASE Exit(a) BY <1>12 DEF Exit
  <1> QED
    BY <1>4, <1>5, <1>6, <1>7, <1>8, <1>9, <1>10, <1>11, <1>12 DEF Child

\* A container left behind concerns a task with an excuse.
LEMMA StrayElsewhere ==
  ASSUME TypeOK, NEW c \in strays, Stray(c), NEW t \in Tasks,
         "container" \notin excuse[t]
  PROVE  /\ status'[t] = status[t] /\ stopping'[t] = stopping[t]
         /\ t \in queue' <=> t \in queue
         /\ UNCHANGED <<agentVars, proc>>
  <1>1. c.task \in Tasks /\ c.task # t
    BY DEF TypeOK, ChildTypeOK, StraysExcused, Containers
  <1>2. \/ \E s : SetStatus(c.task, s)
        \/ UNCHANGED <<status, stopping>>
    BY DEF Stray, StrayDequeues, TakenOut, StrayStarts, StrayBuildFails,
           StrayCode, StrayEnds, Code, RegistersCallback, CompletesCallback,
           ReportsItself, Report, ForceStarted, serverVars
  <1>3. status'[t] = status[t] /\ stopping'[t] = stopping[t]
    BY <1>1, <1>2 DEF SetStatus, TypeOK, ServerTypeOK
  <1>4. /\ queue' \in {queue, queue \ {c.task}}
        /\ UNCHANGED <<agentVars, proc>>
    BY DEF Stray, StrayDequeues, TakenOut, StrayStarts, StrayBuildFails,
           StrayCode, StrayEnds, Code, RegistersCallback, CompletesCallback,
           ReportsItself, serverVars, childVars
  <1> QED BY <1>1, <1>3, <1>4

LEMMA SettledStep ==
  ASSUME TypeOK, SoleHolder, [Next]_vars, NEW t \in Tasks, Settled(t)
  PROVE  Settled(t)'
  <1> SUFFICES ASSUME excuse'[t] = {}
               PROVE  Settled(t)'
    BY DEF Settled
  <1>1. excuse[t] = {}
    BY ExcusesGrow
  <1>2. \A a \in Agents : held[a] = t => Holders(t) = {a} /\ t \notin queue
    BY <1>1 DEF SoleHolder, Holders
  <1>3. t # NoTask
    OBVIOUS
  <1>4. CASE User
    <2>1. /\ Holders(t)' = Holders(t)
          /\ pc' = pc /\ reason' = reason /\ result' = result
      BY <1>4 DEF User, Enqueue, Dequeue, Abort, Decide, Reset, Delete, UserOp,
                  agentVars, Holders
    <2>2. \A a : GivenUp(a)' = GivenUp(a)
      BY <2>1 DEF GivenUp
    <2>3. /\ status'[t] = "in_progress" => status[t] = "in_progress"
          /\ status'[t] = "queued" =>
               \/ status[t] = "queued" /\ (t \in queue => t \in queue')
               \/ Holders(t) = {} /\ t \in queue'
      <3> USE <1>1 DEF TypeOK, ServerTypeOK, CountersTypeOK, SetStatus
      <3>1. PICK u \in Tasks : \/ Enqueue(u) \/ Dequeue(u) \/ Abort(u)
                               \/ Decide(u)  \/ Reset(u)   \/ Delete(u)
        BY <1>4 DEF User
      <3>2. CASE Enqueue(u) BY <3>2 DEF Enqueue
      <3>3. CASE Dequeue(u) BY <3>3 DEF Dequeue
      <3>4. CASE Abort(u) BY <3>4 DEF Abort
      <3>5. CASE Decide(u) BY <3>5 DEF Decide
      <3>6. CASE Reset(u) BY <3>6 DEF Reset
      <3>7. CASE Delete(u) BY <3>7 DEF Delete
      <3> QED BY <3>1, <3>2, <3>3, <3>4, <3>5, <3>6, <3>7
    <2> QED
      BY <1>1, <2>1, <2>2, <2>3 DEF Settled
  <1>5. ASSUME NEW a \in Agents, GetNextTask(a)
        PROVE  Settled(t)'
    <2>1. status' = status /\ reason' = reason /\ result' = result
      BY <1>5 DEF GetNextTask
    <2>2. PICK u \in queue : /\ queue' = queue \ {u}
                             /\ held' = [held EXCEPT ![a] = u]
      BY <1>5 DEF GetNextTask
    <2>3. pc' = [pc EXCEPT ![a] = "pulled"] /\ held[a] = NoTask
      BY <1>5 DEF GetNextTask, Goto, TypeOK, AgentTypeOK
    <2>4. CASE u = t
      <3>1. Holders(t)' = {a}
        BY <1>2, <2>2, <2>4, <1>1 DEF Holders, SoleHolder, TypeOK, AgentTypeOK
      <3>2. ~GivenUp(a)'
        BY <2>3 DEF GivenUp, TypeOK, AgentTypeOK
      <3> QED BY <2>3, <3>1, <3>2 DEF Settled, TypeOK, AgentTypeOK
    <2>5. CASE u # t
      <3>1. Holders(t)' = Holders(t) /\ a \notin Holders(t)
        BY <1>3, <2>2, <2>3, <2>5 DEF Holders, TypeOK, AgentTypeOK
      <3>2. \A b \in Holders(t) : pc'[b] = pc[b] /\ GivenUp(b)' = GivenUp(b)
        BY <2>1, <2>3, <3>1 DEF GivenUp, Holders, TypeOK, AgentTypeOK
      <3> QED BY <1>1, <2>1, <2>2, <2>5, <3>1, <3>2 DEF Settled
    <2> QED BY <2>4, <2>5
  <1>6. ASSUME NEW a \in Agents, LoseNextTask(a)
        PROVE  Settled(t)'
    <2>1. /\ status' = status /\ Holders(t)' = Holders(t)
          /\ pc' = pc /\ reason' = reason /\ result' = result
      BY <1>6 DEF LoseNextTask, agentVars, Holders
    <2>2. t \in queue => t \in queue'
      BY <1>6, Answered DEF LoseNextTask
    <2> QED BY <1>1, <2>1, <2>2 DEF Settled, GivenUp
  <1>7. ASSUME NEW a \in Agents, held[a] # t,
               Work(a) \/ Child(a) \/ Interrupt(a) \/ Expire(a)
        PROVE  Settled(t)'
    BY <1>1, <1>7, OthersUntouched DEF Settled, GivenUp
  <1>8. ASSUME NEW a \in Agents, held[a] = t,
               Work(a) \/ Child(a) \/ Interrupt(a) \/ Expire(a)
        PROVE  Settled(t)'
    <2>1. Holders(t) = {a} /\ t \notin queue
      BY <1>2, <1>8
    <2>2. Owes(a, t)
      BY <1>1, <1>8, <2>1, OwnWork, OwnChild DEF Settled
    <2>3. held' \in {held, [held EXCEPT ![a] = NoTask]}
      <3>1. CASE Work(a)
        BY <3>1, WorkKeepsHolders
      <3>2. CASE Child(a) \/ Interrupt(a) \/ Expire(a)
        BY <3>2 DEF Child, ChildDequeue, TakenOut, ChildStartsSoon,
           ChildStarted, BuildFails, ChildStartsCode, ChildCode, Code,
           RegistersCallback, CompletesCallback, ReportsItself, Exit,
           Interrupt, Expire, agentVars
      <3> QED BY <1>8, <3>1, <3>2
    <2>4. CASE held'[a] = t
      <3>1. Holders(t)' = {a}
        BY <1>3, <2>1, <2>3, <2>4 DEF Holders, TypeOK, AgentTypeOK
      <3> QED BY <2>2, <2>4, <3>1 DEF Owes, Settled
    <2>5. CASE held'[a] # t
      <3>1. Holders(t)' = {}
        BY <1>3, <2>1, <2>3, <2>5 DEF Holders, TypeOK, AgentTypeOK
      <3> QED BY <2>2, <2>5, <3>1 DEF Owes, Settled
    <2> QED BY <2>4, <2>5
  <1>9. ASSUME NEW c \in strays, Stray(c)
        PROVE  Settled(t)'
    BY <1>1, <1>9, StrayElsewhere DEF Settled, Holders, GivenUp, agentVars
  <1>10. CASE UNCHANGED vars
    BY <1>1, <1>10 DEF vars, serverVars, agentVars, Settled, Holders, GivenUp
  <1> QED
    BY <1>4, <1>5, <1>6, <1>7, <1>8, <1>9, <1>10 DEF Next, Pull

\* For any number of agents and tasks, and any ResetTests: when every request
\* is answered, every child starts, is watched and can be stopped, no task is
\* ever left queued outside the queue or in progress with no agent behind it,
\* unless it was enqueued again under its agent or put in progress by a child
\* given up on.
THEOREM NobodyStranded == Spec => [](NoStrandedTask /\ GivesUpRightly)
  <1> DEFINE Inv == TypeOK /\ SoleHolder /\ \A t \in Tasks : Settled(t)
  <1>1. Init => Inv
    <2>1. Init => SoleHolder /\ \A t \in Tasks : Settled(t)
      BY DEF Init, SoleHolder, Settled, Holders
    <2> QED BY <2>1, TypeInit
  <1>2. Inv /\ [Next]_vars => Inv'
    <2> SUFFICES ASSUME Inv, [Next]_vars PROVE Inv'
      OBVIOUS
    <2>1. TypeOK' /\ SoleHolder'
      BY TypeStep, SoleHolderStep
    <2>2. \A t \in Tasks : Settled(t)'
      BY SettledStep
    <2> QED BY <2>1, <2>2
  <1>3. Inv => NoStrandedTask /\ GivesUpRightly
    BY SettledIsInv
  <1> QED BY <1>1, <1>2, <1>3, PTL DEF Spec
=============================================================================
