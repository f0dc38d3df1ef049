---------------------------- MODULE K8sGlueProofs ----------------------------
(* Theorems about K8sGlue, for any number of tasks, queues and pods.       *)
EXTENDS K8sGlue, FiniteSetTheorems, SequenceTheorems, NaturalsInduction,
        WellFoundedInduction, TLAPS

\* A step of the glue's loop that touches no pod.
LoopStep ==
    \/ CleanupSkipped
    \/ LookUpTasks
    \/ LookUpFails
    \/ UsedPods
    \/ NoTasks
    \/ GetNextTask
    \/ AnswerLost
    \/ OwnerLogin
    \/ Crash
    \/ StopFirst
    \/ RemoveStuck
    \/ PushToPending
    \/ PushFails
    \/ StopForQueue
    \/ BackToQueue
    \/ NoTemplate
    \/ QuotaExceeded
    \/ ApplyFails
    \/ FailApplied
    \/ Unpend
    \/ StillQueued
    \/ NotQueuedAnyMore
    \/ AddTask
    \/ AddTaskFails
    \/ MoveToFront
    \/ NotMoved
    \/ \E x \in stale : FailStale(x[1], x[2])

LEMMA LoopStepFrame ==
  ASSUME LoopStep
  PROVE  UNCHANGED <<pod, daemon>> /\ gpc' # "apply"
  <1> USE DEF LoopOnly, Placing, Leave, NextQueue, Goto, AfterCleanup
  <1>1. CASE CleanupSkipped BY <1>1 DEF CleanupSkipped
  <1>2. CASE LookUpTasks BY <1>2 DEF LookUpTasks
  <1>3. CASE LookUpFails BY <1>3 DEF LookUpFails
  <1>4. CASE UsedPods BY <1>4 DEF UsedPods
  <1>5. CASE NoTasks BY <1>5 DEF NoTasks
  <1>6. CASE GetNextTask BY <1>6 DEF GetNextTask
  <1>7. CASE AnswerLost BY <1>7 DEF AnswerLost
  <1>8. CASE OwnerLogin BY <1>8 DEF OwnerLogin
  <1>9. CASE Crash BY <1>9 DEF Crash
  <1>10. CASE StopFirst BY <1>10 DEF StopFirst
  <1>11. CASE RemoveStuck BY <1>11 DEF RemoveStuck
  <1>12. CASE PushToPending BY <1>12 DEF PushToPending
  <1>13. CASE PushFails BY <1>13 DEF PushFails
  <1>14. CASE StopForQueue BY <1>14 DEF StopForQueue
  <1>15. CASE BackToQueue BY <1>15 DEF BackToQueue
  <1>16. CASE NoTemplate BY <1>16 DEF NoTemplate
  <1>17. CASE QuotaExceeded BY <1>17 DEF QuotaExceeded
  <1>18. CASE ApplyFails BY <1>18 DEF ApplyFails
  <1>19. CASE FailApplied BY <1>19 DEF FailApplied
  <1>20. CASE Unpend BY <1>20 DEF Unpend
  <1>21. CASE StillQueued BY <1>21 DEF StillQueued
  <1>22. CASE NotQueuedAnyMore BY <1>22 DEF NotQueuedAnyMore
  <1>23. CASE AddTask BY <1>23 DEF AddTask
  <1>24. CASE AddTaskFails BY <1>24 DEF AddTaskFails
  <1>25. CASE MoveToFront BY <1>25 DEF MoveToFront
  <1>26. CASE NotMoved BY <1>26 DEF NotMoved
  <1>27. ASSUME NEW x \in stale, FailStale(x[1], x[2]) PROVE UNCHANGED <<pod, daemon>> /\ gpc' # "apply"
    BY <1>27 DEF FailStale
  <1> QED BY <1>1, <1>2, <1>3, <1>4, <1>5, <1>6, <1>7, <1>8, <1>9, <1>10,
             <1>11, <1>12, <1>13, <1>14, <1>15, <1>16, <1>17, <1>18, <1>19, <1>20,
             <1>21, <1>22, <1>23, <1>24, <1>25, <1>26, <1>27
          DEF LoopStep

PodsTypeOK == pod \in [Tasks -> Pods]

LEMMA DaemonPods ==
  ASSUME PodsTypeOK, PendingPodsDaemon
  PROVE  PodsTypeOK' /\ Used' \subseteq Used /\ UNCHANGED glue
  <1> USE DEF PodsTypeOK, Pods, Used, Polling, NextPod, NextAborted, SameStatus
  <1>1. CASE ListPods BY <1>1 DEF ListPods
  <1>2. CASE Refresh BY <1>2 DEF Refresh
  <1>3. CASE Skip BY <1>3 DEF Skip
  <1>4. CASE Evict BY <1>4 DEF Evict
  <1>5. CASE FailEvicted BY <1>5 DEF FailEvicted
  <1>6. CASE ReadStatus BY <1>6 DEF ReadStatus
  <1>7. CASE UnpendLost BY <1>7 DEF UnpendLost
  <1>8. CASE RequeueLost BY <1>8 DEF RequeueLost
  <1>9. CASE AbortedTasks BY <1>9 DEF AbortedTasks
  <1>10. CASE Recheck BY <1>10 DEF Recheck
  <1>11. CASE Reread BY <1>11 DEF Reread
  <1>12. CASE DeleteAborted BY <1>12 DEF DeleteAborted
  <1>13. CASE RoundFails BY <1>13 DEF RoundFails
  <1> QED BY <1>1, <1>2, <1>3, <1>4, <1>5, <1>6, <1>7, <1>8, <1>9, <1>10,
             <1>11, <1>12, <1>13
          DEF PendingPodsDaemon

LEMMA ClusterPods ==
  ASSUME PodsTypeOK, NEW t \in Tasks,
         \/ PodStart(t) \/ Boot(t) \/ BootRefused(t) \/ RunEnds(t)
         \/ PodEnds(t) \/ PodFails(t) \/ Preempt(t) \/ Age(t)
  PROVE  PodsTypeOK' /\ Used' \subseteq Used /\ UNCHANGED <<glue, dpc, dt, todo, seen>>
  <1> USE DEF PodsTypeOK, Pods, Used, Cluster, Live, daemon
  <1>1. CASE PodStart(t) BY <1>1 DEF PodStart
  <1>2. CASE Boot(t) BY <1>2 DEF Boot
  <1>3. CASE BootRefused(t) BY <1>3 DEF BootRefused
  <1>4. CASE RunEnds(t) BY <1>4 DEF RunEnds
  <1>5. CASE PodEnds(t) BY <1>5 DEF PodEnds
  <1>6. CASE PodFails(t) BY <1>6 DEF PodFails
  <1>7. CASE Preempt(t) BY <1>7 DEF Preempt
  <1>8. CASE Age(t) BY <1>8 DEF Age
  <1> QED BY <1>1, <1>2, <1>3, <1>4, <1>5, <1>6, <1>7, <1>8

LEMMA GluePods ==
  ASSUME PodsTypeOK, Glue
  PROVE  /\ PodsTypeOK' /\ UNCHANGED daemon
         /\ \/ UNCHANGED pod /\ gpc' # "apply"
            \/ Used' \subseteq Used /\ gpc' # "apply"
            \/ CountPods
            \/ Apply /\ Used' \subseteq Used \cup {gt} /\ gpc' # "apply"
  <1> USE DEF PodsTypeOK, Pods, Used
  <1>1. CASE LoopStep BY <1>1, LoopStepFrame
  <1>2. CASE CleanupOldPods
    BY <1>2 DEF CleanupOldPods, Goto, AfterCleanup
  <1>3. CASE CountPods BY <1>3 DEF CountPods, Placing
  <1>4. CASE Apply BY <1>4 DEF Apply, Leave, Goto
  <1> QED BY <1>1, <1>2, <1>3, <1>4 DEF Glue, Cleanup, LoopStep

-----------------------------------------------------------------------------
(* The limit of the pods.                                                  *)

\* Where the glue applies a pod there is room for one: nobody else makes pods.
RoomForPod ==
    /\ PodsTypeOK
    /\ MaxPods > 0 =>
         /\ Cardinality(Used) <= MaxPods
         /\ gpc = "apply" => Cardinality(Used) < MaxPods

LEMMA UsedIsFinite ==
  /\ IsFiniteSet(Used) /\ Cardinality(Used) \in Nat
  /\ IsFiniteSet(Used') /\ Cardinality(Used') \in Nat
  <1>1. Used \subseteq Tasks /\ Used' \subseteq Tasks
    BY DEF Used
  <1> QED BY <1>1, ConstantsAssumption, FS_Subset, FS_CardinalityType
          DEF ConstantsAssumption

LEMMA FewerPods ==
  ASSUME RoomForPod, PodsTypeOK', Used' \subseteq Used,
         gpc' = gpc \/ gpc' # "apply"
  PROVE  RoomForPod'
  <1>1. Cardinality(Used') <= Cardinality(Used)
    BY UsedIsFinite, FS_Subset
  <1>2. MaxPods \in Nat
    BY ConstantsAssumption DEF ConstantsAssumption
  <1>3. (Cardinality(Used))' = Cardinality(Used')
    OBVIOUS
  <1> QED BY <1>1, <1>2, <1>3, UsedIsFinite DEF RoomForPod

LEMMA RoomForPodStep == RoomForPod /\ [Next]_vars => RoomForPod'
  <1> SUFFICES ASSUME RoomForPod, [Next]_vars PROVE RoomForPod'
    OBVIOUS
  <1> PodsTypeOK
    BY DEF RoomForPod
  <1>1. CASE User
    <2>1. UNCHANGED <<pod, glue>>
      BY <1>1 DEF User, Enqueue, Abort, UserOp
    <2> QED BY <2>1, FewerPods DEF Used, PodsTypeOK, glue
  <1>2. CASE Pod
    BY <1>2, ClusterPods, FewerPods DEF Pod, glue
  <1>3. CASE PendingPodsDaemon
    BY <1>3, DaemonPods, FewerPods DEF glue
  <1>4. CASE Glue
    <2>1. CASE UNCHANGED pod /\ gpc' # "apply"
      BY <1>4, <2>1, GluePods, FewerPods DEF Used
    <2>2. CASE Used' \subseteq Used /\ gpc' # "apply"
      BY <1>4, <2>2, GluePods, FewerPods
    <2>3. CASE CountPods
      <3>1. Used' = Used /\ PodsTypeOK'
        BY <2>3 DEF CountPods, Used, PodsTypeOK
      <3>2. MaxPods > 0 /\ gpc' = "apply" => ~ (Cardinality(Used) >= MaxPods)
        BY <2>3 DEF CountPods, Goto
      <3> QED BY <3>1, <3>2, UsedIsFinite, ConstantsAssumption
              DEF RoomForPod, ConstantsAssumption
    <2>4. CASE Apply /\ Used' \subseteq Used \cup {gt} /\ gpc' # "apply"
      <3>1. Cardinality(Used') <= Cardinality(Used) + 1
        <4>0. /\ IsFiniteSet(Used \cup {gt})
              /\ \/ Cardinality(Used \cup {gt}) = Cardinality(Used)
                 \/ Cardinality(Used \cup {gt}) = Cardinality(Used) + 1
          BY UsedIsFinite, FS_AddElement
        <4>1. /\ IsFiniteSet(Used \cup {gt})
              /\ Cardinality(Used \cup {gt}) \in Nat
              /\ Cardinality(Used \cup {gt}) <= Cardinality(Used) + 1
          BY <4>0, UsedIsFinite
        <4>2. Cardinality(Used') <= Cardinality(Used \cup {gt})
          BY <2>4, <4>1, FS_Subset
        <4> QED BY <4>1, <4>2, UsedIsFinite
      <3>2. MaxPods > 0 => Cardinality(Used) < MaxPods
        BY <2>4 DEF Apply, RoomForPod
      <3> QED BY <1>4, <2>4, <3>1, <3>2, GluePods, UsedIsFinite, ConstantsAssumption
              DEF RoomForPod, ConstantsAssumption
    <2> QED BY <1>4, <2>1, <2>2, <2>3, <2>4, GluePods
  <1>5. CASE UNCHANGED vars
    <2>1. UNCHANGED <<pod, gpc>>
      BY <1>5 DEF vars, glue
    <2> QED BY <2>1, FewerPods DEF Used, PodsTypeOK
  <1> QED BY <1>1, <1>2, <1>3, <1>4, <1>5 DEF Next

\* The glue never has more pods than max_pods_limit allows, whatever the users,
\* the cluster and the daemon do between its count and its kubectl apply.
THEOREM PodsAreLimited == Spec => []PodLimit
  <1>1. Init => RoomForPod
    <2>1. ASSUME Init PROVE Used = {} /\ PodsTypeOK /\ gpc = "top"
      BY <2>1 DEF Init, Used, PodsTypeOK, Pods
    <2> QED BY <2>1, FS_EmptySet, ConstantsAssumption DEF RoomForPod, ConstantsAssumption
  <1>2. RoomForPod => PodLimit
    BY DEF RoomForPod, PodLimit
  <1> QED BY <1>1, <1>2, RoomForPodStep, PTL DEF Spec

-----------------------------------------------------------------------------
(* Runs are left alone.                                                    *)

StatusTypeOK == status \in [Tasks -> Statuses]

StartedOK == started \in BOOLEAN

LEMMA LoopStatus ==
  ASSUME StatusTypeOK, LoopStep
  PROVE  StatusTypeOK'
  <1> USE DEF StatusTypeOK, Statuses, SetStatus, SameStatus, server, LoopOnly,
              Placing
  <1>1. CASE CleanupSkipped BY <1>1 DEF CleanupSkipped
  <1>2. CASE LookUpTasks BY <1>2 DEF LookUpTasks
  <1>3. CASE LookUpFails BY <1>3 DEF LookUpFails
  <1>4. CASE UsedPods BY <1>4 DEF UsedPods
  <1>5. CASE NoTasks BY <1>5 DEF NoTasks
  <1>6. CASE GetNextTask BY <1>6 DEF GetNextTask
  <1>7. CASE AnswerLost BY <1>7 DEF AnswerLost
  <1>8. CASE OwnerLogin BY <1>8 DEF OwnerLogin
  <1>9. CASE Crash BY <1>9 DEF Crash
  <1>10. CASE StopFirst BY <1>10 DEF StopFirst
  <1>11. CASE RemoveStuck BY <1>11 DEF RemoveStuck
  <1>12. CASE PushToPending BY <1>12 DEF PushToPending
  <1>13. CASE PushFails BY <1>13 DEF PushFails
  <1>14. CASE StopForQueue BY <1>14 DEF StopForQueue
  <1>15. CASE BackToQueue BY <1>15 DEF BackToQueue
  <1>16. CASE NoTemplate BY <1>16 DEF NoTemplate
  <1>17. CASE QuotaExceeded BY <1>17 DEF QuotaExceeded
  <1>18. CASE ApplyFails BY <1>18 DEF ApplyFails
  <1>19. CASE FailApplied BY <1>19 DEF FailApplied
  <1>20. CASE Unpend BY <1>20 DEF Unpend
  <1>21. CASE StillQueued BY <1>21 DEF StillQueued
  <1>22. CASE NotQueuedAnyMore BY <1>22 DEF NotQueuedAnyMore
  <1>23. CASE AddTask BY <1>23 DEF AddTask
  <1>24. CASE AddTaskFails BY <1>24 DEF AddTaskFails
  <1>25. CASE MoveToFront BY <1>25 DEF MoveToFront
  <1>26. CASE NotMoved BY <1>26 DEF NotMoved
  <1>27. ASSUME NEW x \in stale, FailStale(x[1], x[2]) PROVE StatusTypeOK'
    BY <1>27 DEF FailStale
  <1> QED BY <1>1, <1>2, <1>3, <1>4, <1>5, <1>6, <1>7, <1>8,
             <1>9, <1>10, <1>11, <1>12, <1>13, <1>14, <1>15,
             <1>16, <1>17, <1>18, <1>19, <1>20, <1>21,
             <1>22, <1>23, <1>24, <1>25, <1>26, <1>27
          DEF LoopStep

LEMMA GlueStatus ==
  ASSUME StatusTypeOK, Glue
  PROVE  StatusTypeOK'
  <1>1. CASE LoopStep BY <1>1, LoopStatus
  <1>2. CASE CleanupOldPods
    BY <1>2 DEF CleanupOldPods, StatusTypeOK, server
  <1>3. CASE CountPods BY <1>3 DEF CountPods, StatusTypeOK, server
  <1>4. CASE Apply BY <1>4 DEF Apply, StatusTypeOK, server
  <1> QED BY <1>1, <1>2, <1>3, <1>4 DEF Glue, Cleanup, LoopStep

\* Only Boot makes a pod run.
NoneStarts == \A t \in Tasks : pod'[t] = "running" => pod[t] = "running"

LEMMA GlueStartsNone ==
  ASSUME PodsTypeOK, Glue
  PROVE  NoneStarts
  <1> USE DEF NoneStarts, PodsTypeOK, Pods
  <1>1. CASE LoopStep BY <1>1, LoopStepFrame
  <1>2. CASE CleanupOldPods BY <1>2 DEF CleanupOldPods
  <1>3. CASE CountPods BY <1>3 DEF CountPods
  <1>4. CASE Apply BY <1>4 DEF Apply
  <1> QED BY <1>1, <1>2, <1>3, <1>4 DEF Glue, Cleanup, LoopStep

LEMMA PodStatus ==
  ASSUME StatusTypeOK, NEW t \in Tasks,
         \/ PodStart(t) \/ Boot(t) \/ BootRefused(t) \/ RunEnds(t)
         \/ PodEnds(t) \/ PodFails(t) \/ Preempt(t) \/ Age(t)
  PROVE  StatusTypeOK'
  <1> USE DEF StatusTypeOK, Statuses, SetStatus, server
  <1>1. CASE PodStart(t) BY <1>1 DEF PodStart
  <1>2. CASE Boot(t) BY <1>2 DEF Boot
  <1>3. CASE BootRefused(t) BY <1>3 DEF BootRefused
  <1>4. CASE RunEnds(t) BY <1>4 DEF RunEnds
  <1>5. CASE PodEnds(t) BY <1>5 DEF PodEnds
  <1>6. CASE PodFails(t) BY <1>6 DEF PodFails
  <1>7. CASE Preempt(t) BY <1>7 DEF Preempt
  <1>8. CASE Age(t) BY <1>8 DEF Age
  <1> QED BY <1>1, <1>2, <1>3, <1>4, <1>5, <1>6, <1>7, <1>8

\* The daemon has the pod it works on from a look at it in this round.
Acting == DaemonPCs \ {"list", "refresh", "aborted", "recheck"}

\* If the pod the daemon acts on runs, "started" says so.
LagIsKnown == dt \in Tasks /\ pod[dt] = "running" => started

LEMMA ClusterTellsLag ==
  ASSUME PodsTypeOK, StartedOK, dpc \in Acting, LagIsKnown, NEW t \in Tasks,
         \/ PodStart(t) \/ Boot(t) \/ BootRefused(t) \/ RunEnds(t)
         \/ PodEnds(t) \/ PodFails(t) \/ Preempt(t) \/ Age(t)
  PROVE  LagIsKnown'
  <1> USE DEF PodsTypeOK, Pods, Live, LagIsKnown, Cluster, daemon, StartedOK
  <1>1. CASE PodStart(t) BY <1>1 DEF PodStart
  <1>2. CASE Boot(t) BY <1>2 DEF Boot, Acting
  <1>3. CASE BootRefused(t) BY <1>3 DEF BootRefused
  <1>4. CASE RunEnds(t) BY <1>4 DEF RunEnds
  <1>5. CASE PodEnds(t) BY <1>5 DEF PodEnds
  <1>6. CASE PodFails(t) BY <1>6 DEF PodFails
  <1>7. CASE Preempt(t) BY <1>7 DEF Preempt
  <1>8. CASE Age(t) BY <1>8 DEF Age
  <1> QED BY <1>1, <1>2, <1>3, <1>4, <1>5, <1>6, <1>7, <1>8

LEMMA ClusterStarted ==
  ASSUME StartedOK, NEW t \in Tasks,
         \/ PodStart(t) \/ Boot(t) \/ BootRefused(t) \/ RunEnds(t)
         \/ PodEnds(t) \/ PodFails(t) \/ Preempt(t) \/ Age(t)
  PROVE  StartedOK'
  BY DEF StartedOK, Cluster, daemon, PodStart, Boot, BootRefused, RunEnds, PodEnds, PodFails,
         Preempt, Age

\* The daemon remembers tasks only, and if the pod of the task it deals with,
\* which it has seen pending, runs now, it took its task since then.
Calm ==
    /\ PodsTypeOK
    /\ StatusTypeOK
    /\ StartedOK
    /\ todo \subseteq Tasks /\ seen \subseteq Tasks
    /\ dpc \notin {"list", "aborted"} => dt \in Tasks
    /\ dpc \in Acting => LagIsKnown

LEMMA DaemonIsCalm ==
  ASSUME Calm, PendingPodsDaemon
  PROVE  Calm' /\ UndisturbedStep
  <1> USE DEF Calm, PodsTypeOK, Pods, StatusTypeOK, Statuses, SetStatus, StartedOK,
              SameStatus, server, UndisturbedStep, NextPod, NextAborted, Polling,
              DaemonPCs, Acting, LagIsKnown
  <1>1. CASE ListPods BY <1>1 DEF ListPods
  <1>2. CASE Refresh BY <1>2 DEF Refresh
  <1>3. CASE Skip BY <1>3 DEF Skip
  <1>4. CASE Evict BY <1>4 DEF Evict
  <1>5. CASE FailEvicted BY <1>5 DEF FailEvicted
  <1>6. CASE ReadStatus BY <1>6 DEF ReadStatus
  <1>7. CASE UnpendLost BY <1>7 DEF UnpendLost
  <1>8. CASE RequeueLost BY <1>8 DEF RequeueLost
  <1>9. CASE AbortedTasks BY <1>9 DEF AbortedTasks
  <1>10. CASE Recheck BY <1>10 DEF Recheck
  <1>11. CASE Reread BY <1>11 DEF Reread
  <1>12. CASE DeleteAborted BY <1>12 DEF DeleteAborted
  <1>13. CASE RoundFails BY <1>13 DEF RoundFails
  <1> QED BY <1>1, <1>2, <1>3, <1>4, <1>5, <1>6, <1>7, <1>8,
             <1>9, <1>10, <1>11, <1>12, <1>13
          DEF PendingPodsDaemon

LEMMA OthersAreCalm ==
  ASSUME Calm, PodsTypeOK', StatusTypeOK', StartedOK', UNCHANGED <<dpc, dt, todo, seen>>,
         dpc \in Acting => LagIsKnown'
  PROVE  Calm' /\ UndisturbedStep
  BY DEF Calm, UndisturbedStep, DaemonStep

LEMMA CalmStep ==
  ASSUME Calm, [Next]_vars
  PROVE  Calm' /\ [UndisturbedStep]_vars
  <1> PodsTypeOK /\ StatusTypeOK /\ StartedOK /\ (dpc \in Acting => LagIsKnown)
    BY DEF Calm
  <1>1. CASE User
    <2>1. UNCHANGED <<pod, daemon>> /\ StatusTypeOK'
      BY <1>1 DEF User, Enqueue, Abort, UserOp, SetStatus, StatusTypeOK, Statuses
    <2>2. PodsTypeOK' /\ StartedOK' /\ (LagIsKnown' <=> LagIsKnown)
      BY <2>1 DEF PodsTypeOK, StartedOK, LagIsKnown, daemon
    <2> QED BY <2>1, <2>2, OthersAreCalm DEF daemon
  <1>2. CASE Pod
    <2> SUFFICES ASSUME NEW t \in Tasks,
                        \/ PodStart(t) \/ Boot(t) \/ BootRefused(t) \/ RunEnds(t)
                        \/ PodEnds(t) \/ PodFails(t) \/ Preempt(t) \/ Age(t)
                 PROVE  Calm' /\ UndisturbedStep
      BY <1>2 DEF Pod
    <2>1. PodsTypeOK' /\ UNCHANGED <<dpc, dt, todo, seen>>
      BY ClusterPods
    <2>2. StatusTypeOK' /\ StartedOK'
      BY PodStatus, ClusterStarted
    <2>3. dpc \in Acting => LagIsKnown'
      BY ClusterTellsLag
    <2> QED BY <2>1, <2>2, <2>3, OthersAreCalm
  <1>3. CASE PendingPodsDaemon
    BY <1>3, DaemonIsCalm
  <1>4. CASE Glue
    <2>1. PodsTypeOK' /\ StatusTypeOK' /\ UNCHANGED daemon /\ NoneStarts
      BY <1>4, GluePods, GlueStatus, GlueStartsNone
    <2>2. StartedOK' /\ (LagIsKnown => LagIsKnown')
      BY <2>1 DEF StartedOK, LagIsKnown, NoneStarts, daemon
    <2> QED BY <2>1, <2>2, OthersAreCalm DEF daemon
  <1>5. CASE UNCHANGED vars
    <2>1. /\ PodsTypeOK' /\ StatusTypeOK' /\ StartedOK'
          /\ LagIsKnown' <=> LagIsKnown
          /\ UNCHANGED <<dpc, dt, todo, seen>>
      BY <1>5 DEF vars, server, daemon, PodsTypeOK, StatusTypeOK, StartedOK, LagIsKnown
    <2> QED BY <2>1, OthersAreCalm
  <1> QED BY <1>1, <1>2, <1>3, <1>4, <1>5 DEF Next

\* The daemon deletes the pod of a task that runs, requeues the task or fails it
\* only if that pod was pending when the daemon last looked at it in the round and
\* took its task since; whatever users, cluster and glue do meanwhile.
THEOREM RunningPodsLeftAlone == Spec => RunsUndisturbed
  <1>1. Init => Calm
    BY DEF Init, Calm, PodsTypeOK, Pods, StatusTypeOK, Statuses, Acting, StartedOK
  <1>2. Calm /\ [Next]_vars => Calm' /\ [UndisturbedStep]_vars
    BY CalmStep
  <1> QED BY <1>1, <1>2, PTL DEF Spec, RunsUndisturbed

-----------------------------------------------------------------------------
(* The queues.                                                             *)

LEMMA ContainsElement ==
  ASSUME NEW s \in Seq(Tasks), NEW t
  PROVE  Contains(s, t) <=> \E i \in 1 .. Len(s) : s[i] = t
  BY DEF Contains

LEMMA LeastPlace ==
  ASSUME NEW S \in SUBSET Nat, S # {}
  PROVE  \E i \in S : \A j \in S : i <= j
  <1>1. \A i, j \in S : j < i \/ i <= j
    OBVIOUS
  <1>2. \E i \in S : \A j \in S : <<j, i>> \notin OpToRel(<, Nat)
    BY NatLessThanWellFounded, WFMin
  <1>3. \A i, j \in S : j < i => <<j, i>> \in OpToRel(<, Nat)
    BY DEF OpToRel
  <1> QED BY <1>1, <1>2, <1>3, Zenon

\* What a queue is without an entry.
LEMMA RemoveFirstFacts ==
  ASSUME NEW s \in Seq(Tasks), NEW t
  PROVE  /\ RemoveFirst(s, t) \in Seq(Tasks)
         /\ \A u : u # t /\ Contains(s, u) => Contains(RemoveFirst(s, t), u)
         /\ s # <<>> /\ Head(s) # t
              => RemoveFirst(s, t) # <<>> /\ Head(RemoveFirst(s, t)) = Head(s)
  <1> DEFINE Places == {i \in 1 .. Len(s) : s[i] = t}
             at == CHOOSE i \in Places : \A j \in Places : i <= j
             before == SubSeq(s, 1, at - 1)
             after == SubSeq(s, at + 1, Len(s))
  <1>1. CASE ~ Contains(s, t)
    <2>1. RemoveFirst(s, t) = s
      BY <1>1 DEF RemoveFirst, Contains
    <2> QED BY <2>1
  <1>2. CASE Contains(s, t)
    <2>1. Places # {} /\ Places \subseteq Nat
      BY <1>2, LenProperties DEF Contains
    <2>2. \E i \in Places : \A j \in Places : i <= j
      BY <2>1, LeastPlace
    <2>3. at \in Places
      BY <2>2
    <2>4. RemoveFirst(s, t) = before \o after
      BY <1>2 DEF RemoveFirst, RemoveAt, SelectInSeq, Min, Contains
    <2> HIDE DEF at
    <2>5. Len(s) \in Nat /\ at \in 1 .. Len(s) /\ s[at] = t
      BY <2>3, LenProperties
    <2>6. \A i \in 1 .. Len(s) : s[i] \in Tasks
      BY ElementOfSeq
    <2>7. /\ before \in Seq(Tasks) /\ Len(before) = at - 1
          /\ \A i \in 1 .. at - 1 : before[i] = s[i]
      <3>1. \A i \in 1 .. at - 1 : s[i] \in Tasks
        BY <2>5, <2>6
      <3> QED BY <2>5, <3>1, SubSeqProperties
    <2>8. /\ after \in Seq(Tasks) /\ Len(after) = Len(s) - at
          /\ \A i \in 1 .. Len(s) - at : after[i] = s[at + i]
      <3>1. \A i \in at + 1 .. Len(s) : s[i] \in Tasks
        BY <2>5, <2>6
      <3>2. /\ after \in Seq(Tasks)
            /\ Len(after) = IF at + 1 <= Len(s) THEN Len(s) - (at + 1) + 1 ELSE 0
            /\ \A i \in 1 .. Len(s) - (at + 1) + 1 : after[i] = s[at + 1 + i - 1]
        BY <2>5, <3>1, SubSeqProperties
      <3> QED BY <2>5, <3>2
    <2> HIDE DEF before, after
    <2>9. /\ before \o after \in Seq(Tasks)
          /\ Len(before \o after) = Len(s) - 1
          /\ \A i \in 1 .. Len(s) - 1 :
               (before \o after)[i] = IF i <= at - 1 THEN before[i] ELSE after[i - (at - 1)]
      <3>1. /\ before \o after \in Seq(Tasks)
            /\ Len(before \o after) = Len(before) + Len(after)
            /\ \A i \in 1 .. Len(before) + Len(after) :
                 (before \o after)[i] =
                    IF i <= Len(before) THEN before[i] ELSE after[i - Len(before)]
        BY <2>7, <2>8, ConcatProperties
      <3>2. Len(before) + Len(after) = Len(s) - 1
        BY <2>5, <2>7, <2>8
      <3> QED BY <2>7, <3>1, <3>2
    <2>10. ASSUME NEW u, u # t, Contains(s, u) PROVE Contains(before \o after, u)
      <3>1. PICK i \in 1 .. Len(s) : s[i] = u
        BY <2>10 DEF Contains
      <3>2. CASE i < at
        <4>1. i \in 1 .. Len(s) - 1 /\ i <= at - 1
          BY <2>5, <3>2
        <4>2. (before \o after)[i] = u
          BY <2>5, <2>7, <2>9, <3>1, <4>1
        <4> QED BY <2>9, <4>1, <4>2 DEF Contains
      <3>3. CASE i > at
        <4>1. i - 1 \in 1 .. Len(s) - 1 /\ ~ (i - 1 <= at - 1)
          BY <2>5, <3>3
        <4>2. (before \o after)[i - 1] = after[i - 1 - (at - 1)]
          BY <2>9, <4>1
        <4>3. after[i - at] = s[at + (i - at)]
          BY <2>5, <2>8, <3>3
        <4>4. (before \o after)[i - 1] = u
          BY <2>5, <3>1, <4>2, <4>3
        <4> QED BY <2>9, <4>1, <4>4 DEF Contains
      <3>4. i # at
        BY <2>5, <2>10, <3>1
      <3> QED BY <2>5, <3>2, <3>3, <3>4
    <2>11. ASSUME s # <<>>, Head(s) # t
           PROVE  before \o after # <<>> /\ Head(before \o after) = Head(s)
      <3>1. Head(s) = s[1] /\ at # 1
        BY <2>5, <2>11
      <3>2. Len(before \o after) > 0 /\ (before \o after)[1] = s[1]
        BY <2>5, <2>7, <2>9, <3>1
      <3>3. before \o after # <<>>
        BY <2>9, <3>2, EmptySeq
      <3> QED BY <2>9, <3>1, <3>2, <3>3
    <2> QED BY <2>4, <2>9, <2>10, <2>11
  <1> QED BY <1>1, <1>2

QueuesOK == queue \in [Queues -> Seq(Tasks)]

\* The task that heads the queue still does.
HeadStays(q) == queue'[q] # <<>> /\ Head(queue'[q]) = Head(queue[q])

LEMMA EntryAdded ==
  ASSUME QueuesOK, NEW q \in Queues, NEW t \in Tasks,
         queue' = [queue EXCEPT ![q] = Append(@, t)]
  PROVE  /\ QueuesOK' /\ Waits(t)'
         /\ \A u : Waits(u) => Waits(u)'
         /\ \A p \in Queues : queue[p] # <<>> => HeadStays(p)
  <1> DEFINE s == queue[q]
  <1>1. s \in Seq(Tasks) /\ queue'[q] = Append(s, t)
    BY DEF QueuesOK
  <1>2. \A p \in Queues \ {q} : queue'[p] = queue[p]
    BY DEF QueuesOK
  <1>3. /\ Append(s, t) \in Seq(Tasks) /\ Append(s, t) # <<>>
        /\ Len(Append(s, t)) = Len(s) + 1 /\ Len(s) \in Nat
        /\ \A i \in 1 .. Len(s) : Append(s, t)[i] = s[i]
        /\ Append(s, t)[Len(s) + 1] = t
        /\ Head(Append(s, t)) = IF s = <<>> THEN t ELSE Head(s)
    BY <1>1, AppendProperties, HeadTailAppend, LenProperties
  <1>4. QueuesOK'
    BY <1>1, <1>2, <1>3 DEF QueuesOK
  <1>5. Contains(queue'[q], t) /\ \A u : Contains(s, u) => Contains(queue'[q], u)
    BY <1>1, <1>3 DEF Contains
  <1>6. Waits(t)'
    BY <1>5 DEF Waits
  <1>7. ASSUME NEW u, Waits(u) PROVE Waits(u)'
    <2>1. PICK p \in Queues : Contains(queue[p], u)
      BY <1>7 DEF Waits
    <2>2. Contains(queue'[p], u)
      BY <1>2, <1>5, <2>1
    <2> QED BY <2>2 DEF Waits
  <1>8. \A p \in Queues : queue[p] # <<>> => HeadStays(p)
    BY <1>1, <1>2, <1>3 DEF HeadStays
  <1> QED BY <1>4, <1>6, <1>7, <1>8

LEMMA EntryRemoved ==
  ASSUME QueuesOK, NEW t, queue' = Without(t)
  PROVE  /\ QueuesOK'
         /\ \A u : u # t /\ Waits(u) => Waits(u)'
         /\ \A p \in Queues : queue[p] # <<>> /\ Head(queue[p]) # t => HeadStays(p)
  <1>1. \A p \in Queues : queue[p] \in Seq(Tasks) /\ queue'[p] = RemoveFirst(queue[p], t)
    BY DEF QueuesOK, Without
  <1>2. QueuesOK'
    BY <1>1, RemoveFirstFacts DEF QueuesOK, Without
  <1>3. ASSUME NEW u, u # t, Waits(u) PROVE Waits(u)'
    <2>1. PICK p \in Queues : Contains(queue[p], u)
      BY <1>3 DEF Waits
    <2>2. Contains(queue'[p], u)
      BY <1>1, <1>3, <2>1, RemoveFirstFacts
    <2> QED BY <2>2 DEF Waits
  <1>4. \A p \in Queues : queue[p] # <<>> /\ Head(queue[p]) # t => HeadStays(p)
    BY <1>1, RemoveFirstFacts DEF HeadStays
  <1> QED BY <1>2, <1>3, <1>4

LEMMA EntryPopped ==
  ASSUME QueuesOK, NEW q \in Queues, queue[q] # <<>>,
         queue' = [queue EXCEPT ![q] = Tail(@)]
  PROVE  /\ QueuesOK' /\ Head(queue[q]) \in Tasks
         /\ \A u : u # Head(queue[q]) /\ Waits(u) => Waits(u)'
         /\ \A p \in Queues \ {q} : queue'[p] = queue[p]
  <1> DEFINE s == queue[q]
  <1>1. s \in Seq(Tasks) /\ queue'[q] = Tail(s) /\ s # <<>>
    BY DEF QueuesOK
  <1>2. \A p \in Queues \ {q} : queue'[p] = queue[p]
    BY DEF QueuesOK
  <1>3. /\ Head(s) \in Tasks /\ Head(s) = s[1]
        /\ Tail(s) \in Seq(Tasks) /\ Len(Tail(s)) = Len(s) - 1
        /\ \A i \in 1 .. Len(Tail(s)) : Tail(s)[i] = s[i + 1]
        /\ Len(s) \in Nat
    BY <1>1, HeadTailProperties, LenProperties
  <1>4. QueuesOK'
    BY <1>1, <1>2, <1>3 DEF QueuesOK
  <1>5. ASSUME NEW u, u # Head(s), Contains(s, u) PROVE Contains(Tail(s), u)
    <2>1. PICK i \in 1 .. Len(s) : s[i] = u
      BY <1>5 DEF Contains
    <2>2. i - 1 \in 1 .. Len(Tail(s))
      BY <1>3, <1>5, <2>1
    <2>3. Tail(s)[i - 1] = s[(i - 1) + 1]
      BY <1>3, <2>2
    <2>4. i \in Int /\ (i - 1) + 1 = i
      BY <1>3, <2>1
    <2>5. Tail(s)[i - 1] = u
      BY <2>1, <2>3, <2>4
    <2> QED BY <2>2, <2>5 DEF Contains
  <1>6. ASSUME NEW u, u # Head(s), Waits(u) PROVE Waits(u)'
    <2>1. PICK p \in Queues : Contains(queue[p], u)
      BY <1>6 DEF Waits
    <2>2. Contains(queue'[p], u)
      BY <1>1, <1>2, <1>5, <1>6, <2>1
    <2> QED BY <2>2 DEF Waits
  <1> QED BY <1>2, <1>3, <1>4, <1>6

LEMMA EntryToFront ==
  ASSUME QueuesOK, NEW q \in Queues, NEW t \in Tasks,
         queue' = [queue EXCEPT ![q] = <<t>> \o RemoveFirst(@, t)]
  PROVE  /\ QueuesOK' /\ Waits(t)'
         /\ \A u : Waits(u) => Waits(u)'
         /\ queue'[q] # <<>> /\ Head(queue'[q]) = t
         /\ \A p \in Queues \ {q} : queue'[p] = queue[p]
  <1> DEFINE s == queue[q]
             rest == RemoveFirst(s, t)
             new == <<t>> \o rest
  <1>1. s \in Seq(Tasks) /\ queue'[q] = new
    BY DEF QueuesOK
  <1>2. \A p \in Queues \ {q} : queue'[p] = queue[p]
    BY DEF QueuesOK
  <1>3. rest \in Seq(Tasks) /\ \A u : u # t /\ Contains(s, u) => Contains(rest, u)
    BY <1>1, RemoveFirstFacts
  <1> HIDE DEF rest
  <1>4. <<t>> \in Seq(Tasks) /\ Len(<<t>>) = 1 /\ Len(rest) \in Nat
    BY <1>3, LenProperties
  <1>5. /\ new \in Seq(Tasks) /\ Len(new) = 1 + Len(rest)
        /\ \A i \in 1 .. 1 + Len(rest) : new[i] = IF i <= 1 THEN t ELSE rest[i - 1]
    <2>1. /\ new \in Seq(Tasks) /\ Len(new) = Len(<<t>>) + Len(rest)
          /\ \A i \in 1 .. Len(<<t>>) + Len(rest) :
               new[i] = IF i <= Len(<<t>>) THEN <<t>>[i] ELSE rest[i - Len(<<t>>)]
      BY <1>3, <1>4, ConcatProperties
    <2> QED BY <1>4, <2>1
  <1> HIDE DEF new
  <1>6. new # <<>> /\ Head(new) = t /\ Contains(new, t)
    <2>1. new[1] = t /\ 1 \in 1 .. Len(new)
      BY <1>4, <1>5
    <2>2. new # <<>>
      BY <1>5, <2>1, EmptySeq
    <2> QED BY <1>5, <2>1, <2>2 DEF Contains
  <1>7. ASSUME NEW u, Contains(s, u), u # t PROVE Contains(new, u)
    <2>1. PICK i \in 1 .. Len(rest) : rest[i] = u
      BY <1>3, <1>7 DEF Contains
    <2>2. i + 1 \in 1 .. Len(new) /\ ~ (i + 1 <= 1)
      BY <1>4, <1>5
    <2>3. new[i + 1] = rest[(i + 1) - 1]
      BY <1>5, <2>2
    <2>4. i \in Int /\ (i + 1) - 1 = i
      BY <1>4, <2>1
    <2>5. new[i + 1] = u
      BY <2>1, <2>3, <2>4
    <2> QED BY <2>2, <2>5 DEF Contains
  <1>8. QueuesOK'
    BY <1>1, <1>2, <1>5 DEF QueuesOK
  <1>9. Waits(t)'
    BY <1>1, <1>6 DEF Waits
  <1>10. ASSUME NEW u, Waits(u) PROVE Waits(u)'
    <2>1. PICK p \in Queues : Contains(queue[p], u)
      BY <1>10 DEF Waits
    <2>2. Contains(queue'[p], u)
      BY <1>1, <1>2, <1>6, <1>7, <2>1
    <2> QED BY <2>2 DEF Waits
  <1> QED BY <1>1, <1>2, <1>6, <1>8, <1>9, <1>10

-----------------------------------------------------------------------------
(* Types.                                                                  *)

GluePCs == {"top", "clean", "look", "abort", "next", "pulled", "stop", "remove",
            "push", "count", "back_stop", "back", "apply", "undo", "unpend",
            "reread", "readd", "front"}

\* The glue has no task in hand.
Between == {"top", "clean", "look", "abort", "next"}

ServerOK ==
    /\ StatusTypeOK
    /\ parked \in [Tasks -> BOOLEAN] /\ old \in [Tasks -> BOOLEAN]
    /\ QueuesOK /\ pending \subseteq Tasks
    /\ waits \subseteq Tasks \X Queues

LoopOK ==
    /\ gpc \in GluePCs /\ gq \in 0 .. LastQueue /\ gt \in Tasks \cup {NoTask}
    /\ gone \subseteq Tasks
    /\ stale \subseteq Tasks \X {"queued", "in_progress"}

DaemonOK ==
    /\ dpc \in DaemonPCs /\ dt \in Tasks \cup {NoTask}
    /\ todo \subseteq Tasks /\ seen \subseteq Tasks
    /\ dpc \notin {"list", "aborted"} => dt \in Tasks
    /\ StartedOK

BookOK ==
    /\ wish \in [Tasks -> Wishes] /\ excuse \in [Tasks -> Excuses]
    /\ ops \in Nat /\ faults \in Nat

TypeOK == PodsTypeOK /\ ServerOK /\ LoopOK /\ DaemonOK /\ BookOK

\* What the glue has in hand fits where it is.
Control ==
    /\ gpc \in Between <=> gt = NoTask
    /\ gpc \notin {"top", "clean", "look", "abort"} => gq # 0
    /\ gpc # "look" => gone = {}
    /\ gpc # "abort" => stale = {}

TypesKept == TypeOK' /\ Control'

LEMMA ExcuseTyped ==
  ASSUME BookOK
  PROVE  \A t : \A k \in Excuses : [excuse EXCEPT ![t] = k] \in [Tasks -> Excuses]
  BY DEF BookOK

LEMMA ExcusesAre ==
  {"answer", "push", "crash", "template", "place", "agent", "unread", "recent",
   "evict", "leftover", "vanished", "late"} \subseteq Excuses
  BY DEF Excuses

LEMMA ServerStays ==
  ASSUME ServerOK, UNCHANGED server
  PROVE  ServerOK'
  BY DEF ServerOK, StatusTypeOK, QueuesOK, server

LEMMA LoopStays ==
  ASSUME LoopOK, Control, UNCHANGED glue
  PROVE  LoopOK' /\ Control'
  BY DEF LoopOK, Control, glue

LEMMA DaemonStays ==
  ASSUME DaemonOK, UNCHANGED daemon
  PROVE  DaemonOK'
  BY DEF DaemonOK, StartedOK, daemon

LEMMA UserTypes ==
  ASSUME TypeOK, Control, User
  PROVE  TypesKept
  <1> USE DEF TypesKept, TypeOK, ServerOK, LoopOK, DaemonOK, BookOK, Control, PodsTypeOK,
              StatusTypeOK, StartedOK, Statuses, Wishes, Excuses, SetStatus, Excuse, UserOp,
              glue, daemon
  <1>1. ASSUME NEW t \in Tasks, Enqueue(t) PROVE TypesKept
    <2>1. QueuesOK'
      BY <1>1, EntryAdded DEF Enqueue
    <2> QED BY <1>1, <2>1 DEF Enqueue, QueuesOK
  <1>2. ASSUME NEW t \in Tasks, Abort(t) PROVE TypesKept
    <2>1. QueuesOK' /\ pending' \subseteq Tasks /\ waits' \subseteq Tasks \X Queues
      BY <1>2, EntryRemoved DEF Abort, LeaveQueue, StayQueued, QueuesOK
    <2> QED BY <1>2, <2>1 DEF Abort
  <1> QED BY <1>1, <1>2 DEF User

LEMMA ClusterTypes ==
  ASSUME TypeOK, Control, Pod
  PROVE  TypesKept
  <1> SUFFICES ASSUME NEW t \in Tasks,
                      \/ PodStart(t) \/ Boot(t) \/ BootRefused(t) \/ RunEnds(t)
                      \/ PodEnds(t) \/ PodFails(t) \/ Preempt(t) \/ Age(t)
               PROVE  TypesKept
    BY DEF Pod
  <1> PodsTypeOK /\ ServerOK /\ LoopOK /\ DaemonOK /\ BookOK
    BY DEF TypeOK
  <1>1. UNCHANGED <<glue, dpc, dt, todo, seen>> /\ PodsTypeOK'
    BY ClusterPods
  <1>3. DaemonOK'
    BY <1>1, ClusterStarted DEF DaemonOK
  <1>2. BookOK' /\ ServerOK'
    <2> USE DEF BookOK, Excuse, Excuses, Fault, NoFault, book, Cluster, ServerOK,
                StatusTypeOK, Statuses, SetStatus, server, QueuesOK
    <2>1. CASE PodStart(t) BY <2>1 DEF PodStart
    <2>2. CASE Boot(t)
      <3>1. QueuesOK' /\ pending' \subseteq Tasks /\ waits' \subseteq Tasks \X Queues
        BY <2>2, EntryRemoved DEF Boot, LeaveQueue
      <3> QED BY <2>2, <3>1 DEF Boot
    <2>3. CASE BootRefused(t) BY <2>3 DEF BootRefused
    <2>4. CASE RunEnds(t) BY <2>4 DEF RunEnds
    <2>5. CASE PodEnds(t) BY <2>5 DEF PodEnds
    <2>6. CASE PodFails(t) BY <2>6 DEF PodFails
    <2>7. CASE Preempt(t) BY <2>7 DEF Preempt
    <2>8. CASE Age(t) BY <2>8 DEF Age
    <2> QED BY <2>1, <2>2, <2>3, <2>4, <2>5, <2>6, <2>7, <2>8
  <1> QED BY <1>1, <1>2, <1>3, LoopStays DEF TypesKept, TypeOK

LEMMA DaemonTypes ==
  ASSUME TypeOK, Control, PendingPodsDaemon
  PROVE  TypesKept
  <1> PodsTypeOK /\ ServerOK /\ LoopOK /\ DaemonOK /\ BookOK
    BY DEF TypeOK
  <1>1. UNCHANGED glue /\ PodsTypeOK'
    BY DaemonPods
  <1>2. ServerOK'
    <2> USE DEF Polling, ServerOK, StatusTypeOK, Statuses, SetStatus, SameStatus, server,
                QueuesOK, DaemonOK, DaemonPCs
    <2>1. CASE ListPods BY <2>1 DEF ListPods
    <2>2. CASE Refresh BY <2>2 DEF Refresh
    <2>3. CASE Skip BY <2>3 DEF Skip
    <2>4. CASE Evict BY <2>4 DEF Evict
    <2>5. CASE FailEvicted BY <2>5 DEF FailEvicted
    <2>6. CASE ReadStatus BY <2>6 DEF ReadStatus
    <2>7. CASE UnpendLost BY <2>7 DEF UnpendLost
    <2>8. CASE RequeueLost BY <2>8 DEF RequeueLost
    <2>9. CASE AbortedTasks BY <2>9 DEF AbortedTasks
    <2>10. CASE Recheck BY <2>10 DEF Recheck
    <2>11. CASE Reread BY <2>11 DEF Reread
    <2>12. CASE DeleteAborted BY <2>12 DEF DeleteAborted
    <2>13. CASE RoundFails BY <2>13 DEF RoundFails
    <2> QED BY <2>1, <2>2, <2>3, <2>4, <2>5, <2>6, <2>7, <2>8, <2>9, <2>10, <2>11, <2>12,
               <2>13
            DEF PendingPodsDaemon
  <1>3. DaemonOK'
    <2> USE DEF DaemonOK, StartedOK, DaemonPCs, NextPod, NextAborted
    <2>1. CASE ListPods BY <2>1 DEF ListPods
    <2>2. CASE Refresh BY <2>2 DEF Refresh
    <2>3. CASE Skip BY <2>3 DEF Skip
    <2>4. CASE Evict BY <2>4 DEF Evict
    <2>5. CASE FailEvicted BY <2>5 DEF FailEvicted
    <2>6. CASE ReadStatus BY <2>6 DEF ReadStatus
    <2>7. CASE UnpendLost BY <2>7 DEF UnpendLost
    <2>8. CASE RequeueLost BY <2>8 DEF RequeueLost
    <2>9. CASE AbortedTasks BY <2>9 DEF AbortedTasks
    <2>10. CASE Recheck BY <2>10 DEF Recheck
    <2>11. CASE Reread BY <2>11 DEF Reread
    <2>12. CASE DeleteAborted BY <2>12 DEF DeleteAborted
    <2>13. CASE RoundFails BY <2>13 DEF RoundFails
    <2> QED BY <2>1, <2>2, <2>3, <2>4, <2>5, <2>6, <2>7, <2>8, <2>9, <2>10, <2>11, <2>12,
               <2>13
            DEF PendingPodsDaemon
  <1>4. BookOK'
    <2> USE ConstantsAssumption, ExcuseTyped, ExcusesAre
            DEF BookOK, Excuse, Fault, NoFault, SetStatus, SameStatus, book, Polling
    <2>1. CASE ListPods BY <2>1 DEF ListPods
    <2>2. CASE Refresh BY <2>2 DEF Refresh
    <2>3. CASE Skip BY <2>3 DEF Skip
    <2>4. CASE Evict BY <2>4 DEF Evict
    <2>5. CASE FailEvicted
      <3>1. UNCHANGED excuse \/ Excuse(dt, "evict")
        BY <2>5 DEF FailEvicted
      <3>2. excuse' \in [Tasks -> Excuses]
        BY <3>1
      <3> QED BY <2>5, <3>2 DEF FailEvicted
    <2>6. CASE ReadStatus BY <2>6 DEF ReadStatus
    <2>7. CASE UnpendLost BY <2>7 DEF UnpendLost
    <2>8. CASE RequeueLost
      <3>1. UNCHANGED excuse \/ Excuse(dt, "late")
        BY <2>8 DEF RequeueLost
      <3>2. excuse' \in [Tasks -> Excuses]
        BY <3>1
      <3> QED BY <2>8, <3>2 DEF RequeueLost
    <2>9. CASE AbortedTasks BY <2>9 DEF AbortedTasks
    <2>10. CASE Recheck BY <2>10 DEF Recheck
    <2>11. CASE Reread BY <2>11 DEF Reread
    <2>12. CASE DeleteAborted BY <2>12 DEF DeleteAborted
    <2>13. CASE RoundFails BY <2>13 DEF RoundFails
    <2> QED BY <2>1, <2>2, <2>3, <2>4, <2>5, <2>6, <2>7, <2>8, <2>9, <2>10, <2>11, <2>12,
               <2>13
            DEF PendingPodsDaemon
  <1> QED BY <1>1, <1>2, <1>3, <1>4, LoopStays DEF TypesKept, TypeOK

LEMMA GlueTypes ==
  ASSUME TypeOK, Control, Glue
  PROVE  TypesKept
  <1> PodsTypeOK /\ ServerOK /\ LoopOK /\ DaemonOK /\ BookOK
    BY DEF TypeOK
  <1>1. PodsTypeOK' /\ UNCHANGED daemon
    BY GluePods
  <1>2. gpc \notin Between => gt \in Tasks /\ gq \in Queues
    BY ConstantsAssumption DEF LoopOK, Control, Between, Queues
  <1>3. gpc = "next" => gq \in Queues
    BY ConstantsAssumption DEF LoopOK, Control, Queues
  <1>4. LoopOK' /\ Control'
    <2> USE ConstantsAssumption
            DEF LoopOK, Control, Between, GluePCs, Goto, Leave, NextQueue, AfterCleanup,
                glue, Placing, LoopOnly
    <2>1. CASE CleanupSkipped BY <2>1 DEF CleanupSkipped
    <2>2. CASE LookUpTasks BY <2>2 DEF LookUpTasks, IsStale
    <2>3. CASE LookUpFails BY <2>3 DEF LookUpFails
    <2>4. CASE UsedPods BY <2>4 DEF UsedPods
    <2>5. CASE NoTasks BY <2>5 DEF NoTasks
    <2>6. CASE GetNextTask
      <3>1. Head(queue[gq]) \in Tasks
        BY <1>3, <2>6, EntryPopped DEF GetNextTask, ServerOK
      <3> QED BY <1>3, <2>6, <3>1 DEF GetNextTask
    <2>7. CASE AnswerLost BY <2>7 DEF AnswerLost
    <2>8. CASE OwnerLogin
      <3>1. gpc = "pulled" /\ gone = {} /\ stale = {} /\ gq \in Queues
        BY <1>2, <2>8 DEF OwnerLogin
      <3>2. UNCHANGED <<gone, stale>>
        BY <2>8 DEF OwnerLogin
      <3>3. \/ gpc' \in {"stop", "remove"} /\ UNCHANGED <<gq, gt>>
            \/ gt' = NoTask /\ NextQueue
        BY <2>8 DEF OwnerLogin
      <3> QED BY <3>1, <3>2, <3>3 DEF Queues
    <2>9. CASE Crash BY <2>9 DEF Crash
    <2>10. CASE StopFirst BY <2>10 DEF StopFirst
    <2>11. CASE RemoveStuck BY <2>11 DEF RemoveStuck
    <2>12. CASE PushToPending BY <2>12 DEF PushToPending
    <2>13. CASE PushFails BY <2>13 DEF PushFails
    <2>14. CASE CountPods BY <2>14 DEF CountPods
    <2>15. CASE StopForQueue BY <2>15 DEF StopForQueue
    <2>16. CASE BackToQueue BY <2>16 DEF BackToQueue
    <2>17. CASE NoTemplate BY <2>17 DEF NoTemplate
    <2>18. CASE Apply BY <2>18 DEF Apply
    <2>19. CASE QuotaExceeded BY <2>19 DEF QuotaExceeded
    <2>20. CASE ApplyFails BY <2>20 DEF ApplyFails
    <2>21. CASE FailApplied BY <2>21 DEF FailApplied
    <2>22. CASE Unpend BY <2>22 DEF Unpend
    <2>23. CASE StillQueued BY <2>23 DEF StillQueued
    <2>24. CASE NotQueuedAnyMore BY <2>24 DEF NotQueuedAnyMore
    <2>25. CASE AddTask BY <2>25 DEF AddTask
    <2>26. CASE AddTaskFails BY <2>26 DEF AddTaskFails
    <2>27. CASE MoveToFront BY <2>27 DEF MoveToFront
    <2>28. CASE NotMoved BY <2>28 DEF NotMoved
    <2>29. CASE CleanupOldPods BY <2>29 DEF CleanupOldPods
    <2>30. ASSUME NEW x \in stale, FailStale(x[1], x[2]) PROVE LoopOK' /\ Control'
      BY <2>30 DEF FailStale
    <2> QED BY <2>1, <2>2, <2>3, <2>4, <2>5, <2>6, <2>7, <2>8, <2>9, <2>10,
               <2>11, <2>12, <2>13, <2>14, <2>15, <2>16, <2>17, <2>18,
               <2>19, <2>20, <2>21, <2>22, <2>23, <2>24, <2>25, <2>26,
               <2>27, <2>28, <2>29, <2>30
            DEF Glue, Cleanup
  <1>5. QueuesOK' /\ pending' \subseteq Tasks /\ waits' \subseteq Tasks \X Queues
    <2> USE DEF ServerOK, server, LoopOnly, Placing, QueuesOK, Between
    <2>1. CASE CleanupSkipped BY <2>1 DEF CleanupSkipped
    <2>2. CASE LookUpTasks BY <2>2 DEF LookUpTasks
    <2>3. CASE LookUpFails BY <2>3 DEF LookUpFails
    <2>4. CASE UsedPods BY <2>4 DEF UsedPods
    <2>5. CASE NoTasks BY <2>5 DEF NoTasks
    <2>6. CASE GetNextTask BY <1>3, <2>6, EntryPopped DEF GetNextTask
    <2>7. CASE AnswerLost BY <1>3, <2>7, EntryPopped DEF AnswerLost
    <2>8. CASE OwnerLogin BY <1>2, <2>8, EntryRemoved DEF OwnerLogin, LeaveQueue, StayQueued
    <2>9. CASE Crash BY <2>9 DEF Crash
    <2>10. CASE StopFirst BY <2>10 DEF StopFirst
    <2>11. CASE RemoveStuck BY <2>11 DEF RemoveStuck
    <2>12. CASE PushToPending BY <1>2, <2>12 DEF PushToPending
    <2>13. CASE PushFails BY <2>13 DEF PushFails
    <2>14. CASE CountPods BY <2>14 DEF CountPods
    <2>15. CASE StopForQueue BY <2>15 DEF StopForQueue
    <2>16. CASE BackToQueue BY <1>2, <2>16, EntryAdded DEF BackToQueue
    <2>17. CASE NoTemplate BY <2>17 DEF NoTemplate
    <2>18. CASE Apply BY <2>18 DEF Apply
    <2>19. CASE QuotaExceeded BY <2>19 DEF QuotaExceeded
    <2>20. CASE ApplyFails BY <2>20 DEF ApplyFails
    <2>21. CASE FailApplied BY <2>21 DEF FailApplied
    <2>22. CASE Unpend BY <2>22 DEF Unpend
    <2>23. CASE StillQueued BY <2>23 DEF StillQueued
    <2>24. CASE NotQueuedAnyMore BY <2>24 DEF NotQueuedAnyMore
    <2>25. CASE AddTask BY <1>2, <2>25, EntryAdded DEF AddTask
    <2>26. CASE AddTaskFails BY <2>26 DEF AddTaskFails
    <2>27. CASE MoveToFront
      <3>1. gt \in Tasks /\ gq \in Queues /\ pending' = pending
        BY <1>2, <2>27 DEF MoveToFront
      <3>2. CASE Contains(queue[gq], gt)
        <4>1. /\ queue' = [queue EXCEPT ![gq] = <<gt>> \o RemoveFirst(@, gt)]
              /\ waits' = waits \cup {<<gt, gq>>}
          BY <2>27, <3>2 DEF MoveToFront
        <4>2. QueuesOK'
          BY <3>1, <4>1, EntryToFront DEF ServerOK
        <4> QED BY <3>1, <4>1, <4>2 DEF ServerOK
      <3>3. CASE ~ Contains(queue[gq], gt)
        BY <2>27, <3>1, <3>3 DEF MoveToFront
      <3> QED BY <3>2, <3>3
    <2>28. CASE NotMoved BY <2>28 DEF NotMoved
    <2>29. CASE CleanupOldPods BY <2>29 DEF CleanupOldPods
    <2>30. ASSUME NEW x \in stale, FailStale(x[1], x[2])
           PROVE  QueuesOK' /\ pending' \subseteq Tasks /\ waits' \subseteq Tasks \X Queues
      BY <2>30, EntryRemoved DEF FailStale, LeaveQueue, StayQueued
    <2> QED BY <2>1, <2>2, <2>3, <2>4, <2>5, <2>6, <2>7, <2>8, <2>9, <2>10,
               <2>11, <2>12, <2>13, <2>14, <2>15, <2>16, <2>17, <2>18,
               <2>19, <2>20, <2>21, <2>22, <2>23, <2>24, <2>25, <2>26,
               <2>27, <2>28, <2>29, <2>30
            DEF Glue, Cleanup
  <1>6. StatusTypeOK' /\ parked' \in [Tasks -> BOOLEAN] /\ old' \in [Tasks -> BOOLEAN]
    <2>1. StatusTypeOK'
      BY GlueStatus DEF ServerOK
    <2> USE DEF ServerOK, server, LoopOnly, Placing, SetStatus, SameStatus
    <2>2. CASE CleanupSkipped BY <2>1, <2>2 DEF CleanupSkipped
    <2>3. CASE LookUpTasks BY <2>1, <2>3 DEF LookUpTasks
    <2>4. CASE LookUpFails BY <2>1, <2>4 DEF LookUpFails
    <2>5. CASE UsedPods BY <2>1, <2>5 DEF UsedPods
    <2>6. CASE NoTasks BY <2>1, <2>6 DEF NoTasks
    <2>7. CASE GetNextTask BY <2>1, <2>7 DEF GetNextTask
    <2>8. CASE AnswerLost BY <2>1, <2>8 DEF AnswerLost
    <2>9. CASE OwnerLogin BY <2>1, <2>9 DEF OwnerLogin
    <2>10. CASE Crash BY <2>1, <2>10 DEF Crash
    <2>11. CASE StopFirst BY <2>1, <2>11 DEF StopFirst
    <2>12. CASE RemoveStuck BY <2>1, <2>12 DEF RemoveStuck
    <2>13. CASE PushToPending BY <2>1, <2>13 DEF PushToPending
    <2>14. CASE PushFails BY <2>1, <2>14 DEF PushFails
    <2>15. CASE CountPods BY <2>1, <2>15 DEF CountPods
    <2>16. CASE StopForQueue BY <2>1, <2>16 DEF StopForQueue
    <2>17. CASE BackToQueue BY <2>1, <2>17 DEF BackToQueue
    <2>18. CASE NoTemplate BY <2>1, <2>18 DEF NoTemplate
    <2>19. CASE Apply BY <2>1, <2>19 DEF Apply
    <2>20. CASE QuotaExceeded BY <2>1, <2>20 DEF QuotaExceeded
    <2>21. CASE ApplyFails BY <2>1, <2>21 DEF ApplyFails
    <2>22. CASE FailApplied BY <2>1, <2>22 DEF FailApplied
    <2>23. CASE Unpend BY <2>1, <2>23 DEF Unpend
    <2>24. CASE StillQueued BY <2>1, <2>24 DEF StillQueued
    <2>25. CASE NotQueuedAnyMore BY <2>1, <2>25 DEF NotQueuedAnyMore
    <2>26. CASE AddTask BY <2>1, <2>26 DEF AddTask
    <2>27. CASE AddTaskFails BY <2>1, <2>27 DEF AddTaskFails
    <2>28. CASE MoveToFront BY <2>1, <2>28 DEF MoveToFront
    <2>29. CASE NotMoved BY <2>1, <2>29 DEF NotMoved
    <2>30. CASE CleanupOldPods BY <2>1, <2>30 DEF CleanupOldPods
    <2>31. ASSUME NEW x \in stale, FailStale(x[1], x[2])
           PROVE  parked' \in [Tasks -> BOOLEAN] /\ old' \in [Tasks -> BOOLEAN]
      BY <2>31 DEF FailStale
    <2> QED BY <2>1, <2>2, <2>3, <2>4, <2>5, <2>6, <2>7, <2>8, <2>9, <2>10,
               <2>11, <2>12, <2>13, <2>14, <2>15, <2>16, <2>17, <2>18,
               <2>19, <2>20, <2>21, <2>22, <2>23, <2>24, <2>25, <2>26,
               <2>27, <2>28, <2>29, <2>30, <2>31
            DEF Glue, Cleanup
  <1>7. wish' \in [Tasks -> Wishes] /\ ops' \in Nat /\ faults' \in Nat
    <2> USE ConstantsAssumption
            DEF BookOK, Excuse, SetStatus, SameStatus, Fault, NoFault, book, LoopOnly, Placing
    <2>1. CASE CleanupSkipped BY <2>1 DEF CleanupSkipped
    <2>2. CASE LookUpTasks BY <2>2 DEF LookUpTasks
    <2>3. CASE LookUpFails BY <2>3 DEF LookUpFails
    <2>4. CASE UsedPods BY <2>4 DEF UsedPods
    <2>5. CASE NoTasks BY <2>5 DEF NoTasks
    <2>6. CASE GetNextTask BY <2>6 DEF GetNextTask
    <2>7. CASE AnswerLost BY <2>7 DEF AnswerLost
    <2>8. CASE OwnerLogin BY <2>8 DEF OwnerLogin
    <2>9. CASE Crash BY <2>9 DEF Crash
    <2>10. CASE StopFirst BY <2>10 DEF StopFirst
    <2>11. CASE RemoveStuck BY <2>11 DEF RemoveStuck
    <2>12. CASE PushToPending BY <2>12 DEF PushToPending
    <2>13. CASE PushFails BY <2>13 DEF PushFails
    <2>14. CASE CountPods BY <2>14 DEF CountPods
    <2>15. CASE StopForQueue BY <2>15 DEF StopForQueue
    <2>16. CASE BackToQueue BY <2>16 DEF BackToQueue
    <2>17. CASE NoTemplate BY <2>17 DEF NoTemplate
    <2>18. CASE Apply BY <2>18 DEF Apply
    <2>19. CASE QuotaExceeded BY <2>19 DEF QuotaExceeded
    <2>20. CASE ApplyFails BY <2>20 DEF ApplyFails
    <2>21. CASE FailApplied BY <2>21 DEF FailApplied
    <2>22. CASE Unpend BY <2>22 DEF Unpend
    <2>23. CASE StillQueued BY <2>23 DEF StillQueued
    <2>24. CASE NotQueuedAnyMore BY <2>24 DEF NotQueuedAnyMore
    <2>25. CASE AddTask BY <2>25 DEF AddTask
    <2>26. CASE AddTaskFails BY <2>26 DEF AddTaskFails
    <2>27. CASE MoveToFront BY <2>27 DEF MoveToFront
    <2>28. CASE NotMoved BY <2>28 DEF NotMoved
    <2>29. CASE CleanupOldPods BY <2>29 DEF CleanupOldPods
    <2>30. ASSUME NEW x \in stale, FailStale(x[1], x[2]) 
           PROVE  wish' \in [Tasks -> Wishes] /\ ops' \in Nat /\ faults' \in Nat
      BY <2>30 DEF FailStale
    <2> QED BY <2>1, <2>2, <2>3, <2>4, <2>5, <2>6, <2>7, <2>8, <2>9, <2>10,
               <2>11, <2>12, <2>13, <2>14, <2>15, <2>16, <2>17, <2>18,
               <2>19, <2>20, <2>21, <2>22, <2>23, <2>24, <2>25, <2>26,
               <2>27, <2>28, <2>29, <2>30
            DEF Glue, Cleanup
  <1>8. excuse' \in [Tasks -> Excuses]
    <2> USE ExcuseTyped, ExcusesAre DEF Excuse, book, LoopOnly, Placing
    <2> excuse \in [Tasks -> Excuses]
      BY DEF BookOK
    <2>1. CASE CleanupSkipped BY <2>1 DEF CleanupSkipped
    <2>2. CASE LookUpTasks BY <2>2 DEF LookUpTasks
    <2>3. CASE LookUpFails BY <2>3 DEF LookUpFails
    <2>4. CASE UsedPods BY <2>4 DEF UsedPods
    <2>5. CASE NoTasks BY <2>5 DEF NoTasks
    <2>6. CASE GetNextTask BY <2>6 DEF GetNextTask
    <2>7. CASE AnswerLost BY <2>7 DEF AnswerLost
    <2>8. CASE OwnerLogin
      <3>1. UNCHANGED excuse \/ Excuse(gt, "push")
        BY <2>8 DEF OwnerLogin, SetStatus, SameStatus, Fault, NoFault, Goto
      <3> QED BY <3>1
    <2>9. CASE Crash BY <2>9 DEF Crash
    <2>10. CASE StopFirst BY <2>10 DEF StopFirst
    <2>11. CASE RemoveStuck BY <2>11 DEF RemoveStuck
    <2>12. CASE PushToPending BY <2>12 DEF PushToPending
    <2>13. CASE PushFails BY <2>13 DEF PushFails
    <2>14. CASE CountPods BY <2>14 DEF CountPods
    <2>15. CASE StopForQueue BY <2>15 DEF StopForQueue
    <2>16. CASE BackToQueue
      <3>1. UNCHANGED excuse \/ Excuse(gt, "place")
        BY <2>16 DEF BackToQueue, SetStatus, SameStatus, Fault, NoFault, Goto
      <3> QED BY <3>1
    <2>17. CASE NoTemplate BY <2>17 DEF NoTemplate
    <2>18. CASE Apply BY <2>18 DEF Apply
    <2>19. CASE QuotaExceeded BY <2>19 DEF QuotaExceeded
    <2>20. CASE ApplyFails BY <2>20 DEF ApplyFails
    <2>21. CASE FailApplied BY <2>21 DEF FailApplied
    <2>22. CASE Unpend BY <2>22 DEF Unpend
    <2>23. CASE StillQueued BY <2>23 DEF StillQueued
    <2>24. CASE NotQueuedAnyMore BY <2>24 DEF NotQueuedAnyMore
    <2>25. CASE AddTask BY <2>25 DEF AddTask
    <2>26. CASE AddTaskFails
      <3>1. UNCHANGED excuse \/ Excuse(gt, "unread")
        BY <2>26 DEF AddTaskFails, SetStatus, SameStatus, Fault, NoFault, Goto
      <3> QED BY <3>1
    <2>27. CASE MoveToFront BY <2>27 DEF MoveToFront
    <2>28. CASE NotMoved BY <2>28 DEF NotMoved
    <2>29. CASE CleanupOldPods BY <2>29 DEF CleanupOldPods
    <2>30. ASSUME NEW x \in stale, FailStale(x[1], x[2]) PROVE excuse' \in [Tasks -> Excuses]
      <3>1. UNCHANGED excuse \/ Excuse(x[1], "unread")
        BY <2>30 DEF FailStale, SetStatus, Fault, NoFault, Goto
      <3> QED BY <3>1
    <2> QED BY <2>1, <2>2, <2>3, <2>4, <2>5, <2>6, <2>7, <2>8, <2>9, <2>10,
               <2>11, <2>12, <2>13, <2>14, <2>15, <2>16, <2>17, <2>18,
               <2>19, <2>20, <2>21, <2>22, <2>23, <2>24, <2>25, <2>26,
               <2>27, <2>28, <2>29, <2>30
            DEF Glue, Cleanup
  <1> QED BY <1>1, <1>4, <1>5, <1>6, <1>7, <1>8, DaemonStays
          DEF TypesKept, TypeOK, ServerOK, BookOK

LEMMA TypesStep ==
  ASSUME TypeOK, Control, [Next]_vars
  PROVE  TypesKept
  <1>1. CASE UNCHANGED vars
    <2>1. UNCHANGED <<server, pod, glue, daemon, book>>
      BY <1>1 DEF vars
    <2>2. PodsTypeOK' /\ BookOK'
      BY <2>1 DEF TypeOK, PodsTypeOK, BookOK, book
    <2> QED BY <2>1, <2>2, ServerStays, LoopStays, DaemonStays DEF TypesKept, TypeOK
  <1> QED BY <1>1, UserTypes, ClusterTypes, DaemonTypes, GlueTypes DEF Next

LEMMA TypesInit == Init => TypeOK /\ Control
  <1> SUFFICES ASSUME Init PROVE TypeOK /\ Control
    OBVIOUS
  <1> USE ConstantsAssumption DEF Init
  <1>1. ServerOK
    BY EmptySeq DEF ServerOK, QueuesOK, StatusTypeOK, Statuses
  <1>2. LoopOK /\ Control
    BY DEF LoopOK, Control, Between, GluePCs
  <1>4. DaemonOK
    <2>1. StartedOK
      BY DEF StartedOK
    <2> QED BY <2>1 DEF DaemonOK, DaemonPCs
  <1>3. PodsTypeOK /\ BookOK
    BY DEF PodsTypeOK, Pods, BookOK, Wishes, Excuses
  <1> QED BY <1>1, <1>2, <1>3, <1>4 DEF TypeOK

\* The glue has a task in hand exactly while it deals with one, works on queues
\* that exist, and remembers deleted pods and stale tasks only where it looks
\* them up; the daemon's notes are tasks.
THEOREM GlueTypeOK == Spec => [](TypeOK /\ Control)
  <1>1. TypeOK /\ Control /\ [Next]_vars => TypeOK' /\ Control'
    BY TypesStep DEF TypesKept
  <1> QED BY <1>1, TypesInit, PTL DEF Spec

-----------------------------------------------------------------------------
(* Strict priority.                                                        *)

\* A task put back heads its queue.
WaitsInFront == \A w \in waits : queue[w[2]] # <<>> /\ Head(queue[w[2]]) = w[1]

\* Nobody put back is in the queue the task in hand came from.
HandCameFirst == gt # NoTask => \A w \in waits : w[2] # gq

\* A pass that reached a queue found nobody put back in those before it.
PassedNobody == faults = 0 => \A w \in waits : gq <= w[2]

InOrder == WaitsInFront /\ HandCameFirst /\ PassedNobody

\* No task is put back, and those that were still head their queues.
FrontsStay == waits' \subseteq waits /\ \A w \in waits' : HeadStays(w[2])

LEMMA SameFronts ==
  ASSUME WaitsInFront, UNCHANGED <<queue, waits>>
  PROVE  FrontsStay
  BY DEF WaitsInFront, FrontsStay, HeadStays

LEMMA FrontsAfterAdding ==
  ASSUME TypeOK, WaitsInFront, UNCHANGED waits, NEW q \in Queues, NEW t \in Tasks,
         queue' = [queue EXCEPT ![q] = Append(@, t)]
  PROVE  FrontsStay
  <1>1. \A w \in waits : w[2] \in Queues
    BY DEF TypeOK, ServerOK
  <1> QED BY <1>1, EntryAdded DEF TypeOK, ServerOK, WaitsInFront, FrontsStay

LEMMA FrontsAfterLeaving ==
  ASSUME TypeOK, WaitsInFront, NEW t, LeaveQueue(t) \/ StayQueued
  PROVE  FrontsStay
  <1>1. CASE UNCHANGED <<queue, waits>>
    BY <1>1, SameFronts
  <1>2. CASE queue' = Without(t) /\ waits' = {w \in waits : w[1] # t}
    <2>1. \A w \in waits : w[2] \in Queues
      BY DEF TypeOK, ServerOK
    <2> QED BY <1>2, <2>1, EntryRemoved DEF TypeOK, ServerOK, WaitsInFront, FrontsStay
  <1> QED BY <1>1, <1>2 DEF LeaveQueue, StayQueued

\* Users, cluster and daemon.
LEMMA FrontsOutside ==
  ASSUME TypeOK, InOrder, FrontsStay, UNCHANGED <<gt, gq>>,
         faults' \in {faults, faults + 1}
  PROVE  InOrder'
  <1>1. faults \in Nat /\ (faults' = 0 => faults = 0)
    BY DEF TypeOK, BookOK
  <1> QED BY <1>1 DEF InOrder, WaitsInFront, HandCameFirst, PassedNobody, FrontsStay,
                      HeadStays

LEMMA UserInOrder ==
  ASSUME TypeOK, InOrder, User
  PROVE  InOrder'
  <1> WaitsInFront
    BY DEF InOrder
  <1>1. UNCHANGED <<gt, gq>> /\ faults' = faults
    BY DEF User, Enqueue, Abort, UserOp, glue
  <1>2. FrontsStay
    <2>1. ASSUME NEW t \in Tasks, Enqueue(t) PROVE FrontsStay
      BY <2>1, FrontsAfterAdding DEF Enqueue
    <2>2. ASSUME NEW t \in Tasks, Abort(t) PROVE FrontsStay
      BY <2>2, FrontsAfterLeaving DEF Abort
    <2> QED BY <2>1, <2>2 DEF User
  <1> QED BY <1>1, <1>2, FrontsOutside

LEMMA ClusterInOrder ==
  ASSUME TypeOK, InOrder, Pod
  PROVE  InOrder'
  <1> WaitsInFront
    BY DEF InOrder
  <1> SUFFICES ASSUME NEW t \in Tasks,
                      \/ PodStart(t) \/ Boot(t) \/ BootRefused(t) \/ RunEnds(t)
                      \/ PodEnds(t) \/ PodFails(t) \/ Preempt(t) \/ Age(t)
               PROVE  /\ UNCHANGED <<gt, gq>> /\ FrontsStay
                      /\ faults' \in {faults, faults + 1}
    BY FrontsOutside DEF Pod
  <1> USE SameFronts DEF Cluster, Fault, NoFault, server, glue, book
  <1>1. CASE PodStart(t) BY <1>1 DEF PodStart
  <1>2. CASE Boot(t) BY <1>2, FrontsAfterLeaving DEF Boot
  <1>3. CASE BootRefused(t) BY <1>3 DEF BootRefused
  <1>4. CASE RunEnds(t) BY <1>4 DEF RunEnds
  <1>5. CASE PodEnds(t) BY <1>5 DEF PodEnds
  <1>6. CASE PodFails(t) BY <1>6 DEF PodFails
  <1>7. CASE Preempt(t) BY <1>7 DEF Preempt
  <1>8. CASE Age(t) BY <1>8 DEF Age
  <1> QED BY <1>1, <1>2, <1>3, <1>4, <1>5, <1>6, <1>7, <1>8

LEMMA DaemonInOrder ==
  ASSUME TypeOK, InOrder, PendingPodsDaemon
  PROVE  InOrder'
  <1> WaitsInFront
    BY DEF InOrder
  <1> SUFFICES UNCHANGED <<gt, gq, queue, waits>> /\ faults' \in {faults, faults + 1}
    BY SameFronts, FrontsOutside
  <1> USE DEF Polling, Fault, NoFault, SetStatus, SameStatus, Excuse, server, glue
  <1>1. CASE ListPods BY <1>1 DEF ListPods
  <1>2. CASE Refresh BY <1>2 DEF Refresh
  <1>3. CASE Skip BY <1>3 DEF Skip
  <1>4. CASE Evict BY <1>4 DEF Evict
  <1>5. CASE FailEvicted BY <1>5 DEF FailEvicted
  <1>6. CASE ReadStatus BY <1>6 DEF ReadStatus
  <1>7. CASE UnpendLost BY <1>7 DEF UnpendLost
  <1>8. CASE RequeueLost BY <1>8 DEF RequeueLost
  <1>9. CASE AbortedTasks BY <1>9 DEF AbortedTasks
  <1>10. CASE Recheck BY <1>10 DEF Recheck
  <1>11. CASE Reread BY <1>11 DEF Reread
  <1>12. CASE DeleteAborted BY <1>12 DEF DeleteAborted
  <1>13. CASE RoundFails BY <1>13 DEF RoundFails
  <1> QED BY <1>1, <1>2, <1>3, <1>4, <1>5, <1>6, <1>7, <1>8, <1>9, <1>10,
             <1>11, <1>12, <1>13
          DEF PendingPodsDaemon

\* The loop stays at its queue, goes to the first one or starts over.
LEMMA FrontsInLoop ==
  ASSUME TypeOK, InOrder, FrontsStay, faults' \in {faults, faults + 1},
         gt' = NoTask \/ UNCHANGED <<gt, gq>>, gq' \in {gq, 0, 1}
  PROVE  InOrder'
  <1>1. faults \in Nat /\ (faults' = 0 => faults = 0)
    BY DEF TypeOK, BookOK
  <1>2. \A w \in waits : w[2] \in 1 .. LastQueue
    BY DEF TypeOK, ServerOK, Queues
  <1>3. WaitsInFront' /\ HandCameFirst'
    BY DEF InOrder, WaitsInFront, HandCameFirst, FrontsStay, HeadStays
  <1>4. PassedNobody'
    BY <1>1, <1>2, ConstantsAssumption DEF InOrder, PassedNobody, FrontsStay
  <1> QED BY <1>3, <1>4 DEF InOrder

LEMMA GlueInOrder ==
  ASSUME TypeOK, Control, InOrder, Glue
  PROVE  InOrder'
  <1> WaitsInFront
    BY DEF InOrder
  <1> USE DEF Fault, NoFault, SetStatus, SameStatus, Excuse, Goto, Leave, LoopOnly,
              Placing, server, book
  <1> DEFINE Quiet == /\ FrontsStay /\ faults' \in {faults, faults + 1}
                      /\ gt' = NoTask \/ UNCHANGED <<gt, gq>>
                      /\ gq' \in {gq, 0, 1}
  <1>0. gpc \notin Between => gt \in Tasks /\ gq \in Queues
    BY ConstantsAssumption DEF TypeOK, LoopOK, Control, Between, Queues
  <1>1. CASE CleanupSkipped BY <1>1, SameFronts, FrontsInLoop DEF CleanupSkipped
  <1>2. CASE LookUpTasks BY <1>2, SameFronts, FrontsInLoop DEF LookUpTasks
  <1>3. CASE LookUpFails BY <1>3, SameFronts, FrontsInLoop DEF LookUpFails
  <1>4. CASE UsedPods
    <2>1. gt = NoTask /\ UNCHANGED gt
      BY <1>4 DEF UsedPods, Control, Between
    <2> QED BY <1>4, <2>1, SameFronts, FrontsInLoop DEF UsedPods
  <1>5. CASE NoTasks
    <2>1. WaitsInFront' /\ gt = NoTask /\ UNCHANGED <<gt, waits>>
      BY <1>5 DEF NoTasks, Control, Between, WaitsInFront
    <2>2. PassedNobody'
      <3>1. CASE faults' = faults + 1
        BY <3>1 DEF TypeOK, BookOK, PassedNobody
      <3>2. CASE queue[gq] = <<>> /\ faults' = faults
        <4>1. \A w \in waits : w[2] # gq
          BY <3>2 DEF WaitsInFront
        <4>2. gq' \in {gq + 1, 0} /\ gq \in Nat /\ \A w \in waits : w[2] \in Nat
          BY <1>5, ConstantsAssumption
             DEF NoTasks, NextQueue, TypeOK, LoopOK, ServerOK, Queues
        <4> QED BY <2>1, <3>2, <4>1, <4>2 DEF InOrder, PassedNobody
      <3> QED BY <1>5, <3>1, <3>2 DEF NoTasks
    <2> QED BY <2>1, <2>2 DEF InOrder, HandCameFirst
  <1>6. CASE GetNextTask
    <2>1. /\ queue[gq] # <<>> /\ queue' = [queue EXCEPT ![gq] = Tail(@)]
          /\ waits' = waits \ {<<Head(queue[gq]), gq>>}
      BY <1>6 DEF GetNextTask
    <2>2. gq \in Queues
      BY <1>6, ConstantsAssumption DEF GetNextTask, TypeOK, LoopOK, Control, Queues
    <2>3. \A w \in waits' : w \in waits /\ w[2] # gq
      BY <2>1 DEF TypeOK, ServerOK, WaitsInFront
    <2>4. \A w \in waits' : queue'[w[2]] = queue[w[2]]
      BY <2>1, <2>2, <2>3, EntryPopped DEF TypeOK, ServerOK
    <2>5. WaitsInFront'
      BY <2>3, <2>4 DEF WaitsInFront
    <2>6. PassedNobody'
      BY <1>6, <2>3 DEF GetNextTask, InOrder, PassedNobody, TypeOK, BookOK
    <2>7. HandCameFirst'
      BY <1>6, <2>3 DEF GetNextTask, HandCameFirst, NextQueue, Control, Between
    <2> QED BY <2>5, <2>6, <2>7 DEF InOrder
  <1>7. CASE AnswerLost
    <2>1. /\ queue[gq] # <<>> /\ queue' = [queue EXCEPT ![gq] = Tail(@)]
          /\ waits' = waits \ {<<Head(queue[gq]), gq>>}
      BY <1>7 DEF AnswerLost
    <2>2. gq \in Queues
      BY <1>7, ConstantsAssumption DEF AnswerLost, TypeOK, LoopOK, Control, Queues
    <2>3. \A w \in waits' : w \in waits /\ w[2] # gq
      BY <2>1 DEF TypeOK, ServerOK, WaitsInFront
    <2>4. \A w \in waits' : queue'[w[2]] = queue[w[2]]
      BY <2>1, <2>2, <2>3, EntryPopped DEF TypeOK, ServerOK
    <2>5. WaitsInFront'
      BY <2>3, <2>4 DEF WaitsInFront
    <2>6. PassedNobody'
      BY <1>7, <2>3 DEF AnswerLost, InOrder, PassedNobody, TypeOK, BookOK
    <2>7. HandCameFirst'
      BY <1>7, <2>3 DEF AnswerLost, HandCameFirst, NextQueue, Control, Between
    <2> QED BY <2>5, <2>6, <2>7 DEF InOrder
  <1>8. CASE OwnerLogin
    <2>1. FrontsStay
      <3>1. UNCHANGED <<queue, waits>> \/ LeaveQueue(gt) \/ StayQueued
        BY <1>8, Zenon DEF OwnerLogin, server
      <3> QED BY <3>1, SameFronts, FrontsAfterLeaving
    <2>2. gt # NoTask /\ gq \in Nat
      BY <1>8, ConstantsAssumption DEF OwnerLogin, Control, Between, TypeOK, LoopOK
    <2>3. /\ faults' \in {faults, faults + 1}
          /\ \/ UNCHANGED <<gt, gq>>
             \/ gt' = NoTask /\ gq' \in {gq + 1, 0}
      BY <1>8 DEF OwnerLogin, NextQueue, LeaveQueue, StayQueued
    <2>4. CASE UNCHANGED <<gt, gq>>
      BY <2>1, <2>3, <2>4, FrontsOutside
    <2>5. CASE gt' = NoTask /\ gq' \in {gq + 1, 0}
      <3>1. \A w \in waits : w[2] # gq /\ w[2] \in Nat
        BY <2>2 DEF InOrder, HandCameFirst, TypeOK, ServerOK, Queues
      <3>2. faults \in Nat
        BY DEF TypeOK, BookOK
      <3>3. PassedNobody'
        BY <2>1, <2>2, <2>3, <2>5, <3>1, <3>2 DEF InOrder, PassedNobody, FrontsStay
      <3>4. WaitsInFront' /\ HandCameFirst'
        BY <2>1, <2>5 DEF WaitsInFront, HandCameFirst, FrontsStay, HeadStays
      <3> QED BY <3>3, <3>4 DEF InOrder
    <2> QED BY <2>3, <2>4, <2>5
  <1>9. CASE Crash BY <1>9, SameFronts, FrontsInLoop DEF Crash
  <1>10. CASE StopFirst BY <1>10, SameFronts, FrontsInLoop DEF StopFirst
  <1>11. CASE RemoveStuck BY <1>11, SameFronts, FrontsInLoop DEF RemoveStuck
  <1>12. CASE PushToPending BY <1>12, SameFronts, FrontsInLoop DEF PushToPending
  <1>13. CASE PushFails BY <1>13, SameFronts, FrontsInLoop DEF PushFails
  <1>14. CASE CountPods BY <1>14, SameFronts, FrontsInLoop DEF CountPods
  <1>15. CASE StopForQueue BY <1>15, SameFronts, FrontsInLoop DEF StopForQueue
  <1>16. CASE BackToQueue
    <2>1. gt \in Tasks /\ gq \in Queues /\ UNCHANGED waits
      BY <1>0, <1>16 DEF BackToQueue, Between
    <2>2. FrontsStay
      BY <1>16, <2>1, FrontsAfterAdding, SameFronts DEF BackToQueue
    <2> QED BY <1>16, <2>2, FrontsInLoop DEF BackToQueue
  <1>17. CASE NoTemplate BY <1>17, SameFronts, FrontsInLoop DEF NoTemplate
  <1>18. CASE Apply BY <1>18, SameFronts, FrontsInLoop DEF Apply
  <1>19. CASE QuotaExceeded BY <1>19, SameFronts, FrontsInLoop DEF QuotaExceeded
  <1>20. CASE ApplyFails BY <1>20, SameFronts, FrontsInLoop DEF ApplyFails
  <1>21. CASE FailApplied BY <1>21, SameFronts, FrontsInLoop DEF FailApplied
  <1>22. CASE Unpend BY <1>22, SameFronts, FrontsInLoop DEF Unpend
  <1>23. CASE StillQueued BY <1>23, SameFronts, FrontsInLoop DEF StillQueued
  <1>24. CASE NotQueuedAnyMore BY <1>24, SameFronts, FrontsInLoop DEF NotQueuedAnyMore
  <1>25. CASE AddTask
    <2>1. gt \in Tasks /\ gq \in Queues /\ UNCHANGED waits
      BY <1>0, <1>25 DEF AddTask, Between
    <2>2. FrontsStay
      BY <1>25, <2>1, FrontsAfterAdding, SameFronts DEF AddTask
    <2> QED BY <1>25, <2>2, FrontsInLoop DEF AddTask
  <1>26. CASE AddTaskFails BY <1>26, SameFronts, FrontsInLoop DEF AddTaskFails
  <1>27. CASE MoveToFront
    <2>1. gt \in Tasks /\ gq \in Queues /\ gt # NoTask
      BY <1>0, <1>27, ConstantsAssumption DEF MoveToFront, Between
    <2>2. gt' = NoTask /\ gq' = 0 /\ faults' = faults
      BY <1>27 DEF MoveToFront
    <2>3. WaitsInFront'
      <3>1. CASE UNCHANGED <<queue, waits>>
        BY <3>1 DEF WaitsInFront
      <3>2. CASE /\ queue' = [queue EXCEPT ![gq] = <<gt>> \o RemoveFirst(@, gt)]
                 /\ waits' = waits \cup {<<gt, gq>>}
        <4>1. /\ queue'[gq] # <<>> /\ Head(queue'[gq]) = gt
              /\ \A p \in Queues \ {gq} : queue'[p] = queue[p]
          BY <2>1, <3>2, EntryToFront DEF TypeOK, ServerOK
        <4>2. \A w \in waits : w[2] \in Queues \ {gq}
          BY <2>1 DEF InOrder, HandCameFirst, TypeOK, ServerOK
        <4> QED BY <3>2, <4>1, <4>2 DEF WaitsInFront
      <3> QED BY <1>27, <3>1, <3>2 DEF MoveToFront
    <2>4. \A w \in waits' : w[2] \in 1 .. LastQueue
      BY <1>27, <2>1 DEF MoveToFront, TypeOK, ServerOK, Queues
    <2> QED BY <2>2, <2>3, <2>4, ConstantsAssumption DEF InOrder, HandCameFirst, PassedNobody
  <1>28. CASE NotMoved BY <1>28, SameFronts, FrontsInLoop DEF NotMoved
  <1>29. CASE CleanupOldPods BY <1>29, SameFronts, FrontsInLoop DEF CleanupOldPods
  <1>30. ASSUME NEW x \in stale, FailStale(x[1], x[2]) PROVE InOrder'
    <2>1. /\ UNCHANGED <<gt, gq>> /\ faults' \in {faults, faults + 1}
          /\ UNCHANGED <<queue, waits>> \/ LeaveQueue(x[1])
      BY <1>30 DEF FailStale, StayQueued
    <2>2. FrontsStay
      BY <2>1, SameFronts, FrontsAfterLeaving
    <2> QED BY <2>1, <2>2, FrontsOutside
  <1> QED BY <1>1, <1>2, <1>3, <1>4, <1>5, <1>6, <1>7, <1>8, <1>9, <1>10,
             <1>11, <1>12, <1>13, <1>14, <1>15, <1>16, <1>17, <1>18,
             <1>19, <1>20, <1>21, <1>22, <1>23, <1>24, <1>25, <1>26,
             <1>27, <1>28, <1>29, <1>30
          DEF Glue, Cleanup

\* A task comes into the glue's hands only as the head of the queue it is at.
LEMMA PullsTheHead ==
  ASSUME TypeOK, Control, Next, gpc = "next", gt' \in Tasks
  PROVE  gt' = Head(queue[gq])
  <1>1. gt' # NoTask /\ gt = NoTask
    BY ConstantsAssumption DEF Control, Between
  <1>2. CASE UNCHANGED gt
    BY <1>1, <1>2
  <1>3. CASE Glue
    <2>1. GetNextTask \/ NoTasks \/ AnswerLost
      BY <1>3 DEF Glue, Cleanup, CleanupSkipped, CleanupOldPods, LookUpTasks,
                  LookUpFails, FailStale, UsedPods, OwnerLogin, Crash, StopFirst,
                  RemoveStuck, PushToPending, PushFails, CountPods, StopForQueue,
                  BackToQueue, NoTemplate, Apply, QuotaExceeded, ApplyFails, FailApplied,
                  Unpend, StillQueued, NotQueuedAnyMore, AddTask, AddTaskFails,
                  MoveToFront, NotMoved
    <2> QED BY <1>2, <2>1 DEF GetNextTask, NoTasks, AnswerLost
  <1>4. CASE User
    BY <1>2, <1>4 DEF User, Enqueue, Abort, UserOp, glue
  <1>5. CASE Pod
    BY <1>2, <1>5, ClusterPods DEF Pod, TypeOK, glue
  <1>6. CASE PendingPodsDaemon
    BY <1>2, <1>6, DaemonPods DEF TypeOK, glue
  <1> QED BY <1>3, <1>4, <1>5, <1>6 DEF Next

\* As long as no request failed, a task that was put back for want of quota is
\* pulled before every other task of its queue and of those of lower priority.
THEOREM NobodyOvertakes == Spec => StrictPriority
  <1> DEFINE IInv == TypeOK /\ Control /\ InOrder
             Step == \A t \in Tasks :
                       gpc = "next" /\ gt' = t /\ faults = 0
                         => \A w \in waits : ~ (w[1] # t /\ w[2] <= gq
                                                /\ Contains(queue[w[2]], w[1]))
  <1>1. Init => IInv
    <2>1. ASSUME Init PROVE InOrder
      BY <2>1 DEF Init, InOrder, WaitsInFront, HandCameFirst, PassedNobody
    <2> QED BY <2>1, TypesInit
  <1>2. IInv /\ [Next]_vars => IInv'
    <2> SUFFICES ASSUME IInv, [Next]_vars PROVE IInv'
      OBVIOUS
    <2>1. CASE UNCHANGED vars
      <3>1. UNCHANGED <<queue, waits, gt, gq, faults>>
        BY <2>1 DEF vars, server, glue, book
      <3>2. InOrder'
        BY <3>1 DEF InOrder, WaitsInFront, HandCameFirst, PassedNobody
      <3> QED BY <3>2, TypesStep DEF TypesKept
    <2>2. CASE Next
      BY <2>2, TypesStep, UserInOrder, ClusterInOrder, DaemonInOrder, GlueInOrder
         DEF Next, TypesKept
    <2> QED BY <2>1, <2>2
  <1>3. IInv /\ [Next]_vars => [Step]_vars
    <2> SUFFICES ASSUME IInv, Next, NEW t \in Tasks, gpc = "next", gt' = t, faults = 0,
                        NEW w \in waits, w[1] # t, w[2] <= gq
                 PROVE  FALSE
      OBVIOUS
    <2>1. Head(queue[gq]) = t
      BY PullsTheHead
    <2>2. w[2] = gq
      BY DEF InOrder, PassedNobody, TypeOK, ServerOK, LoopOK, Queues
    <2> QED BY <2>1, <2>2 DEF InOrder, WaitsInFront
  <1> QED BY <1>1, <1>2, <1>3, PTL DEF Spec, StrictPriority

-----------------------------------------------------------------------------
(* Nobody is stranded.                                                     *)

Settled(t) == HeldByDaemon(t) \/ excuse[t] # "none"

\* The glue will push the queued task, put it back, make a pod for it or fail it.
WillLaunch(t) ==
    /\ gt = t
    /\ \/ gpc \in {"pulled", "stop", "count", "back_stop", "apply", "undo",
                   "unpend", "reread", "readd"}
       \/ gpc \in {"remove", "push"} /\ ~ Basic /\ (gpc = "push" => t \notin pending)

\* The glue will enqueue the task, which it has stopped or found stopped.
WillPush(t) ==
    /\ gt = t
    /\ \/ gpc \in {"pulled", "stop", "remove", "back"}
       \/ gpc = "push" /\ t \notin pending

\* Each status that makes a task due comes with somebody who will see to it.
KeepsQueued(t) ==
    status[t] = "queued" =>
        Waits(t) \/ pod[t] \in {"pending", "booting"} \/ Settled(t) \/ WillLaunch(t)

KeepsRunning(t) ==
    status[t] = "in_progress" =>
        \/ pod[t] # "none" \/ Settled(t)
        \/ t \in gone \/ <<t, "in_progress">> \in stale

KeepsStopped(t) ==
    status[t] = "stopped" /\ wish[t] = "run" => Waits(t) \/ Settled(t) \/ WillPush(t)

Keeps(t) == KeepsQueued(t) /\ KeepsRunning(t) /\ KeepsStopped(t)

NobodyLost == \A t \in Tasks : Keeps(t)

\* A step that is about another task.
Passive(t) ==
    /\ status'[t] = status[t] /\ wish'[t] = wish[t] /\ pod'[t] = pod[t]
    /\ excuse'[t] = excuse[t]
    /\ Waits(t) => Waits(t)'
    /\ HeldByDaemon(t) => HeldByDaemon(t)'
    /\ t \in gone => t \in gone'
    /\ <<t, "in_progress">> \in stale => <<t, "in_progress">> \in stale'
    /\ gt = t => gt' = gt /\ gpc' = gpc /\ (t \in pending' => t \in pending)

LEMMA PassiveKeeps ==
  ASSUME NEW t, Keeps(t), Passive(t)
  PROVE  Keeps(t)'
  BY DEF Keeps, KeepsQueued, KeepsRunning, KeepsStopped, Settled, WillLaunch, WillPush,
         Passive

LEMMA SameQueues ==
  ASSUME UNCHANGED queue
  PROVE  \A t : Waits(t)' <=> Waits(t)
  BY DEF Waits

LEMMA UserLosesNobody ==
  ASSUME TypeOK, NobodyLost, User
  PROVE  NobodyLost'
  <1> USE DEF TypeOK, ServerOK, StatusTypeOK, BookOK, PodsTypeOK
  <1>1. ASSUME NEW t \in Tasks, Enqueue(t), NEW u \in Tasks PROVE Keeps(u)'
    <2>1. Waits(t)' /\ (Waits(u) => Waits(u)')
      BY <1>1, EntryAdded DEF Enqueue
    <2>2. CASE u = t
      <3>1. status'[t] = "queued"
        BY <1>1 DEF Enqueue, SetStatus
      <3> QED BY <2>1, <2>2, <3>1 DEF Keeps, KeepsQueued, KeepsRunning, KeepsStopped
    <2>3. CASE u # t
      <3>1. Passive(u)
        BY <1>1, <2>1, <2>3
           DEF Enqueue, UserOp, SetStatus, Excuse, Passive, HeldByDaemon, glue, daemon
      <3> QED BY <3>1, PassiveKeeps DEF NobodyLost
    <2> QED BY <2>2, <2>3
  <1>2. ASSUME NEW t \in Tasks, Abort(t), NEW u \in Tasks PROVE Keeps(u)'
    <2>1. CASE u = t
      <3>1. status'[t] \in {"stopped", "created"} /\ wish'[t] # "run"
        BY <1>2 DEF Abort, SetStatus
      <3> QED BY <2>1, <3>1 DEF Keeps, KeepsQueued, KeepsRunning, KeepsStopped
    <2>2. CASE u # t
      <3>1. pending' \subseteq pending /\ (Waits(u) => Waits(u)')
        BY <1>2, <2>2, EntryRemoved, SameQueues DEF Abort, LeaveQueue, StayQueued
      <3>2. status'[u] = status[u] /\ wish'[u] = wish[u]
        BY <1>2, <2>2 DEF Abort, SetStatus
      <3>3. UNCHANGED <<pod, glue, daemon, excuse>>
        BY <1>2 DEF Abort, UserOp
      <3>4. Passive(u)
        BY <3>1, <3>2, <3>3 DEF Passive, HeldByDaemon, glue, daemon
      <3> QED BY <3>4, PassiveKeeps DEF NobodyLost
    <2> QED BY <2>1, <2>2
  <1> QED BY <1>1, <1>2 DEF User, NobodyLost

LEMMA ClusterLosesNobody ==
  ASSUME TypeOK, NobodyLost, Pod
  PROVE  NobodyLost'
  <1> SUFFICES ASSUME NEW t \in Tasks,
                      \/ PodStart(t) \/ Boot(t) \/ BootRefused(t) \/ RunEnds(t)
                      \/ PodEnds(t) \/ PodFails(t) \/ Preempt(t) \/ Age(t),
                      NEW u \in Tasks
               PROVE  Keeps(u)'
    BY DEF Pod, NobodyLost
  <1> USE DEF TypeOK, ServerOK, StatusTypeOK, BookOK, PodsTypeOK, Pods
  <1>1. UNCHANGED <<glue, dpc, dt, todo, seen>>
    BY ClusterPods
  <1>2. wish' = wish /\ pending' \subseteq pending
    <2> USE DEF Cluster, LeaveQueue, server, book
    <2>1. CASE PodStart(t) BY <2>1 DEF PodStart
    <2>2. CASE Boot(t) BY <2>2 DEF Boot
    <2>3. CASE BootRefused(t) BY <2>3 DEF BootRefused
    <2>4. CASE RunEnds(t) BY <2>4 DEF RunEnds
    <2>5. CASE PodEnds(t) BY <2>5 DEF PodEnds
    <2>6. CASE PodFails(t) BY <2>6 DEF PodFails
    <2>7. CASE Preempt(t) BY <2>7 DEF Preempt
    <2>8. CASE Age(t) BY <2>8 DEF Age
    <2> QED BY <2>1, <2>2, <2>3, <2>4, <2>5, <2>6, <2>7, <2>8
  <1>3. u # t => status'[u] = status[u] /\ pod'[u] = pod[u] /\ excuse'[u] = excuse[u]
    <2> USE DEF SetStatus, Excuse, server, book
    <2>1. CASE PodStart(t) BY <2>1 DEF PodStart
    <2>2. CASE Boot(t) BY <2>2 DEF Boot
    <2>3. CASE BootRefused(t) BY <2>3 DEF BootRefused
    <2>4. CASE RunEnds(t) BY <2>4 DEF RunEnds
    <2>5. CASE PodEnds(t) BY <2>5 DEF PodEnds
    <2>6. CASE PodFails(t) BY <2>6 DEF PodFails
    <2>7. CASE Preempt(t) BY <2>7 DEF Preempt
    <2>8. CASE Age(t) BY <2>8 DEF Age
    <2> QED BY <2>1, <2>2, <2>3, <2>4, <2>5, <2>6, <2>7, <2>8
  <1>4. Boot(t) \/ UNCHANGED queue
    BY DEF PodStart, BootRefused, RunEnds, PodEnds, PodFails, Preempt, Age, server
  <1>5. u # t => (Waits(u) => Waits(u)')
    BY <1>4, EntryRemoved, SameQueues DEF Boot, LeaveQueue
  <1>6. CASE u # t
    <2>1. Passive(u)
      BY <1>1, <1>2, <1>3, <1>5, <1>6 DEF Passive, HeldByDaemon, glue, daemon
    <2> QED BY <2>1, PassiveKeeps DEF NobodyLost
  <1>7. CASE u = t
    <2>1. Keeps(t)
      BY DEF NobodyLost
    <2>2. CASE Boot(t)
      <3>1. status'[t] = "in_progress" /\ pod'[t] = "running"
        BY <2>2 DEF Boot, SetStatus
      <3> QED BY <1>7, <3>1 DEF Keeps, KeepsQueued, KeepsRunning, KeepsStopped
    <2>3. CASE RunEnds(t)
      <3>1. status'[t] \in {"completed", "failed"}
        BY <2>3 DEF RunEnds, SetStatus
      <3> QED BY <1>7, <3>1 DEF Keeps, KeepsQueued, KeepsRunning, KeepsStopped
    <2>4. CASE Age(t)
      <3>1. Passive(t)
        BY <2>4, SameQueues DEF Age, Passive, HeldByDaemon, glue, daemon, book
      <3> QED BY <1>7, <2>1, <3>1, PassiveKeeps
    <2>5. CASE excuse'[t] # "none"
      BY <1>7, <2>5 DEF Keeps, KeepsQueued, KeepsRunning, KeepsStopped, Settled
    <2> DEFINE Kept == /\ UNCHANGED <<status, excuse, queue, pending>>
                       /\ pod'[t] # "none"
                       /\ status[t] = "queued" /\ pod[t] \in {"pending", "booting"}
                            => pod'[t] \in {"pending", "booting"}
    <2>6. CASE Kept
      <3>1. Waits(t)' <=> Waits(t)
        BY <2>6, SameQueues
      <3>2. (HeldByDaemon(t)' <=> HeldByDaemon(t)) /\ (Settled(t)' <=> Settled(t))
        BY <1>1, <2>6 DEF HeldByDaemon, Settled, daemon
      <3>3. (WillLaunch(t)' <=> WillLaunch(t)) /\ (WillPush(t)' <=> WillPush(t))
        BY <1>1, <2>6 DEF WillLaunch, WillPush, glue
      <3>4. KeepsQueued(t)' /\ KeepsRunning(t)' /\ KeepsStopped(t)'
        BY <1>2, <2>1, <2>6, <3>1, <3>2, <3>3
           DEF Keeps, KeepsQueued, KeepsRunning, KeepsStopped
      <3> QED BY <1>7, <3>4 DEF Keeps
    <2>7. PodStart(t) \/ BootRefused(t) \/ PodEnds(t) \/ PodFails(t) \/ Preempt(t)
             => excuse'[t] # "none" \/ Kept
      <3> USE DEF Excuse, Fault, NoFault, server, book, Live
      <3>1. CASE PodStart(t) BY <3>1 DEF PodStart
      <3>2. CASE BootRefused(t) BY <3>2 DEF BootRefused
      <3>3. CASE PodEnds(t) BY <3>3 DEF PodEnds
      <3>4. CASE PodFails(t) BY <3>4 DEF PodFails
      <3>5. CASE Preempt(t) BY <3>5 DEF Preempt
      <3> QED BY <3>1, <3>2, <3>3, <3>4, <3>5
    <2> QED BY <2>2, <2>3, <2>4, <2>5, <2>6, <2>7
  <1> QED BY <1>6, <1>7

LEMMA DaemonLosesNobody ==
  ASSUME TypeOK, NobodyLost, PendingPodsDaemon
  PROVE  NobodyLost'
  <1> SUFFICES ASSUME NEW u \in Tasks PROVE Keeps(u)'
    BY DEF NobodyLost
  <1> USE DEF TypeOK, ServerOK, StatusTypeOK, BookOK, PodsTypeOK, Pods
  <1>1. UNCHANGED glue /\ Keeps(u)
    BY DaemonPods DEF NobodyLost
  <1>2. UNCHANGED <<queue, wish>>
    <2> USE DEF Polling, SetStatus, SameStatus, Excuse, Fault, NoFault, server
    <2>1. CASE ListPods BY <2>1 DEF ListPods
    <2>2. CASE Refresh BY <2>2 DEF Refresh
    <2>3. CASE Skip BY <2>3 DEF Skip
    <2>4. CASE Evict BY <2>4 DEF Evict
    <2>5. CASE FailEvicted BY <2>5 DEF FailEvicted
    <2>6. CASE ReadStatus BY <2>6 DEF ReadStatus
    <2>7. CASE UnpendLost BY <2>7 DEF UnpendLost
    <2>8. CASE RequeueLost BY <2>8 DEF RequeueLost
    <2>9. CASE AbortedTasks BY <2>9 DEF AbortedTasks
    <2>10. CASE Recheck BY <2>10 DEF Recheck
    <2>11. CASE Reread BY <2>11 DEF Reread
    <2>12. CASE DeleteAborted BY <2>12 DEF DeleteAborted
    <2>13. CASE RoundFails BY <2>13 DEF RoundFails
    <2> QED BY <2>1, <2>2, <2>3, <2>4, <2>5, <2>6, <2>7, <2>8, <2>9, <2>10,
               <2>11, <2>12, <2>13
            DEF PendingPodsDaemon
  <1>3. Waits(u)' <=> Waits(u)
    BY <1>2, SameQueues
  <1> DEFINE Quiet == /\ UNCHANGED <<status, pod, excuse>> /\ pending' \subseteq pending
                      /\ HeldByDaemon(u) => HeldByDaemon(u)'
  <1>4. CASE Quiet
    <2>1. Passive(u)
      BY <1>1, <1>2, <1>3, <1>4 DEF Passive, glue
    <2> QED BY <1>1, <2>1, PassiveKeeps
  <1>5. CASE HeldByDaemon(u)' \/ excuse'[u] # "none"
    BY <1>5 DEF Keeps, KeepsQueued, KeepsRunning, KeepsStopped, Settled
  <1>6. CASE /\ u # dt /\ (u \in pending' => u \in pending) /\ ~ HeldByDaemon(u)
             /\ status'[u] = status[u] /\ pod'[u] = pod[u] /\ excuse'[u] = excuse[u]
    <2>1. Passive(u)
      BY <1>1, <1>2, <1>3, <1>6 DEF Passive, glue
    <2> QED BY <1>1, <2>1, PassiveKeeps
  <1> USE DEF HeldByDaemon, Excuse, SetStatus, SameStatus, Fault, NoFault, NextPod,
              NextAborted, server
  <1>7. CASE \/ ListPods \/ Refresh \/ Skip \/ ReadStatus \/ UnpendLost
             \/ AbortedTasks \/ Recheck \/ Reread \/ RoundFails
    <2>1. CASE ListPods BY <1>4, <2>1 DEF ListPods
    <2>2. CASE Refresh BY <1>4, <2>2 DEF Refresh
    <2>3. CASE Skip BY <1>4, <2>3 DEF Skip
    <2>4. CASE ReadStatus BY <1>4, <2>4 DEF ReadStatus
    <2>5. CASE UnpendLost BY <1>4, <2>5 DEF UnpendLost
    <2>6. CASE AbortedTasks BY <1>4, <2>6 DEF AbortedTasks
    <2>7. CASE Recheck BY <1>4, <2>7 DEF Recheck
    <2>8. CASE Reread BY <1>4, <2>8 DEF Reread
    <2>9. CASE RoundFails BY <1>4, <2>9 DEF RoundFails
    <2> QED BY <1>7, <2>1, <2>2, <2>3, <2>4, <2>5, <2>6, <2>7, <2>8, <2>9
  <1>8. CASE Evict
    <2>1. CASE u = dt BY <1>5, <1>8, <2>1 DEF Evict
    <2>2. CASE u # dt BY <1>6, <1>8, <2>2 DEF Evict
    <2> QED BY <2>1, <2>2
  <1>9. CASE FailEvicted
    <2>1. CASE u = dt
      <3>1. status'[u] = "failed" \/ excuse'[u] # "none"
        BY <1>9, <2>1 DEF FailEvicted
      <3> QED BY <1>5, <3>1 DEF Keeps, KeepsQueued, KeepsRunning, KeepsStopped
    <2>2. CASE u # dt BY <1>6, <1>9, <2>2 DEF FailEvicted
    <2> QED BY <2>1, <2>2
  <1>10. CASE RequeueLost
    <2>1. CASE u # dt BY <1>6, <1>10, <2>1 DEF RequeueLost
    <2>2. CASE u = dt
      <3>1. CASE UNCHANGED <<status, pending, excuse>>
        BY <1>4, <1>10, <3>1 DEF RequeueLost
      <3>2. CASE /\ status'[u] = "queued" /\ UNCHANGED pod
                 /\ pod[u] \in {"pending", "booting"} \/ excuse'[u] # "none"
        <4>1. CASE pod'[u] \in {"pending", "booting"}
          BY <3>2, <4>1 DEF Keeps, KeepsQueued, KeepsRunning, KeepsStopped
        <4> QED BY <1>5, <3>2, <4>1
      <3> QED BY <1>10, <2>2, <3>1, <3>2 DEF RequeueLost
    <2> QED BY <2>1, <2>2
  <1>11. CASE DeleteAborted
    <2>1. CASE u # dt BY <1>6, <1>11, <2>1 DEF DeleteAborted
    <2>2. CASE u = dt
      <3>1. /\ UNCHANGED <<status, pending>>
            /\ (status[u] = "stopped" /\ UNCHANGED excuse) \/ excuse'[u] # "none"
        BY <1>11, <2>2 DEF DeleteAborted
      <3>2. CASE status[u] = "stopped" /\ UNCHANGED excuse
        <4>1. ~ HeldByDaemon(u)
          BY <1>11 DEF DeleteAborted
        <4>2. WillPush(u)' <=> WillPush(u)
          BY <1>1, <3>1 DEF WillPush, glue
        <4>3. KeepsStopped(u)
          BY <1>1 DEF Keeps
        <4>4. KeepsStopped(u)'
          BY <1>2, <1>3, <3>1, <3>2, <4>1, <4>2, <4>3 DEF KeepsStopped, Settled
        <4> QED BY <3>1, <3>2, <4>4 DEF Keeps, KeepsQueued, KeepsRunning
      <3> QED BY <1>5, <3>1, <3>2
    <2> QED BY <2>1, <2>2
  <1> QED BY <1>7, <1>8, <1>9, <1>10, <1>11 DEF PendingPodsDaemon

\* The loop between two tasks, and the pods that are done.
Tidying ==
    \/ UsedPods \/ CleanupSkipped \/ CleanupOldPods \/ LookUpTasks \/ LookUpFails
    \/ \E x \in stale : FailStale(x[1], x[2])
    \/ NoTasks \/ GetNextTask \/ AnswerLost

LEMMA TidyingLosesNobody ==
  ASSUME TypeOK, Control, NobodyLost, Tidying, NEW u \in Tasks
  PROVE  Keeps(u)'
  <1> USE DEF TypeOK, ServerOK, StatusTypeOK, BookOK, PodsTypeOK
  <1>1. gt = NoTask /\ gt # u /\ UNCHANGED daemon /\ Keeps(u)
    <2>1. gpc \in Between
      BY DEF Tidying, UsedPods, CleanupSkipped, CleanupOldPods, LookUpTasks, LookUpFails,
             FailStale, NoTasks, GetNextTask, AnswerLost, Between
    <2>2. UNCHANGED daemon
      BY DEF Tidying, UsedPods, CleanupSkipped, CleanupOldPods, LookUpTasks, LookUpFails,
             FailStale, NoTasks, GetNextTask, AnswerLost, LoopOnly
    <2> QED BY <2>1, <2>2, ConstantsAssumption DEF Control, NobodyLost
  <1>2. HeldByDaemon(u)' <=> HeldByDaemon(u)
    BY <1>1 DEF HeldByDaemon, daemon
  <1>3. CASE excuse'[u] # "none"
    BY <1>3 DEF Keeps, KeepsQueued, KeepsRunning, KeepsStopped, Settled
  <1> USE DEF LoopOnly, server, book, Goto, SetStatus, Excuse, Fault, NoFault, NextQueue
  <1>4. CASE UsedPods \/ CleanupSkipped \/ NoTasks
    <2>1. /\ UNCHANGED <<status, pod, excuse, wish, queue>>
          /\ gone' = gone /\ stale' = stale
      BY <1>4 DEF UsedPods, CleanupSkipped, NoTasks
    <2>2. Passive(u)
      BY <1>1, <1>2, <2>1, SameQueues DEF Passive
    <2> QED BY <1>1, <2>2, PassiveKeeps
  <1>5. CASE CleanupOldPods
    <2>1. PICK dead \in SUBSET {t \in Tasks : pod[t] = "done"} :
            /\ pod' = [t \in Tasks |-> IF t \in dead THEN "none" ELSE pod[t]]
            /\ gone' = dead
      BY <1>5 DEF CleanupOldPods
    <2>2. UNCHANGED <<status, excuse, wish, queue, stale, gt>> /\ gone = {}
      BY <1>5 DEF CleanupOldPods, Control
    <2>3. CASE u \notin dead
      <3>1. Passive(u)
        BY <1>1, <1>2, <2>1, <2>2, <2>3, SameQueues DEF Passive
      <3> QED BY <1>1, <3>1, PassiveKeeps
    <2>4. CASE u \in dead
      <3>1. (Waits(u)' <=> Waits(u)) /\ (Settled(u)' <=> Settled(u))
        BY <1>2, <2>2, SameQueues DEF Settled
      <3>2. ~ WillLaunch(u) /\ ~ WillPush(u) /\ pod[u] = "done"
        BY <1>1, <2>1, <2>4 DEF WillLaunch, WillPush
      <3>3. KeepsQueued(u)' /\ KeepsRunning(u)' /\ KeepsStopped(u)'
        BY <1>1, <2>1, <2>2, <2>4, <3>1, <3>2
           DEF Keeps, KeepsQueued, KeepsRunning, KeepsStopped
      <3> QED BY <3>3 DEF Keeps
    <2> QED BY <2>3, <2>4
  <1>6. CASE LookUpTasks
    <2>1. UNCHANGED <<status, pod, wish, queue, gt>> /\ gone' = {} /\ stale = {}
      BY <1>6 DEF LookUpTasks, Control
    <2>2. excuse'[u] = IF u \in gone /\ status[u] = "in_progress" /\ ~ old[u]
                       THEN "recent" ELSE excuse[u]
      BY <1>6 DEF LookUpTasks
    <2>3. u \in gone /\ IsStale(u) => <<u, status[u]>> \in stale'
      BY <1>6 DEF LookUpTasks
    <2>4. CASE excuse'[u] = excuse[u]
      <3>1. (Waits(u)' <=> Waits(u)) /\ (Settled(u)' <=> Settled(u))
        BY <1>2, <2>1, <2>4, SameQueues DEF Settled
      <3>2. ~ WillLaunch(u) /\ ~ WillPush(u)
        BY <1>1 DEF WillLaunch, WillPush
      <3>3. status[u] = "in_progress" /\ u \in gone /\ ~ Settled(u)
              => <<u, "in_progress">> \in stale'
        BY <2>2, <2>3, <2>4 DEF IsStale, Settled
      <3>4. KeepsQueued(u)' /\ KeepsRunning(u)' /\ KeepsStopped(u)'
        BY <1>1, <2>1, <3>1, <3>2, <3>3
           DEF Keeps, KeepsQueued, KeepsRunning, KeepsStopped
      <3> QED BY <3>4 DEF Keeps
    <2> QED BY <1>3, <2>2, <2>4
  <1>7. CASE LookUpFails
    <2>1. CASE u \notin gone
      <3>1. /\ UNCHANGED <<status, pod, wish, queue, stale, gt>>
            /\ excuse'[u] = excuse[u]
        BY <1>7, <2>1 DEF LookUpFails
      <3>2. Passive(u)
        BY <1>1, <1>2, <2>1, <3>1, SameQueues DEF Passive
      <3> QED BY <1>1, <3>2, PassiveKeeps
    <2>2. CASE u \in gone
      BY <1>3, <1>7, <2>2 DEF LookUpFails
    <2> QED BY <2>1, <2>2
  <1>8. ASSUME NEW x \in stale, FailStale(x[1], x[2]) PROVE Keeps(u)'
    <2>1. /\ UNCHANGED <<pod, wish, gt, gone>>
          /\ stale' = stale \ {<<x[1], x[2]>>}
          /\ x[1] # u => status'[u] = status[u] /\ excuse'[u] = excuse[u]
          /\ UNCHANGED queue \/ queue' = Without(x[1])
      BY <1>8 DEF FailStale, LeaveQueue, StayQueued
    <2>2. CASE x[1] # u
      <3>1. Waits(u) => Waits(u)'
        BY <2>1, <2>2, EntryRemoved, SameQueues
      <3>2. Passive(u)
        BY <1>1, <1>2, <2>1, <2>2, <3>1 DEF Passive
      <3> QED BY <1>1, <3>2, PassiveKeeps
    <2>3. CASE x[1] = u /\ status'[u] = "failed"
      BY <2>3 DEF Keeps, KeepsQueued, KeepsRunning, KeepsStopped
    <2>4. CASE x[1] = u /\ x[2] = "queued" /\ UNCHANGED <<server, excuse>>
      <3>1. Passive(u)
        BY <1>1, <1>2, <2>1, <2>4, SameQueues DEF Passive
      <3> QED BY <1>1, <3>1, PassiveKeeps
    <2>5. \/ x[1] # u \/ (x[1] = u /\ status'[u] = "failed")
          \/ (x[1] = u /\ x[2] = "queued" /\ UNCHANGED <<server, excuse>>)
          \/ excuse'[u] # "none"
      BY <1>8 DEF FailStale
    <2> QED BY <1>3, <2>2, <2>3, <2>4, <2>5
  <1>9. CASE GetNextTask \/ AnswerLost
    <2>1. /\ queue[gq] # <<>> /\ queue' = [queue EXCEPT ![gq] = Tail(@)]
          /\ UNCHANGED <<status, pod, wish>> /\ gone' = gone /\ stale' = stale
      BY <1>9 DEF GetNextTask, AnswerLost
    <2>2. gq \in Queues
      BY <1>9, ConstantsAssumption
         DEF GetNextTask, AnswerLost, LoopOK, Control, Queues
    <2>3. u # Head(queue[gq]) /\ Waits(u) => Waits(u)'
      BY <2>1, <2>2, EntryPopped
    <2>4. CASE u # Head(queue[gq])
      <3>1. excuse'[u] = excuse[u]
        BY <1>9, <2>4 DEF GetNextTask, AnswerLost
      <3>2. Passive(u)
        BY <1>1, <1>2, <2>1, <2>3, <2>4, <3>1 DEF Passive
      <3> QED BY <1>1, <3>2, PassiveKeeps
    <2>5. CASE u = Head(queue[gq]) /\ GetNextTask
      <3>1. WillLaunch(u)' /\ WillPush(u)' /\ UNCHANGED excuse
        BY <2>5 DEF GetNextTask, WillLaunch, WillPush
      <3>2. KeepsRunning(u)'
        BY <1>1, <1>2, <2>1, <3>1 DEF Keeps, KeepsRunning, Settled
      <3> QED BY <3>1, <3>2 DEF Keeps, KeepsQueued, KeepsStopped
    <2>6. CASE u = Head(queue[gq]) /\ AnswerLost
      BY <1>3, <2>6 DEF AnswerLost
    <2> QED BY <1>9, <2>4, <2>5, <2>6
  <1> QED BY <1>4, <1>5, <1>6, <1>7, <1>8, <1>9 DEF Tidying

\* The loop with a task in hand.
Working ==
    \/ OwnerLogin \/ Crash \/ StopFirst \/ RemoveStuck \/ PushToPending
    \/ PushFails \/ CountPods \/ StopForQueue \/ BackToQueue \/ NoTemplate
    \/ Apply \/ QuotaExceeded \/ ApplyFails \/ FailApplied \/ Unpend
    \/ StillQueued \/ NotQueuedAnyMore \/ AddTask \/ AddTaskFails
    \/ MoveToFront \/ NotMoved

LEMMA WorkFrame ==
  ASSUME TypeOK, Control, Working
  PROVE  /\ gpc \notin Between /\ gt \in Tasks /\ gq \in Queues
         /\ gone = {} /\ stale = {} /\ UNCHANGED <<daemon, wish, gone, stale>>
  <1>1. gpc \notin Between
    BY DEF Working, OwnerLogin, Crash, StopFirst, RemoveStuck, PushToPending, PushFails,
           CountPods, StopForQueue, BackToQueue, NoTemplate, Apply, QuotaExceeded,
           ApplyFails, FailApplied, Unpend, StillQueued, NotQueuedAnyMore, AddTask,
           AddTaskFails, MoveToFront, NotMoved, Between
  <1>2. UNCHANGED <<daemon, wish, gone, stale>>
    <2> USE DEF Leave, NextQueue, LoopOnly, Placing, book
    <2>1. CASE OwnerLogin BY <2>1 DEF OwnerLogin
    <2>2. CASE Crash BY <2>2 DEF Crash
    <2>3. CASE StopFirst BY <2>3 DEF StopFirst
    <2>4. CASE RemoveStuck BY <2>4 DEF RemoveStuck
    <2>5. CASE PushToPending BY <2>5 DEF PushToPending
    <2>6. CASE PushFails BY <2>6 DEF PushFails
    <2>7. CASE CountPods BY <2>7 DEF CountPods
    <2>8. CASE StopForQueue BY <2>8 DEF StopForQueue
    <2>9. CASE BackToQueue BY <2>9 DEF BackToQueue
    <2>10. CASE NoTemplate BY <2>10 DEF NoTemplate
    <2>11. CASE Apply BY <2>11 DEF Apply
    <2>12. CASE QuotaExceeded BY <2>12 DEF QuotaExceeded
    <2>13. CASE ApplyFails BY <2>13 DEF ApplyFails
    <2>14. CASE FailApplied BY <2>14 DEF FailApplied
    <2>15. CASE Unpend BY <2>15 DEF Unpend
    <2>16. CASE StillQueued BY <2>16 DEF StillQueued
    <2>17. CASE NotQueuedAnyMore BY <2>17 DEF NotQueuedAnyMore
    <2>18. CASE AddTask BY <2>18 DEF AddTask
    <2>19. CASE AddTaskFails BY <2>19 DEF AddTaskFails
    <2>20. CASE MoveToFront BY <2>20 DEF MoveToFront
    <2>21. CASE NotMoved BY <2>21 DEF NotMoved
    <2> QED BY <2>1, <2>2, <2>3, <2>4, <2>5, <2>6, <2>7, <2>8, <2>9, <2>10,
               <2>11, <2>12, <2>13, <2>14, <2>15, <2>16, <2>17, <2>18,
               <2>19, <2>20, <2>21
            DEF Working
  <1> QED BY <1>1, <1>2, ConstantsAssumption DEF TypeOK, LoopOK, Control, Between, Queues

LEMMA WorkKeepsQueues ==
  ASSUME TypeOK, Control, Working, NEW u \in Tasks, Waits(u), u # gt \/ ~ OwnerLogin
  PROVE  Waits(u)'
  <1>1. gt \in Tasks /\ gq \in Queues /\ QueuesOK
    BY WorkFrame DEF TypeOK, ServerOK
  <1>2. \/ UNCHANGED queue
        \/ queue' = [queue EXCEPT ![gq] = Append(@, gt)]
        \/ queue' = [queue EXCEPT ![gq] = <<gt>> \o RemoveFirst(@, gt)]
        \/ OwnerLogin /\ queue' = Without(gt)
    <2> USE DEF Leave, NextQueue, LoopOnly, Placing, server, SetStatus, SameStatus,
                Excuse, Fault, NoFault, Goto, LeaveQueue, StayQueued
    <2>1. CASE OwnerLogin BY <2>1 DEF OwnerLogin
    <2>2. CASE Crash BY <2>2 DEF Crash
    <2>3. CASE StopFirst BY <2>3 DEF StopFirst
    <2>4. CASE RemoveStuck BY <2>4 DEF RemoveStuck
    <2>5. CASE PushToPending BY <2>5 DEF PushToPending
    <2>6. CASE PushFails BY <2>6 DEF PushFails
    <2>7. CASE CountPods BY <2>7 DEF CountPods
    <2>8. CASE StopForQueue BY <2>8 DEF StopForQueue
    <2>9. CASE BackToQueue BY <2>9 DEF BackToQueue
    <2>10. CASE NoTemplate BY <2>10 DEF NoTemplate
    <2>11. CASE Apply BY <2>11 DEF Apply
    <2>12. CASE QuotaExceeded BY <2>12 DEF QuotaExceeded
    <2>13. CASE ApplyFails BY <2>13 DEF ApplyFails
    <2>14. CASE FailApplied BY <2>14 DEF FailApplied
    <2>15. CASE Unpend BY <2>15 DEF Unpend
    <2>16. CASE StillQueued BY <2>16 DEF StillQueued
    <2>17. CASE NotQueuedAnyMore BY <2>17 DEF NotQueuedAnyMore
    <2>18. CASE AddTask BY <2>18 DEF AddTask
    <2>19. CASE AddTaskFails BY <2>19 DEF AddTaskFails
    <2>20. CASE MoveToFront BY <2>20 DEF MoveToFront
    <2>21. CASE NotMoved BY <2>21 DEF NotMoved
    <2> QED BY <2>1, <2>2, <2>3, <2>4, <2>5, <2>6, <2>7, <2>8, <2>9, <2>10,
               <2>11, <2>12, <2>13, <2>14, <2>15, <2>16, <2>17, <2>18,
               <2>19, <2>20, <2>21
            DEF Working
  <1> QED BY <1>1, <1>2, SameQueues, EntryAdded, EntryToFront, EntryRemoved

LEMMA WorkLeavesOthers ==
  ASSUME TypeOK, Control, NobodyLost, Working, NEW u \in Tasks, u # gt
  PROVE  Keeps(u)'
  <1>1. Waits(u) => Waits(u)'
    BY WorkKeepsQueues
  <1>2. UNCHANGED <<daemon, wish, gone, stale>>
    BY WorkFrame
  <1>3. status'[u] = status[u] /\ pod'[u] = pod[u] /\ excuse'[u] = excuse[u]
    <2> USE DEF LoopOnly, Placing, server, book, SetStatus, SameStatus, Excuse, Fault,
                NoFault, Goto, TypeOK, ServerOK, StatusTypeOK, PodsTypeOK, BookOK
    <2>1. CASE OwnerLogin BY <2>1 DEF OwnerLogin
    <2>2. CASE Crash BY <2>2 DEF Crash
    <2>3. CASE StopFirst BY <2>3 DEF StopFirst
    <2>4. CASE RemoveStuck BY <2>4 DEF RemoveStuck
    <2>5. CASE PushToPending BY <2>5 DEF PushToPending
    <2>6. CASE PushFails BY <2>6 DEF PushFails
    <2>7. CASE CountPods BY <2>7 DEF CountPods
    <2>8. CASE StopForQueue BY <2>8 DEF StopForQueue
    <2>9. CASE BackToQueue BY <2>9 DEF BackToQueue
    <2>10. CASE NoTemplate BY <2>10 DEF NoTemplate
    <2>11. CASE Apply BY <2>11 DEF Apply
    <2>12. CASE QuotaExceeded BY <2>12 DEF QuotaExceeded
    <2>13. CASE ApplyFails BY <2>13 DEF ApplyFails
    <2>14. CASE FailApplied BY <2>14 DEF FailApplied
    <2>15. CASE Unpend BY <2>15 DEF Unpend
    <2>16. CASE StillQueued BY <2>16 DEF StillQueued
    <2>17. CASE NotQueuedAnyMore BY <2>17 DEF NotQueuedAnyMore
    <2>18. CASE AddTask BY <2>18 DEF AddTask
    <2>19. CASE AddTaskFails BY <2>19 DEF AddTaskFails
    <2>20. CASE MoveToFront BY <2>20 DEF MoveToFront
    <2>21. CASE NotMoved BY <2>21 DEF NotMoved
    <2> QED BY <2>1, <2>2, <2>3, <2>4, <2>5, <2>6, <2>7, <2>8, <2>9, <2>10,
               <2>11, <2>12, <2>13, <2>14, <2>15, <2>16, <2>17, <2>18,
               <2>19, <2>20, <2>21
            DEF Working
  <1>4. Passive(u)
    BY <1>1, <1>2, <1>3 DEF Passive, HeldByDaemon, daemon
  <1> QED BY <1>4, PassiveKeeps DEF NobodyLost

LEMMA WorkKeepsOwn ==
  ASSUME TypeOK, Control, NobodyLost, Working, NEW u \in Tasks, u = gt
  PROVE  Keeps(u)'
  <1>1. gq \in Queues /\ gone = {} /\ stale = {} /\ UNCHANGED <<daemon, wish, gone, stale>>
    BY WorkFrame
  <1>2. Keeps(u) /\ (HeldByDaemon(u)' <=> HeldByDaemon(u))
    BY <1>1 DEF NobodyLost, HeldByDaemon, daemon
  <1>3. CASE excuse'[u] # "none"
    BY <1>3 DEF Keeps, KeepsQueued, KeepsRunning, KeepsStopped, Settled
  <1>4. CASE status'[u] = "failed"
    BY <1>4 DEF Keeps, KeepsQueued, KeepsRunning, KeepsStopped
  <1>5. CASE status'[u] = "queued" /\ (Waits(u)' \/ WillLaunch(u)')
    BY <1>5 DEF Keeps, KeepsQueued, KeepsRunning, KeepsStopped
  <1>6. CASE status'[u] = "stopped" /\ WillPush(u)'
    BY <1>6 DEF Keeps, KeepsQueued, KeepsRunning, KeepsStopped
  <1> DEFINE Steady ==
        /\ UNCHANGED <<status, pod, excuse>>
        /\ WillLaunch(u) => WillLaunch(u)' \/ Waits(u)' \/ status[u] # "queued"
        /\ WillPush(u) => WillPush(u)' \/ Waits(u)' \/ status[u] # "stopped"
  <1>7. CASE Steady /\ ~ OwnerLogin
    <2>1. (Waits(u) => Waits(u)') /\ (Settled(u)' <=> Settled(u))
      BY <1>2, <1>7, WorkKeepsQueues DEF Settled
    <2>2. KeepsQueued(u)' /\ KeepsRunning(u)' /\ KeepsStopped(u)'
      BY <1>1, <1>2, <1>7, <2>1 DEF Keeps, KeepsQueued, KeepsRunning, KeepsStopped
    <2> QED BY <2>2 DEF Keeps
  <1> USE DEF WillLaunch, WillPush, TypeOK, ServerOK, StatusTypeOK, PodsTypeOK, Pods, BookOK
  <1> USE DEF LoopOnly, Placing, Leave, Goto, server, book, SetStatus, SameStatus, Excuse,
              Fault, NoFault
  <1>10. CASE OwnerLogin
    <2>1. CASE UNCHANGED <<server, excuse>> /\ gt' = gt /\ gpc' = IF Basic THEN "stop" ELSE "remove"
      <3>1. UNCHANGED pod
        BY <1>10 DEF OwnerLogin
      <3>2. WillLaunch(u)' /\ WillPush(u)'
        BY <2>1
      <3>3. KeepsRunning(u)'
        BY <1>1, <1>2, <2>1, <3>1 DEF Keeps, KeepsRunning, Settled
      <3> QED BY <3>2, <3>3 DEF Keeps, KeepsQueued, KeepsStopped
    <2>2. \/ UNCHANGED <<server, excuse>> /\ gt' = gt /\ gpc' = IF Basic THEN "stop" ELSE "remove"
          \/ status'[u] = "failed" \/ excuse'[u] # "none"
      BY <1>10 DEF OwnerLogin
    <2> QED BY <1>3, <1>4, <2>1, <2>2
  <1>11. CASE Crash
    BY <1>3, <1>11 DEF Crash
  <1>12. CASE StopFirst
    BY <1>6, <1>12 DEF StopFirst
  <1>13. CASE RemoveStuck
    BY <1>7, <1>13 DEF RemoveStuck, OwnerLogin
  <1>14. CASE PushToPending
    BY <1>5, <1>14 DEF PushToPending
  <1>15. CASE PushFails
    <2>1. CASE excuse'[u] = "push"
      BY <1>3, <2>1
    <2>2. CASE gpc = "push" /\ (~ Enqueueable(gt) \/ gt \in pending) /\ UNCHANGED excuse
      <3>1. WillLaunch(u) => status[u] # "queued"
        BY <2>2 DEF Enqueueable
      <3>2. WillPush(u) => status[u] # "stopped"
        BY <2>2 DEF Enqueueable
      <3>3. Steady /\ ~ OwnerLogin
        BY <1>15, <2>2, <3>1, <3>2 DEF PushFails, OwnerLogin
      <3> QED BY <1>7, <3>3
    <2> QED BY <1>15, <2>1, <2>2 DEF PushFails
  <1>16. CASE CountPods
    BY <1>7, <1>16 DEF CountPods, OwnerLogin
  <1>17. CASE StopForQueue
    BY <1>6, <1>17 DEF StopForQueue
  <1>18. CASE BackToQueue
    <2>1. CASE status'[u] = "queued" /\ queue' = [queue EXCEPT ![gq] = Append(@, gt)]
      BY <1>1, <1>5, <2>1, EntryAdded
    <2>2. CASE /\ ~ (Enqueueable(gt) /\ ~ Contains(queue[gq], gt))
               /\ SameStatus /\ UNCHANGED <<queue, excuse>>
      <3>1. status[u] = "stopped" => Waits(u)'
        BY <1>1, <2>2, SameQueues DEF Enqueueable, Waits
      <3>2. Steady /\ ~ OwnerLogin
        BY <1>18, <2>2, <3>1 DEF BackToQueue, OwnerLogin
      <3> QED BY <1>7, <3>2
    <2>3. \/ status'[u] = "queued" /\ queue' = [queue EXCEPT ![gq] = Append(@, gt)]
          \/ /\ ~ (Enqueueable(gt) /\ ~ Contains(queue[gq], gt))
             /\ SameStatus /\ UNCHANGED <<queue, excuse>>
          \/ excuse'[u] # "none"
      BY <1>18 DEF BackToQueue
    <2> QED BY <1>3, <2>1, <2>2, <2>3
  <1>19. CASE NoTemplate
    BY <1>3, <1>19 DEF NoTemplate
  <1>20. CASE Apply
    <2>1. CASE excuse'[u] = "none"
      <3>1. UNCHANGED <<status, queue>> /\ ~ WillPush(u)
        BY <1>20 DEF Apply
      <3>2. pod[u] \in Pods /\ excuse[u] \in Excuses
        BY DEF TypeOK, PodsTypeOK, BookOK
      <3>3. ~ (pod[u] = "done" \/ (pod[u] = "running" /\ status[u] # "in_progress"))
        BY <1>20, <2>1, <3>2 DEF Apply
      <3>4. UNCHANGED excuse
        BY <1>20, <3>3 DEF Apply
      <3>5. pod'[u] # "none" /\ (status[u] = "queued" => pod'[u] \in {"pending", "booting"})
        BY <1>20, <3>2, <3>3 DEF Apply
      <3>6. (Waits(u)' <=> Waits(u)) /\ (Settled(u)' <=> Settled(u))
        BY <1>2, <3>4, <3>1, SameQueues DEF Settled
      <3> QED BY <1>1, <1>2, <3>1, <3>5, <3>6
              DEF Keeps, KeepsQueued, KeepsRunning, KeepsStopped
    <2> QED BY <1>3, <2>1
  <1>21. CASE QuotaExceeded
    BY <1>7, <1>21 DEF QuotaExceeded, OwnerLogin
  <1>22. CASE ApplyFails
    BY <1>7, <1>22 DEF ApplyFails, OwnerLogin
  <1>23. CASE FailApplied
    BY <1>4, <1>23 DEF FailApplied
  <1>24. CASE Unpend
    BY <1>7, <1>24 DEF Unpend, OwnerLogin
  <1>25. CASE StillQueued
    BY <1>7, <1>25 DEF StillQueued, OwnerLogin
  <1>26. CASE NotQueuedAnyMore
    BY <1>7, <1>26 DEF NotQueuedAnyMore, OwnerLogin
  <1>27. CASE AddTask
    <2>1. Waits(u)'
      BY <1>1, <1>27, EntryAdded DEF AddTask
    <2> QED BY <1>7, <1>27, <2>1 DEF AddTask, OwnerLogin
  <1>28. CASE AddTaskFails
    <2>1. status'[u] = "failed" \/ excuse'[u] # "none"
      BY <1>28 DEF AddTaskFails
    <2> QED BY <1>3, <1>4, <2>1
  <1>29. CASE MoveToFront
    BY <1>7, <1>29 DEF MoveToFront, OwnerLogin
  <1>30. CASE NotMoved
    BY <1>7, <1>30 DEF NotMoved, OwnerLogin
  <1> QED BY <1>10, <1>11, <1>12, <1>13, <1>14, <1>15, <1>16, <1>17, <1>18, <1>19,
             <1>20, <1>21, <1>22, <1>23, <1>24, <1>25, <1>26, <1>27, <1>28, <1>29,
             <1>30
          DEF Working

LEMMA GlueLosesNobody ==
  ASSUME TypeOK, Control, NobodyLost, Glue
  PROVE  NobodyLost'
  <1>1. Tidying \/ Working
    BY DEF Glue, Cleanup, Tidying, Working
  <1> QED BY <1>1, TidyingLosesNobody, WorkLeavesOthers, WorkKeepsOwn DEF NobodyLost

\* A task that should run is never without a queue, the glue, the daemon or a pod
\* that has it, unless a failure or one of the gaps of the glue that "excuse"
\* names; a pod that took its task while the daemon held it for pending is one.
THEOREM NobodyIsStranded == Spec => []NoStranded
  <1> DEFINE IInv == TypeOK /\ Control /\ NobodyLost
  <1>1. Init => IInv
    <2>1. ASSUME Init PROVE NobodyLost
      BY <2>1 DEF Init, NobodyLost, Keeps, KeepsQueued, KeepsRunning, KeepsStopped
    <2> QED BY <2>1, TypesInit
  <1>2. IInv /\ [Next]_vars => IInv'
    <2> SUFFICES ASSUME IInv, [Next]_vars PROVE IInv'
      OBVIOUS
    <2>1. TypeOK' /\ Control'
      BY TypesStep DEF TypesKept
    <2>2. CASE UNCHANGED vars
      <3>1. \A u \in Tasks : Passive(u)
        BY <2>2, SameQueues DEF Passive, HeldByDaemon, vars, server, glue, daemon, book
      <3> QED BY <2>1, <3>1, PassiveKeeps DEF NobodyLost
    <2>3. CASE Next
      BY <2>1, <2>3, UserLosesNobody, ClusterLosesNobody, DaemonLosesNobody, GlueLosesNobody
         DEF Next
    <2> QED BY <2>2, <2>3
  <1>3. IInv => NoStranded
    <2> SUFFICES ASSUME IInv, NEW t \in Tasks, Due(t)
                 PROVE  \/ HeldByGlue(t) \/ HeldByDaemon(t) \/ Live(t) \/ LeftByPod(t)
                        \/ excuse[t] # "none"
      BY DEF NoStranded
    <2>1. Keeps(t) /\ pod[t] \in Pods
      BY DEF NobodyLost, TypeOK, PodsTypeOK
    <2> QED BY <2>1 DEF Due, Keeps, KeepsQueued, KeepsRunning, KeepsStopped, Settled,
                        HeldByGlue, Live, LeftByPod, WillLaunch, WillPush, Pods
  <1> QED BY <1>1, <1>2, <1>3, PTL DEF Spec
=============================================================================
