-------------------------- MODULE QueueLoopProofs --------------------------
(* Theorems about QueueLoop, for any number of queues, any limit and any   *)
(* order.                                                                  *)
EXTENDS QueueLoop, FiniteSetTheorems, TLAPS

Step == (Environment \/ Loop \/ Run) /\ UNCHANGED options

-----------------------------------------------------------------------------
(* Types.                                                                  *)

LEMMA BooleansStep ==
  ASSUME TypeOK, Step
  PROVE  {hours', known', limited', booted', blind'} \subseteq BOOLEAN
  <1> USE DEF TypeOK, BooleansOK, options, userVars, loopVars, readVars, backoffVars, Step
  <1>1. CASE SetUp BY <1>1 DEF SetUp
  <1>2. CASE Count BY <1>2 DEF Count, StartPass, Forget
  <1>3. CASE CountFails BY <1>3 DEF CountFails, StartPass, Forget
  <1>4. CASE Fetch BY <1>4 DEF Fetch, Visit, GoOn
  <1>5. CASE FetchRaises BY <1>5 DEF FetchRaises, Crash, Forget
  <1>6. CASE Look BY <1>6 DEF Look, Visit, GoOn
  <1>7. CASE LookRaises BY <1>7 DEF LookRaises, Crash, Forget
  <1>8. CASE Take BY <1>8 DEF Take, pulling
  <1>9. CASE Empty BY <1>9 DEF Empty, GoOn, pulling
  <1>10. CASE Skip BY <1>10 DEF Skip, GoOn, pulling
  <1>11. CASE Restart BY <1>11 DEF Restart
  <1>12. CASE ServiceBoots BY <1>12 DEF ServiceBoots
  <1>13. CASE RunEnds BY <1>13 DEF RunEnds, Forget, GoOn
  <1>14. CASE RunRaises BY <1>14 DEF RunRaises, Crash, Forget
  <1>15. ASSUME NEW q \in Queues, Enqueue(q) PROVE {hours', known', limited', booted', blind'} \subseteq BOOLEAN
    BY <1>15 DEF Enqueue
  <1>16. ASSUME NEW q \in Queues, DeleteQueue(q) PROVE {hours', known', limited', booted', blind'} \subseteq BOOLEAN
    BY <1>16 DEF DeleteQueue, UserSwitches
  <1>17. ASSUME NEW q \in Queues, NEW t \in Flags, SetTag(q, t) PROVE {hours', known', limited', booted', blind'} \subseteq BOOLEAN
    BY <1>17 DEF SetTag, UserSwitches
  <1>18. ASSUME NEW f \in Flags, SetForce(f) PROVE {hours', known', limited', booted', blind'} \subseteq BOOLEAN
    BY <1>18 DEF SetForce, UserSwitches
  <1>19. CASE Clock BY <1>19 DEF Clock
  <1>20. CASE ServiceEnds BY <1>20 DEF ServiceEnds
  <1> QED BY <1>1, <1>2, <1>3, <1>4, <1>5, <1>6, <1>7, <1>8, <1>9, <1>10,
             <1>11, <1>12, <1>13, <1>14, <1>15, <1>16, <1>17, <1>18, <1>19, <1>20
          DEF Step, Environment, Loop, Run

LEMMA NumbersStep ==
  ASSUME TypeOK, Step
  PROVE  {services', delay', quick', switches', faults'} \subseteq Nat
  <1> USE ConstantsAssumption
      DEF ConstantsAssumption, TypeOK, NumbersOK, Fault, options, userVars, loopVars, readVars, backoffVars, Step
  <1>1. CASE SetUp BY <1>1 DEF SetUp
  <1>2. CASE Count BY <1>2 DEF Count, StartPass, Forget
  <1>3. CASE CountFails BY <1>3 DEF CountFails, StartPass, Forget
  <1>4. CASE Fetch BY <1>4 DEF Fetch, Visit, GoOn
  <1>5. CASE FetchRaises BY <1>5 DEF FetchRaises, Crash, Forget
  <1>6. CASE Look BY <1>6 DEF Look, Visit, GoOn
  <1>7. CASE LookRaises BY <1>7 DEF LookRaises, Crash, Forget
  <1>8. CASE Take BY <1>8 DEF Take, pulling
  <1>9. CASE Empty BY <1>9 DEF Empty, GoOn, pulling
  <1>10. CASE Skip BY <1>10 DEF Skip, GoOn, pulling
  <1>11. CASE Restart BY <1>11 DEF Restart
  <1>12. CASE ServiceBoots BY <1>12 DEF ServiceBoots
  <1>13. CASE RunEnds BY <1>13 DEF RunEnds, Forget, GoOn
  <1>14. CASE RunRaises BY <1>14 DEF RunRaises, Crash, Forget
  <1>15. ASSUME NEW q \in Queues, Enqueue(q) PROVE {services', delay', quick', switches', faults'} \subseteq Nat
    BY <1>15 DEF Enqueue
  <1>16. ASSUME NEW q \in Queues, DeleteQueue(q) PROVE {services', delay', quick', switches', faults'} \subseteq Nat
    BY <1>16 DEF DeleteQueue, UserSwitches
  <1>17. ASSUME NEW q \in Queues, NEW t \in Flags, SetTag(q, t) PROVE {services', delay', quick', switches', faults'} \subseteq Nat
    BY <1>17 DEF SetTag, UserSwitches
  <1>18. ASSUME NEW f \in Flags, SetForce(f) PROVE {services', delay', quick', switches', faults'} \subseteq Nat
    BY <1>18 DEF SetForce, UserSwitches
  <1>19. CASE Clock BY <1>19 DEF Clock
  <1>20. CASE ServiceEnds BY <1>20 DEF ServiceEnds
  <1> QED BY <1>1, <1>2, <1>3, <1>4, <1>5, <1>6, <1>7, <1>8, <1>9, <1>10,
             <1>11, <1>12, <1>13, <1>14, <1>15, <1>16, <1>17, <1>18, <1>19, <1>20
          DEF Step, Environment, Loop, Run

LEMMA PlacesStep ==
  ASSUME TypeOK, Step
  PROVE  PlacesOK'
  <1> USE ConstantsAssumption
      DEF ConstantsAssumption, TypeOK, Queues, Flags, PlacesOK, options, userVars, loopVars, readVars, backoffVars, Step
  <1>1. CASE SetUp BY <1>1 DEF SetUp
  <1>2. CASE Count BY <1>2 DEF Count, StartPass, Forget
  <1>3. CASE CountFails BY <1>3 DEF CountFails, StartPass, Forget
  <1>4. CASE Fetch BY <1>4 DEF Fetch, Visit, GoOn
  <1>5. CASE FetchRaises BY <1>5 DEF FetchRaises, Crash, Forget
  <1>6. CASE Look BY <1>6 DEF Look, Visit, GoOn
  <1>7. CASE LookRaises BY <1>7 DEF LookRaises, Crash, Forget
  <1>8. CASE Take BY <1>8 DEF Take, pulling
  <1>9. CASE Empty BY <1>9 DEF Empty, GoOn, pulling
  <1>10. CASE Skip BY <1>10 DEF Skip, GoOn, pulling
  <1>11. CASE Restart BY <1>11 DEF Restart
  <1>12. CASE ServiceBoots BY <1>12 DEF ServiceBoots
  <1>13. CASE RunEnds BY <1>13 DEF RunEnds, Forget, GoOn
  <1>14. CASE RunRaises BY <1>14 DEF RunRaises, Crash, Forget
  <1>15. ASSUME NEW q \in Queues, Enqueue(q) PROVE PlacesOK'
    BY <1>15 DEF Enqueue
  <1>16. ASSUME NEW q \in Queues, DeleteQueue(q) PROVE PlacesOK'
    BY <1>16 DEF DeleteQueue, UserSwitches
  <1>17. ASSUME NEW q \in Queues, NEW t \in Flags, SetTag(q, t) PROVE PlacesOK'
    BY <1>17 DEF SetTag, UserSwitches
  <1>18. ASSUME NEW f \in Flags, SetForce(f) PROVE PlacesOK'
    BY <1>18 DEF SetForce, UserSwitches
  <1>19. CASE Clock BY <1>19 DEF Clock
  <1>20. CASE ServiceEnds BY <1>20 DEF ServiceEnds
  <1> QED BY <1>1, <1>2, <1>3, <1>4, <1>5, <1>6, <1>7, <1>8, <1>9, <1>10,
             <1>11, <1>12, <1>13, <1>14, <1>15, <1>16, <1>17, <1>18, <1>19, <1>20
          DEF Step, Environment, Loop, Run

LEMMA TypeStep == TypeOK /\ [Next]_vars => TypeOK'
  <1> SUFFICES ASSUME TypeOK, [Next]_vars PROVE TypeOK'
    OBVIOUS
  <1>1. CASE Next
    <2>1. Step
      BY <1>1 DEF Next, Step
    <2>2. roundRobin' \in BOOLEAN /\ limit' \in Nat
      BY <2>1 DEF Step, options, TypeOK, BooleansOK, NumbersOK
    <2>3. overrun' \in Nat
      BY <1>1 DEF Next, CountOverrun, TypeOK, NumbersOK
    <2> QED BY <2>1, <2>2, <2>3, BooleansStep, NumbersStep, PlacesStep
            DEF TypeOK, BooleansOK, NumbersOK
  <1>2. CASE UNCHANGED vars
    BY <1>2 DEF vars, options, userVars, loopVars, readVars, backoffVars,
               TypeOK, BooleansOK, NumbersOK, PlacesOK, Queues
  <1> QED BY <1>1, <1>2

\* Every variable of the loop keeps its type.
THEOREM LoopTypeCorrect == Spec => []TypeOK
  <1>1. ASSUME Init PROVE TypeOK
    <2> USE <1>1, ConstantsAssumption DEF Init, ConstantsAssumption
    <2>1. BooleansOK BY DEF BooleansOK
    <2>2. NumbersOK BY DEF NumbersOK
    <2>3. PlacesOK BY DEF PlacesOK, Queues, Flags
    <2> QED BY <2>1, <2>2, <2>3 DEF TypeOK
  <1> QED BY <1>1, TypeStep, PTL DEF Spec

-----------------------------------------------------------------------------
(* The limit of the services.                                              *)

\* The services there may be at each point of a pass: one less than the limit
\* when it begins, one more for each task that was run.
Room ==
    IF pc \in {"look", "pull", "run"}
    THEN limit - 1 + (IF roundRobin THEN pos - 1 ELSE 0)
                   + (IF pc = "run" /\ booted THEN 1 ELSE 0)
    ELSE limit + (IF roundRobin THEN LastQueue - 1 ELSE 0)

WithinRoom == Services /\ ~blind => services <= Room

\* Going on to the next queue takes no room away.
LEMMA RoomGrows ==
  ASSUME TypeOK, UNCHANGED options, GoOn,
         pc \in {"look", "pull"} \/ (pc = "run" /\ roundRobin)
  PROVE  Room <= Room'
  <1> USE ConstantsAssumption
      DEF ConstantsAssumption, TypeOK, NumbersOK, PlacesOK, Queues, options, Room, GoOn
  <1>1. CASE pos = LastQueue BY <1>1
  <1>2. CASE pos # LastQueue BY <1>2
  <1> QED BY <1>1, <1>2

LEMMA RoomType == TypeOK => Room \in Int
  BY ConstantsAssumption
     DEF ConstantsAssumption, TypeOK, NumbersOK, PlacesOK, Queues, Room

LEMMA RoomTypeNext == TypeOK' => Room' \in Int
  BY ConstantsAssumption
     DEF ConstantsAssumption, TypeOK, NumbersOK, PlacesOK, Queues, Room

\* A step of the daemon that starts no service and counts none.
LEMMA RoomKept ==
  ASSUME TypeOK, WithinRoom, UNCHANGED <<options, blind>>,
         services' <= services, services' \in Nat, Room' \in Int, Room <= Room'
  PROVE  WithinRoom'
  <1>1. Room \in Int /\ services \in Nat
    BY RoomType DEF TypeOK, NumbersOK
  <1> QED BY <1>1 DEF WithinRoom, Services, options

LEMMA RoomStep ==
  ASSUME TypeOK, WithinRoom, Step, Room' \in Int
  PROVE  WithinRoom'
  <1> USE DEF options, userVars, loopVars, readVars, backoffVars
  <1>1. UNCHANGED options /\ services \in Nat
    BY DEF Step, TypeOK, NumbersOK
  <1>2. CASE Count
    <2>1. Services /\ ~blind' => limited
      BY <1>2, Zenon DEF Count
    <2>2. /\ limited => services < limit
          /\ pc' = "look" /\ pos' = 1 /\ services' = services
      BY <1>2 DEF Count, StartPass
    <2>3. Room' = limit - 1
      BY <1>1, <2>2, ConstantsAssumption
         DEF ConstantsAssumption, TypeOK, NumbersOK, Room
    <2> QED BY <1>1, <2>1, <2>2, <2>3 DEF WithinRoom, Services, TypeOK, NumbersOK
  <1>3. CASE CountFails
    BY <1>3 DEF CountFails, WithinRoom
  <1>4. CASE ServiceBoots
    <2>1. Room' = Room + 1 /\ services' = services + 1 /\ UNCHANGED blind
      BY <1>1, <1>4, ConstantsAssumption
         DEF ServiceBoots, ConstantsAssumption, TypeOK, NumbersOK, PlacesOK, Queues, Room
    <2>2. Room \in Int
      BY RoomType
    <2> QED BY <1>1, <2>1, <2>2 DEF WithinRoom, Services
  <1>5. CASE \/ Fetch \/ Look \/ Take \/ Empty \/ Skip
    <2>1. UNCHANGED <<blind, services, booted>> /\ pc \in {"look", "pull"}
      BY <1>5 DEF Fetch, Look, Take, Empty, Skip, pulling
    <2>2. GoOn \/ (UNCHANGED pos /\ pc' \in {"pull", "run"})
      BY <1>5 DEF Fetch, Look, Take, Empty, Skip, Visit, pulling
    <2>3. Room <= Room'
      <3>1. CASE GoOn BY <1>1, <2>1, <3>1, RoomGrows
      <3>2. CASE UNCHANGED pos /\ pc' \in {"pull", "run"}
        <4>1. pc # "run" /\ limit \in Int /\ pos \in Int
          BY <2>1 DEF TypeOK, NumbersOK, PlacesOK, Queues
        <4>2. Room = limit - 1 + (IF roundRobin THEN pos - 1 ELSE 0)
          BY <2>1, <4>1 DEF Room
        <4>3. \/ Room' = limit - 1 + (IF roundRobin THEN pos - 1 ELSE 0)
              \/ Room' = limit - 1 + (IF roundRobin THEN pos - 1 ELSE 0) + 1
          BY <1>1, <3>2, <4>1 DEF Room
        <4> QED BY <4>1, <4>2, <4>3
      <3> QED BY <2>2, <3>1, <3>2
    <2> QED BY <1>1, <2>1, <2>3, RoomKept
  <1>6. CASE RunEnds
    <2>1. UNCHANGED <<blind, services>>
      BY <1>6 DEF RunEnds
    <2>2. Room <= Room'
      <3>1. CASE roundRobin
        BY <1>1, <1>6, <3>1, RoomGrows DEF RunEnds
      <3>2. CASE ~roundRobin
        BY <1>1, <1>6, <3>2, ConstantsAssumption
           DEF RunEnds, ConstantsAssumption, TypeOK, NumbersOK, PlacesOK, Queues, Room
      <3> QED BY <3>1, <3>2
    <2> QED BY <1>1, <2>1, <2>2, RoomKept
  <1>7. CASE FetchRaises \/ LookRaises \/ RunRaises
    <2>1. UNCHANGED <<blind, services>> /\ pc' = "backoff" /\ pc \in {"look", "run"}
      BY <1>7 DEF FetchRaises, LookRaises, RunRaises, Crash
    <2>2. Room <= Room'
      BY <1>1, <2>1, ConstantsAssumption
         DEF ConstantsAssumption, TypeOK, NumbersOK, PlacesOK, Queues, Room
    <2> QED BY <1>1, <2>1, <2>2, RoomKept
  <1>8. CASE SetUp \/ Restart \/ Environment
    <2>1. /\ UNCHANGED <<blind, pos, booted>>
          /\ pc' = pc \/ {pc, pc'} \subseteq {"setup", "count", "backoff"}
      BY <1>8 DEF SetUp, Restart, Environment, Enqueue, UserSwitches, SetTag,
                  DeleteQueue, SetForce, Clock, ServiceEnds
    <2>2. services' <= services /\ services' \in Nat
      BY <1>1, <1>8 DEF SetUp, Restart, Environment, Enqueue, UserSwitches, SetTag,
                  DeleteQueue, SetForce, Clock, ServiceEnds
    <2>3. Room <= Room'
      BY <1>1, <2>1, ConstantsAssumption
         DEF ConstantsAssumption, TypeOK, NumbersOK, PlacesOK, Queues, Room
    <2> QED BY <1>1, <2>1, <2>2, <2>3, RoomKept
  <1> QED BY <1>2, <1>3, <1>4, <1>5, <1>6, <1>7, <1>8 DEF Step, Loop, Run

\* However passes, crashes and services interleave, the counted services never
\* exceed the limit by more than a round-robin pass can add.
THEOREM LimitIsKept == Spec => []InstanceLimit
  <1>1. Init => WithinRoom
    BY ConstantsAssumption DEF ConstantsAssumption, Init, WithinRoom, Room, Services
  <1>2. TypeOK /\ WithinRoom => InstanceLimit
    BY ConstantsAssumption
       DEF ConstantsAssumption, TypeOK, NumbersOK, PlacesOK, WithinRoom, Room,
           InstanceLimit, Queues, Services
  <1>3. TypeOK /\ WithinRoom /\ [Next]_vars => WithinRoom'
    <2>1. ASSUME UNCHANGED vars PROVE WithinRoom' = WithinRoom
      BY <2>1 DEF vars, options, loopVars, WithinRoom, Room, Services
    <2> QED BY <2>1, RoomStep, TypeStep, RoomTypeNext DEF Next, Step
  <1> QED BY <1>1, <1>2, <1>3, LoopTypeCorrect, PTL DEF Spec

-----------------------------------------------------------------------------
(* Switching the worker off.                                               *)

\* Once a task was taken with all queues closed, no other is about to be: what
\* the pass has read, if anything, says that they are closed.
Heeding ==
    /\ pc # "pull"
    /\ known /\ pc = "look" => \A q \in Queues : ~Active(tagSeen[q], forceSeen)

Heeds == overrun <= 1 /\ (overrun = 1 => (\A q \in Queues : ~Open(q)) /\ Heeding)

LEMMA HeedingStep ==
  ASSUME TypeOK, Heeding, Step, hours' = hours,
         \A q \in Queues : ~Open(q), \A q \in Queues : ~Open(q)'
  PROVE  (pc' = "run" => pc = "run") /\ Heeding'
  <1> USE DEF options, userVars, loopVars, readVars, backoffVars
  <1>1. pc # "pull" /\ pos \in Queues
    BY DEF Heeding, TypeOK, PlacesOK
  <1>2. CASE Environment
    BY <1>1, <1>2 DEF Environment, Enqueue, UserSwitches, SetTag, DeleteQueue,
                      SetForce, Clock, ServiceEnds, Heeding, Active
  <1>3. CASE SetUp \/ Count \/ CountFails \/ Restart
    BY <1>3 DEF SetUp, Count, CountFails, StartPass, Restart, Forget, Heeding
  <1>4. CASE Fetch
    <2>1. CASE support' = "no"
      <3>1. \A q \in Queues : ~Active(tag[q], "none")
        <4>1. UNCHANGED <<tag, hours>>
          BY <1>4 DEF Fetch
        <4> QED BY <2>1, <4>1 DEF Open, Active
      <3>2. GoOn /\ UNCHANGED readVars
        BY <1>1, <1>4, <2>1, <3>1 DEF Fetch, Visit
      <3> QED BY <1>4, <3>2 DEF Fetch, GoOn, Heeding, Active
    <2>2. CASE support' = "yes"
      <3>1. \A q \in Queues : ~Active(tag[q], force)
        <4>1. UNCHANGED <<tag, force, hours>>
          BY <1>4 DEF Fetch
        <4> QED BY <2>2, <4>1 DEF Open, Active
      <3>2. GoOn /\ tagSeen' = tag /\ forceSeen' = force /\ hours' = hours
        BY <1>1, <1>4, <2>2, <3>1 DEF Fetch, Visit
      <3> QED BY <3>1, <3>2 DEF GoOn, Heeding, Active
    <2> QED BY <1>4, <2>1, <2>2 DEF Fetch
  <1>5. CASE Look
    <2>1. \A q \in Queues : ~Active(tagSeen[q], forceSeen)
      BY <1>5 DEF Look, Heeding
    <2>2. GoOn /\ UNCHANGED <<readVars, hours>>
      BY <1>1, <1>5, <2>1 DEF Look, Visit
    <2> QED BY <2>1, <2>2 DEF GoOn, Heeding, Active
  <1>6. CASE FetchRaises \/ LookRaises \/ RunRaises
    BY <1>6 DEF FetchRaises, LookRaises, RunRaises, Crash, Heeding
  <1>7. CASE Take \/ Empty \/ Skip
    BY <1>1, <1>7 DEF Take, Empty, Skip
  <1>8. CASE ServiceBoots \/ RunEnds
    BY <1>8 DEF ServiceBoots, RunEnds, GoOn, Forget, Heeding, Active
  <1> QED BY <1>2, <1>3, <1>4, <1>5, <1>6, <1>7, <1>8 DEF Step, Loop, Run

\* A task taken although every queue is closed leaves the daemon heeding.
LEMMA TakeHeeds ==
  ASSUME TypeOK, Step, pc # "run", pc' = "run"
  PROVE  Heeding'
  BY DEF Heeding, TypeOK

LEMMA HeedsStep == TypeOK /\ Heeds /\ [Next]_vars => Heeds'
  <1> SUFFICES ASSUME TypeOK, Heeds, [Next]_vars PROVE Heeds'
    OBVIOUS
  <1>1. CASE UNCHANGED vars
    BY <1>1 DEF vars, userVars, loopVars, readVars, Heeds, Heeding, Open, Active
  <1>2. CASE Next /\ overrun' = 0
    BY <1>2 DEF Heeds
  <1>3. CASE Next /\ overrun' # 0
    <2>1. /\ Step /\ hours' = hours /\ \A q \in Queues : ~Open(q)'
          /\ overrun' = overrun + (IF pc # "run" /\ pc' = "run" THEN 1 ELSE 0)
      BY <1>3 DEF Next, Step, CountOverrun
    <2>2. overrun \in {0, 1}
      BY DEF Heeds, TypeOK, NumbersOK
    <2>3. CASE overrun = 0
      <3>1. overrun' = 1 /\ pc # "run" /\ pc' = "run"
        BY <1>3, <2>1, <2>3
      <3> QED BY <2>1, <3>1, TakeHeeds DEF Heeds
    <2>4. CASE overrun = 1
      <3>1. (pc' = "run" => pc = "run") /\ Heeding'
        BY <2>1, <2>4, HeedingStep DEF Heeds
      <3>2. overrun' = 1
        BY <2>1, <2>4, <3>1
      <3> QED BY <2>1, <3>1, <3>2 DEF Heeds
    <2> QED BY <2>2, <2>3, <2>4
  <1> QED BY <1>1, <1>2, <1>3

\* Once every queue is closed the daemon takes one more task at most, in either
\* order, whatever it had read before.
THEOREM SwitchedOff == Spec => []OffIsHeeded
  <1>1. Init => Heeds
    BY DEF Init, Heeds
  <1>2. Heeds => OffIsHeeded
    BY DEF Heeds, OffIsHeeded
  <1> QED BY <1>1, <1>2, HeedsStep, LoopTypeCorrect, PTL DEF Spec

-----------------------------------------------------------------------------
(* The back-off.  Powers of two are counted as the subsets of a set.       *)

LEMMA PowerOfZero == 2 ^ 0 = 1
  <1>1. Cardinality(SUBSET {}) = 2 ^ Cardinality({})
    BY FS_EmptySet, FS_SUBSET
  <1>2. SUBSET {} = {{}} /\ Cardinality({{}}) = 1 /\ Cardinality({}) = 0
    BY FS_EmptySet, FS_Singleton
  <1> QED BY <1>1, <1>2

LEMMA PowerIsNatural == ASSUME NEW n \in Nat PROVE 2 ^ n \in Nat
  <1>1. IsFiniteSet(1 .. n) /\ Cardinality(1 .. n) = n
    BY FS_Interval
  <1>2. IsFiniteSet(SUBSET (1 .. n)) /\ Cardinality(SUBSET (1 .. n)) = 2 ^ n
    BY <1>1, FS_SUBSET
  <1> QED BY <1>2, FS_CardinalityType

\* A set has more subsets than elements: one for each, and the empty one.
LEMMA PowerIsMore == ASSUME NEW n \in Nat PROVE n < 2 ^ n
  <1> DEFINE S == 1 .. n
             Singles == {{k} : k \in S}
             single == [k \in S |-> {k}]
  <1>1. IsFiniteSet(S) /\ Cardinality(S) = n
    BY FS_Interval
  <1>2. IsFiniteSet(SUBSET S) /\ Cardinality(SUBSET S) = 2 ^ n
    BY <1>1, FS_SUBSET
  <1>3. single \in Bijection(S, Singles)
    BY Zenon DEF Bijection, Injection, Surjection, IsInjective
  <1>4. IsFiniteSet(Singles) /\ Cardinality(Singles) = n
    BY <1>1, <1>3, FS_Bijection DEF ExistsBijection
  <1>5. Cardinality(Singles \cup {{}}) = n + 1
    BY <1>4, FS_AddElement
  <1>6. Singles \cup {{}} \in SUBSET (SUBSET S)
    OBVIOUS
  <1>7. n + 1 <= 2 ^ n
    BY <1>2, <1>5, <1>6, FS_Subset
  <1> QED BY <1>7, PowerIsNatural

\* The subsets without the last element, and those with it.
LEMMA PowerDoubles == ASSUME NEW n \in Nat PROVE 2 ^ (n + 1) = 2 * 2 ^ n
  <1> DEFINE S == 1 .. n
             T == 1 .. (n + 1)
             A == SUBSET S
             B == {X \cup {n + 1} : X \in A}
             adds == [X \in A |-> X \cup {n + 1}]
  <1>1. /\ IsFiniteSet(S) /\ Cardinality(S) = n
        /\ IsFiniteSet(T) /\ Cardinality(T) = n + 1
    BY FS_Interval
  <1>2. /\ IsFiniteSet(A) /\ Cardinality(A) = 2 ^ n
        /\ Cardinality(SUBSET T) = 2 ^ (n + 1)
    BY <1>1, FS_SUBSET
  <1>3. n + 1 \notin S /\ T = S \cup {n + 1}
    OBVIOUS
  <1>4. adds \in Bijection(A, B)
    <2>1. ASSUME NEW X \in A, NEW Y \in A, X \cup {n + 1} = Y \cup {n + 1} PROVE X = Y
      BY <1>3, <2>1
    <2> HIDE DEF A
    <2> QED BY <2>1, Zenon DEF Bijection, Injection, Surjection, IsInjective
  <1>5. IsFiniteSet(B) /\ Cardinality(B) = 2 ^ n
    BY <1>2, <1>4, FS_Bijection DEF ExistsBijection
  <1>6. A \cap B = {}
    BY <1>3
  <1>7. A \cup B = SUBSET T
    <2>1. A \cup B \subseteq SUBSET T
      BY <1>3
    <2>2. ASSUME NEW X \in SUBSET T, X \notin A PROVE X \in B
      <3>1. X \ {n + 1} \in A /\ X = (X \ {n + 1}) \cup {n + 1}
        BY <1>3, <2>2
      <3> QED BY <3>1
    <2> QED BY <2>1, <2>2
  <1>8. Cardinality(A \cup B) = 2 ^ n + 2 ^ n - Cardinality({})
    <2> HIDE DEF A, B
    <2>1. Cardinality(A \cup B) = Cardinality(A) + Cardinality(B) - Cardinality(A \cap B)
      BY <1>2, <1>5, FS_Union
    <2> QED BY <1>2, <1>5, <1>6, <2>1
  <1>9. Cardinality({}) = 0 /\ 2 ^ n \in Nat
    BY FS_EmptySet, PowerIsNatural
  <1>10. 2 ^ (n + 1) = 2 ^ n + 2 ^ n - 0
    BY <1>2, <1>7, <1>8, <1>9
  <1> QED BY <1>9, <1>10

\* 2 ^ n, and no more than MaxDelay.
Delay(n) == IF 2 ^ n > MaxDelay THEN MaxDelay ELSE 2 ^ n

LEMMA DelayZero == Delay(0) = 1
  BY PowerOfZero, ConstantsAssumption DEF ConstantsAssumption, Delay

LEMMA DelayDoubles ==
  ASSUME NEW n \in Nat
  PROVE  (IF 2 * Delay(n) > MaxDelay THEN MaxDelay ELSE 2 * Delay(n)) = Delay(n + 1)
  <1> DEFINE p == 2 ^ n
             r == 2 ^ (n + 1)
  <1>1. p \in Nat /\ r = 2 * p /\ MaxDelay \in Nat \ {0}
    BY PowerIsNatural, PowerDoubles, ConstantsAssumption DEF ConstantsAssumption
  <1>2. Delay(n) = (IF p > MaxDelay THEN MaxDelay ELSE p) /\ Delay(n + 1) = IF r > MaxDelay THEN MaxDelay ELSE r
    BY DEF Delay
  <1> HIDE DEF p, r
  <1> QED BY <1>1, <1>2

\* The count of crashes stops where the delay has long stopped growing.
LEMMA DelayStops == 2 * MaxDelay > MaxDelay /\ Delay(MaxDelay) = MaxDelay
  <1> DEFINE p == 2 ^ MaxDelay
  <1>1. MaxDelay \in Nat \ {0} /\ p > MaxDelay
    BY PowerIsMore, ConstantsAssumption DEF ConstantsAssumption
  <1>2. Delay(MaxDelay) = IF p > MaxDelay THEN MaxDelay ELSE p
    BY DEF Delay
  <1> HIDE DEF p
  <1> QED BY <1>1, <1>2

\* The delay follows the crashes wherever the loop is, and without
\* crash_backoff while it is waited for.
BackedOff ==
    /\ quick <= MaxDelay
    /\ CrashBackoff => delay = Delay(quick)
    /\ ~CrashBackoff /\ pc = "backoff" => delay = 1

LEMMA BackedOffStep ==
  ASSUME TypeOK, BackedOff, Step
  PROVE  BackedOff'
  <1>1. CrashBackoff \in BOOLEAN /\ MaxDelay \in Nat \ {0} /\ quick \in Nat
    BY ConstantsAssumption DEF ConstantsAssumption, TypeOK, NumbersOK
  <1>2. CASE Restart
    <2>1. /\ pc' = "setup"
          /\ delay' = IF 2 * delay > MaxDelay THEN MaxDelay ELSE 2 * delay
          /\ quick' = IF quick < MaxDelay THEN quick + 1 ELSE quick
      BY <1>2 DEF Restart
    <2>2. quick' <= MaxDelay
      BY <1>1, <2>1 DEF BackedOff
    <2>3. ASSUME CrashBackoff PROVE delay' = Delay(quick')
      <3>1. CASE quick < MaxDelay
        BY <1>1, <2>1, <2>3, <3>1, DelayDoubles DEF BackedOff
      <3>2. CASE quick = MaxDelay
        BY <1>1, <2>1, <2>3, <3>2, DelayStops DEF BackedOff
      <3> QED BY <1>1, <3>1, <3>2 DEF BackedOff
    <2>4. Delay(quick)' = Delay(quick')
      BY DEF Delay
    <2> QED BY <2>1, <2>2, <2>3, <2>4 DEF BackedOff
  <1>3. CASE FetchRaises \/ LookRaises \/ RunRaises
    <2>1. Crash
      BY <1>3 DEF FetchRaises, LookRaises, RunRaises
    <2>2. PICK healthy \in BOOLEAN :
            /\ delay' = IF healthy \/ ~CrashBackoff THEN 1 ELSE delay
            /\ quick' = IF healthy THEN 0 ELSE quick
      BY <2>1 DEF Crash
    <2>3. CASE healthy
      <3>1. delay' = 1 /\ quick' = 0 /\ 0 <= MaxDelay
        BY <1>1, <2>2, <2>3
      <3>2. Delay(quick)' = Delay(0)
        BY <3>1 DEF Delay
      <3> QED BY <3>1, <3>2, DelayZero DEF BackedOff
    <2>4. CASE ~healthy
      <3>1. quick' = quick /\ delay' = IF CrashBackoff THEN delay ELSE 1
        BY <2>2, <2>4
      <3> QED BY <3>1 DEF BackedOff, Delay
    <2> QED BY <2>3, <2>4
  <1>4. CASE \/ SetUp \/ Count \/ CountFails \/ Fetch \/ Look \/ Take \/ Empty \/ Skip
             \/ ServiceBoots \/ RunEnds \/ Environment
    <2> USE DEF options, userVars, loopVars, readVars, backoffVars
    <2>1. UNCHANGED <<delay, quick>>
      BY <1>4 DEF SetUp, Count, CountFails, StartPass, Fetch, Look, Take, Empty, Skip,
                  pulling, ServiceBoots, RunEnds, Environment, Enqueue, UserSwitches,
                  SetTag, DeleteQueue, SetForce, Clock, ServiceEnds
    <2>2. pc' = "backoff" => pc = "backoff"
      BY <1>4 DEF SetUp, Count, CountFails, StartPass, Fetch, Look, Visit, GoOn, Take,
                  Empty, Skip, pulling, ServiceBoots, RunEnds, Environment, Enqueue,
                  UserSwitches, SetTag, DeleteQueue, SetForce, Clock, ServiceEnds
    <2> QED BY <2>1, <2>2 DEF BackedOff, Delay
  <1> QED BY <1>2, <1>3, <1>4 DEF Step, Loop, Run

\* Whatever else goes on, the wait after a crash is two to the number of the
\* crashes before it since the loop ran for a minute, or MaxDelay when that is
\* less; without crash_backoff it is a second.
THEOREM BackoffGrows == Spec => []BackoffDoubles
  <1>1. Init => BackedOff
    <2>1. ASSUME Init PROVE delay = 1 /\ quick = 0 /\ pc = "setup"
      BY <2>1 DEF Init
    <2> QED BY <2>1, DelayZero, ConstantsAssumption DEF ConstantsAssumption, BackedOff
  <1>2. BackedOff => BackoffDoubles
    BY ConstantsAssumption DEF ConstantsAssumption, BackedOff, Delay, BackoffDoubles
  <1>3. TypeOK /\ BackedOff /\ [Next]_vars => BackedOff'
    <2>1. ASSUME BackedOff, UNCHANGED vars PROVE BackedOff'
      BY <2>1 DEF vars, loopVars, backoffVars, BackedOff, Delay
    <2> QED BY <2>1, BackedOffStep DEF Next, Step
  <1> QED BY <1>1, <1>2, <1>3, LoopTypeCorrect, PTL DEF Spec
=============================================================================
